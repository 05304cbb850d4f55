----------------------------- MODULE PassThrough -----------------------------
(***************************************************************************)
(* Serial ports, PCI and USB devices of the host that are attached to a    *)
(* server and detached from it.  Serial ports and PCI devices need a       *)
(* server that is off: with turn_off_vm the operation stops the server,    *)
(* reconfigures it, and starts it again.                                   *)
(*                                                                         *)
(* An operation waits for each of its tasks, with the ids of the power     *)
(* tasks in the properties of the server, but it never looks for the task  *)
(* of an earlier attempt: another attempt begins at the beginning.         *)
(***************************************************************************)
EXTENDS Naturals, Sequences, FiniteSets

CONSTANTS
    Device,     \* node instances, each a device of the host
    Server,     \* the machine, in "excused"
    MaxQueue    \* bound: tasks of one machine that are not done

ASSUME PassThroughAssumption ==
    /\ Server \notin Device
    /\ MaxQueue \in Nat

VARIABLES
    class,      \* how each device is attached
    power,      \* power state of the server
    has,        \* how many times the server has each device
    attached,   \* stored "__attached"
    saved,      \* a task id is stored in the properties of the server
    queue,      \* tasks of the server, in order
    work,       \* what the worker of each device does
    excused     \* history: devices attached or left twice, a server left off

passVars == <<class, power, has, attached, saved, queue, work, excused>>

\* "bracket": turn_off_vm.  "cold": the server has to be off already.
Class == {"bracket", "cold", "usb"}
Kind == {"off", "on", "add", "remove"}
Place == {"idle", "body", "stop", "stopping", "config", "configuring", "start",
          "starting", "flag"}
Waits == {"stopping", "configuring", "starting"}

Idle(op, outcome) == [op |-> op, at |-> "idle", task |-> "none", outcome |-> outcome]

PassInit ==
    /\ class \in [Device -> Class]
    /\ power \in {"on", "off"}
    /\ has = [d \in Device |-> 0]
    /\ attached = [d \in Device |-> FALSE]
    /\ saved = FALSE
    /\ queue = <<>>
    /\ work = [d \in Device |-> Idle("detach", "ok")]
    /\ excused = IF power = "on" THEN {} ELSE {Server}

-----------------------------------------------------------------------------
(* vSphere: one task of a machine after the other *)

Done(t, succeeded) ==
    /\ queue' = Tail(queue)
    /\ work' = IF t.waited
               THEN [work EXCEPT ![t.by].task = IF succeeded THEN "success" ELSE "error"]
               ELSE work
    /\ excused' = IF succeeded THEN excused ELSE excused \union {Server}
                     \union (IF t.kind = "on" THEN {t.by} ELSE {})
    /\ UNCHANGED <<class, attached, saved>>

PowerEnds ==
    /\ queue # <<>>
    /\ Head(queue).kind \in {"off", "on"}
    /\ power # Head(queue).kind
    /\ power' = Head(queue).kind
    /\ UNCHANGED has
    /\ Done(Head(queue), TRUE)

\* Only a USB device is added to, or taken from, a server that runs.
ReconfigEnds ==
    /\ queue # <<>>
    /\ LET t == Head(queue)
       IN  /\ t.kind \in {"add", "remove"}
           /\ power = "off" \/ class[t.by] = "usb"
           /\ IF t.kind = "add" THEN has[t.by] < 2 ELSE has[t.by] > 0
           /\ has' = [has EXCEPT ![t.by] = IF t.kind = "add" THEN @ + 1 ELSE @ - 1]
           /\ Done(t, TRUE)
    /\ UNCHANGED power

TaskFails ==
    /\ queue # <<>>
    /\ UNCHANGED <<power, has>>
    /\ Done(Head(queue), FALSE)

-----------------------------------------------------------------------------
(* Attempts *)

Goes(d, place) == work' = [work EXCEPT ![d].at = place, ![d].task = "none"]
Ends(d, outcome) == work' = [work EXCEPT ![d] = Idle(work[d].op, outcome)]

MayBegin(d, op) ==
    IF op = "attach" THEN work[d].op = "detach" <=> work[d].outcome = "ok"
    ELSE work[d].op = "attach" \/ work[d].outcome = "failed"

Called(d) ==
    /\ work[d].at = "idle"
    /\ \E op \in {"attach", "detach"} :
          /\ MayBegin(d, op)
          /\ work' = [work EXCEPT ![d] = [Idle(op, "none") EXCEPT !.at = "body"]]
    /\ UNCHANGED <<class, power, has, attached, saved, queue, excused>>

\* What an attempt that is not the first one may find done, and not know.
Upsets(d) ==
    IF work[d].at \notin {"configuring", "start", "starting", "flag"} THEN {}
    ELSE {d} \union (IF work[d].op = "detach" /\ class[d] = "bracket" THEN {Server} ELSE {})

\* OperationRetry after max_wait_time, the resumed operation after a crash, or
\* no more attempts: nobody waits for the task now.
Abandons(d) ==
    /\ work[d].at # "idle"
    /\ queue' = [i \in DOMAIN queue |->
                   IF queue[i].by = d THEN [queue[i] EXCEPT !.waited = FALSE] ELSE queue[i]]
    /\ UNCHANGED <<class, power, has, attached, saved>>

Again(d) ==
    /\ Abandons(d)
    /\ Goes(d, "body")
    /\ excused' = excused \union Upsets(d)

GivesUp(d) ==
    /\ Abandons(d)
    /\ Ends(d, "failed")
    /\ excused' = excused \union {d, Server}

-----------------------------------------------------------------------------
(* The bodies of attach_* and detach_* *)

Nothing(d) == IF work[d].op = "attach" THEN attached[d] ELSE has[d] = 0

\* Attached already, or not found among the devices of the server.
Skip(d) ==
    /\ work[d].at = "body"
    /\ Nothing(d)
    /\ Ends(d, "ok")
    /\ UNCHANGED <<class, power, has, attached, saved, queue, excused>>

\* A serial port or a PCI device without turn_off_vm, and the server runs.
Refuse(d) ==
    /\ work[d].at = "body"
    /\ ~Nothing(d)
    /\ class[d] = "cold"
    /\ power = "on"
    /\ Ends(d, "failed")
    /\ UNCHANGED <<class, power, has, attached, saved, queue, excused>>

\* get_usb_physical_path and get_pci_device: the host has no such device (any more).
NotOnHost(d) ==
    /\ work[d].at = "body"
    /\ ~Nothing(d)
    /\ work[d].op = "attach"
    /\ Ends(d, "failed")
    /\ excused' = excused \union (IF power = "off" \/ queue # <<>> THEN {Server} ELSE {})
    /\ UNCHANGED <<class, power, has, attached, saved, queue>>

Prepare(d) ==
    /\ work[d].at = "body"
    /\ ~Nothing(d)
    /\ ~(class[d] = "cold" /\ power = "on")
    /\ Goes(d, IF class[d] = "bracket" THEN "stop" ELSE "config")
    /\ UNCHANGED <<class, power, has, attached, saved, queue, excused>>

Launches(d, kind, place) ==
    /\ Len(queue) < MaxQueue
    /\ queue' = Append(queue, [kind |-> kind, by |-> d, waited |-> TRUE])
    /\ work' = [work EXCEPT ![d].at = place, ![d].task = "running"]
    /\ UNCHANGED <<class, power, has, attached, excused>>

\* temp_stop_server and temp_start_server, if there is anything to do.
Stop(d) ==
    /\ work[d].at = "stop"
    /\ power = "on"
    /\ Launches(d, "off", "stopping")
    /\ saved' = TRUE

Start(d) ==
    /\ work[d].at = "start"
    /\ power = "off"
    /\ Launches(d, "on", "starting")
    /\ saved' = TRUE

NoNeed(d) ==
    /\ work[d].at = IF power = "off" THEN "stop" ELSE "start"
    /\ Goes(d, IF power = "off" THEN "config" ELSE "flag")
    /\ UNCHANGED <<class, power, has, attached, saved, queue, excused>>

Configure(d) ==
    /\ work[d].at = "config"
    /\ Launches(d, IF work[d].op = "attach" THEN "add" ELSE "remove", "configuring")
    /\ UNCHANGED saved

\* Mutant: the server is not started again.
FollowingDown(d) == IF work[d].at = "stopping" THEN "config" ELSE "flag"

Following(d) ==
    CASE work[d].at = "stopping" -> "config"
      [] work[d].at = "configuring" /\ class[d] = "bracket" -> "start"
      [] OTHER -> "flag"

\* Mutant: how the task ended is not looked at.
WaitEndsBlindly(d) ==
    /\ work[d].at \in Waits
    /\ work[d].task \in {"success", "error"}
    /\ work[d].at # "configuring" => saved
    /\ saved' = (saved /\ work[d].at = "configuring")
    /\ Goes(d, Following(d))
    /\ UNCHANGED <<class, power, has, attached, queue, excused>>

\* The task ended and its id is removed; ids of power tasks are in the properties
\* of the server.
WaitEnds(d) ==
    /\ work[d].at \in Waits
    /\ work[d].task \in {"success", "error"}
    /\ work[d].at # "configuring" => saved
    /\ saved' = (saved /\ work[d].at = "configuring")
    /\ IF work[d].task = "success" THEN Goes(d, Following(d)) ELSE Ends(d, "failed")
    /\ UNCHANGED <<class, power, has, attached, queue, excused>>

\* Another worker has removed the id: KeyError, and another attempt.
WaitBreaks(d) ==
    /\ work[d].at \in Waits \ {"configuring"}
    /\ work[d].task \in {"success", "error"}
    /\ ~saved
    /\ Again(d)

\* Mutant: the operation does not end when the device is attached.
FlagEndless(d) ==
    /\ work[d].at = "flag"
    /\ Goes(d, "attached")
    /\ attached' = [attached EXCEPT ![d] = TRUE]
    /\ UNCHANGED <<class, power, has, saved, queue, excused>>

\* detach_usb_device leaves "__attached" as it is.
Flag(d) ==
    /\ work[d].at = "flag"
    /\ work[d].op = "attach" \/ attached[d] \/ class[d] = "usb"
    /\ attached' = [attached EXCEPT ![d] =
                       work[d].op = "attach" \/ (class[d] = "usb" /\ @)]
    /\ excused' = IF work[d].op = "detach" /\ class[d] = "usb"
                  THEN excused \union {d} ELSE excused
    /\ Ends(d, "ok")
    /\ UNCHANGED <<class, power, has, saved, queue>>

\* detach, and there is no "__attached" to delete: KeyError, and another attempt.
FlagBreaks(d) ==
    /\ work[d].at = "flag"
    /\ work[d].op = "detach"
    /\ class[d] # "usb"
    /\ ~attached[d]
    /\ Again(d)

Worker(d) ==
    \/ Called(d) \/ Again(d) \/ GivesUp(d) \/ Skip(d) \/ Refuse(d) \/ NotOnHost(d)
    \/ Prepare(d) \/ Stop(d) \/ Start(d) \/ NoNeed(d) \/ Configure(d) \/ WaitEnds(d)
    \/ WaitBreaks(d) \/ Flag(d) \/ FlagBreaks(d)

PassNext == PowerEnds \/ ReconfigEnds \/ TaskFails \/ \E d \in Device : Worker(d)

PassSpec == PassInit /\ [][PassNext]_passVars

-----------------------------------------------------------------------------
(* Correctness *)

\* The variables stay within their types.
PassTypeOK ==
    /\ class \in [Device -> Class]
    /\ power \in {"on", "off"}
    /\ has \in [Device -> 0 .. 2]
    /\ attached \in [Device -> BOOLEAN]
    /\ saved \in BOOLEAN
    /\ queue \in Seq([kind : Kind, by : Device, waited : BOOLEAN])
    /\ Len(queue) <= MaxQueue
    /\ work \in [Device -> [op : {"attach", "detach"}, at : Place,
                            task : {"none", "running", "success", "error"},
                            outcome : {"none", "ok", "failed"}]]
    /\ excused \in SUBSET (Device \union {Server})

\* After attach the server has the device once, after detach not at all.
SuccessMeansDone ==
    \A d \in Device \ excused :
       work[d].outcome = "ok" => has[d] = (IF work[d].op = "attach" THEN 1 ELSE 0)

\* A server that ran runs again when no operation is at work, whatever the operations
\* of several devices did to its power at the same time.
PowerRestored ==
    (\A d \in Device : work[d].at = "idle") /\ queue = <<>> /\ Server \notin excused
       => power = "on"

=============================================================================
