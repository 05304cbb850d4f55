# Verification of the Cloudify vSphere plugin

TLA+ models of `cloudify-vsphere-plugin`: the operations that Cloudify runs on
node instances, the vSphere tasks they start and wait for, and the runtime
properties in which one attempt leaves word for the next. TLC checks the
models on small instances; TLAPS proves the wait protocol, the server
lifecycle, the snapshots, the storages, drift and update, controllers and cards,
serial ports, PCI and USB devices, the port groups, the placement and the safety of
the import for all of them: every invariant that a passing run checks is a theorem.

Paths below are relative to `src/`; `clients/` is
`src/vsphere_plugin_common/clients/`.

## The system

A Cloudify worker runs one *operation* (create, start, snapshot_create, ...) of
one *node instance* at a time. Everything the instance remembers is in its
*runtime properties*, stored by the manager. vSphere does the work in *tasks*:
a call starts one and returns its id; the plugin polls it. Operations are
declared resumable: after a crash the worker runs the operation again from the
beginning, and after an `OperationRetry`, or any recoverable exception, it runs
it again with a larger `retry_number`, until it gives up.

So the hard part is not what one call does but what happens between attempts:
a task that outlives the attempt that started it, an id that was or was not
stored, a body that runs a second time, a property that a former attempt left.

### Inventory

| component | code | state | operations | interacts through |
|---|---|---|---|---|
| task wait | `clients/__init__.py` `_wait_for_task` | `_task_id`, `_resource_id`, the id it records | save, poll, time out, forget, record | task list of vSphere, runtime properties |
| operation wrapper | `vsphere_plugin_common/__init__.py`, `utils.py` `op` | none of its own | deferred task, body, clean-up after delete | calls task wait, then the body |
| server lifecycle | `vsphere_server_plugin/server.py`, `power.py`, `clients/server.py` | server id, external flag, `_keys_for_remove` | create, start, stop, suspend, resume, delete, power_on/off, reset | tasks on one virtual machine |
| snapshots | the same, `snapshot_*`, `backup_server` ... | snapshot id | create, apply, delete | snapshot tree, also changed by hand |
| storage | `vsphere_storage_plugin/storage.py`, `clients/storage.py` | `vm_disk_name`, file name, SCSI id | create, delete, check_drift, resize | devices of a server shared by several storages |
| server update and drift | `server.py` `update`, `check_drift`, `resize_server` | `*_update` flags, expected configuration | poststart, check_drift, update, resize | several tasks in one attempt |
| server state | `server.py` `get_state` | networks, ip, waiting start time | get_state with retries | guest tools |
| placement | `clients/server.py` `find_candidate_hosts`, `select_host_and_datastore` | none | choice of host and datastore | inventory cached for one attempt; other servers being placed |
| devices | `cloudify_vsphere/devices`, `clients/network.py` | `known_keys`, `busKey`, task id of the *server* instance | attach, detach | relationship operations sharing one instance |
| networks, IP pools | `vsphere_network_plugin`, `clients/network.py` | `network_status`, ids | create, delete | every host of a datacenter |
| inventory cache, custom fields | `clients/__init__.py` | cached lists | get, set | other workers |
| pools, hosts, clusters, folders | `cloudify_vsphere/*` | an id | create, delete | synchronous calls |
| content library, OVF, ISO | `cloudify_vsphere/contentlibrary`, `ovf`, `vsphere_storage_plugin/cidata.py` | ids of what was made | deploy, upload, delete | REST, HTTP upload with a timer thread |

### What can go wrong, and what makes each component correct

* **task wait**: a crash between starting a task and storing its id, or between
  removing the id and acting on the result; a time-out racing the end; a task
  that has dropped out of the list. Correct if no running task is forgotten, no
  two overlap, a failure is not reported as success, and a result reaches the
  property it was meant for.
* **server lifecycle**: a body that runs again half-way, lookups by name before
  an id is known, guards on `retry_number`, power states seen stale. Correct if
  success means what the operation's name says, no machine is left behind and
  none is taken that belongs to somebody else.
* **snapshots**: names checked before and used after, removal of children,
  `retry`. Correct if names stay unique and only the named snapshot goes.
* **storage**: two instances deriving one name from one reading of the devices,
  names reused, unit numbers at their limits. Correct if each storage has its
  own disk and delete leaves none.
* **networks**: port groups added host by host, a cached reading checked at the
  end, several instances of one name. Correct if success covers every host and
  nothing of others is taken over.
* **server update**: all flags popped before the first change, a configuration
  that update records with fewer keys than check_drift reads, several tasks in
  one attempt. Correct if no wish is forgotten for good and a success has made
  every change.
* **placement**: a rating that may be negative, one pass that remembers a single
  choice, an inventory that is read piece by piece and nothing reserved. Correct
  if the choice is the best of the list and fails only for what came in between.
* **devices**: `known_keys` and the task id of all cards of a server in one set
  of properties, without a lock; servers stopped and started around a
  reconfiguration. Correct if each device is the instance's own, success means
  attached once or not at all, and a server that ran runs again.
* **OVF import**: a timer thread keeps the lease the worker must complete or
  abort. Correct if no lease is held for ever.

## The modules

```
TaskWait                 _wait_for_task, and vSphere's tasks
  NodeOperation          the wrapper; Cloudify's retries and restarts
    AsyncOperation       bodies that start one task; implements SingleFlight
      TaskProofs         (with PassThrough)
    ServerLifecycle      nine operations of a server
      ServerLifecycleProofs
    Snapshots            three operations of a snapshot tree
      SnapshotsProofs
StorageDisks             several storages on one server
  StorageDisksProofs
ServerUpdate             drift and update of a server or a storage
  ServerUpdateProofs
Controllers              controllers and cards that share a server's properties
  ControllersProofs
PassThrough              serial ports, PCI and USB devices of a server
  TaskProofs             (with AsyncOperation)
Placement                host and datastore for a new server
  CreationProofs         (with OvfImport)
PortGroups               networks of one name, host by host
  PortGroupsProofs
OvfImport                a machine imported under a lease
  CreationProofs         (with Placement)
```
`TaskProofs` is about the two ways to deal with the tasks of earlier attempts,
`CreationProofs` about the two ways to make a machine. So that one module can
extend both components, `PassThrough` and `OvfImport` put their own name before
`Init`, `Next`, `Spec` and `TypeOK`.

(The modules that do not extend `TaskWait` have the wait cut down to what can
befall them: the task runs, a wait may time out, a saved task is waited for.)

### TaskWait

`props` holds `_task_id` (`task`), `_resource_id` (`key`) and the properties
that receive results (`ids`). `wait` is the worker inside `_wait_for_task`; each
place at which the code stores properties or reads the task is a step.
`Launch` is the call that starts a task, `SaveTask` stores the ids, `PollAgain`
and `PollTimeout` are the loop with its counter, `ForgetTask` removes the ids
*before* the outcome is acted on, `RecordResult` stores the result. Without a
task the ids are read back (`WaitForSaved`, `FindTask`), and a task that is no
longer listed counts as done (`MissTask`). A task's result is named by the task.

### NodeOperation

`op` says which operation runs, where, whether it is a retry, and how the last
one ended. `NoDeferredTask`, `DeferredTask` and `DeferredReturned` are
`run_deferred_task`; `TaskTimedOut` is `OperationRetry`; `Crash` keeps the retry
number, `ConnectionLost` raises it; `RetriesExhausted` lets Cloudify give up,
which leaves a saved task for the next operation; `CleanedProps` is the
clean-up after delete. The variables `orphans` and `dropped` are history: tasks
whose id, or whose outcome, a crash lost.

### AsyncOperation and SingleFlight

Bodies that start one task, in the two shapes the code has: *fresh* ones start
it in every attempt (`restore_server`, `remove_backup`, ...), *guarded* ones
only in the first and wait for the saved one later (`create_server`,
`backup_server`). `SingleFlight` is the promise: at most one task is in flight,
it is let go only after it has landed, and only before it is filed can it be
lost. The refinement maps the flight to the task in the worker's hands, or else
to the stored id.

### ServerLifecycle

An operation finds its server (`FindServer`: by id, else by name; external ones
by their configured name), then goes through *stages*: clone, reconf, upgrade,
nics, poweron, poweroff, suspend, reset, destroy. A stage that still has
something to do starts a task (`StartStage`, `CloneServer`), otherwise it is
skipped; a retried attempt begins again at the look-up. `life` restricts
workflows: start only after create, create again only if it failed or after a
delete that worked. All machines have the name that `get_vm_name` computes, so
a look-up by name may find any of them. `ReuseTasks` and `Reusable` are
book-keeping: ids of tasks nobody remembers stand for new tasks, which makes
long behaviours possible with three ids. At the start at most one machine has
the name (an external one): vSphere keeps names unique in a folder.

Left out: guest calls (`shut_down`, `reboot`), boot order, custom values, the
wait for a guest address, the repair of network cards of `clone_vm`, create's
early return on empty properties, create after a delete that failed.

### Snapshots

`snap` is the tree, `current` the snapshot the machine runs from. `Look` reads
the tree, `StartTask` acts on what was read, and in between the tree may change
(`Outsider`, tasks of crashed attempts). RemoveSnapshot takes the children:
`Subtree` is the least set that is closed under `Children`.

### StorageDisks

Several instances (`Storage`) work on one server at the same time, each with
its own worker (`work`) and properties (`vm_disk_name` = `pending`, the final
name = `file`). File *n* is `<base>_n.vmdk`; `NextUnit` computes the unit
number, in scale: the controller's own unit 7 is `Reserved`, the last unit 15
is `LastUnit`. The wait is cut down to: the task runs, a wait may time out at
any time, a saved task is waited for first. `excused` and `doubtful` are
history and name the behaviours the properties leave out; each of these is a
hazard of its own.

### PortGroups

`Net` instances want one port group on standard switches; `group` and
`switched` are the hosts that have it, and its switch. `Look` reads the networks
once for the attempt (`seen`: the client caches them); `Refused`, `Prepare`,
`NoSwitch` and `StartAdding` are the tests of create and `create_port_group`,
`AddGroup` and `NoteHost` its loop with the gap between adding and storing,
`Created` and `NotYetCreated` the check at the end, on the cached reading: the
attempt that adds the last port group always retries. delete reads each host
(`SeeGroup`, `SkipHost`) and then removes (`RemoveGroup`, `GroupMissing`). Since
nothing here depends on the retry number, `Interrupted` stands for an exception
and for a crash, at any place; an AddPortGroup that fails, or whose answer is
lost, is one before or after `AddGroup`. `gone` and `put` are history: what
others did to a host since the attempt that counts began. Left out: distributed
port groups, names that differ in case only, the ids, MTU and CIDR.

### Placement

`known` is what a server's attempt has read, piece by piece: `ReadStores`,
`ReadMachines` and `ReadHosts` are the getters in the order in which
`_make_cached_object` needs them, and `CacheTorn` is its OperationRetry when one
piece names a datastore that an earlier piece did not have. `Candidates` are
the filters of `find_candidate_hosts`, `RatedAtLeast` its sort by a product of
two ratios (a fraction, compared by cross multiplication), `Rooms` and
`Weighting` the choice of a datastore. `PassOver` and `Prefer` are one turn of
the loop in `select_host_and_datastore`, with `left` the hosts still to come and
`best` what the loop remembers; hosts of equal rating may come in any order. A
retried attempt never clones (`GiveUp`). `overtaken` is history: others changed
the inventory after the server had read its first piece. All sizes are in one
unit.

### ServerUpdate

Four kinds of changes, in the order of `update`: CPUs and memory (`spec`), `disk`,
`extra` (extra_config), `nets`. Each is one setting, but extra_config, which is a
setting for each of its keys (`Option`); `Empty` is an option that is not there, or
blank. `expected` is `expected_configuration`, `networks` the cards recorded by MAC,
`flags` what `check_drift` set. update pops the flags in memory (`due`), and the next
thing that is stored (`SaveTask`, `Record`, `Return`) stores them gone. `ConfigSpec` is
what a change asks vSphere to set: of extra_config every option that is wished, and
blank for those that were recorded, are on the machine and are wished no more
(`Blanked`). What it does not name, Reconfigure leaves as it is (`Reconfigured`).
`RecordedAfter` is what update records: after a change of networks a configuration
without disk size and extra_config, on which `check_drift` may break (`Stuck`,
`CheckBreaks`) or report drift for ever (`GeneralDrift`). A disk size that is unset
after it was flagged raises a TypeError (`ChangeBreaks`), on which Cloudify retries; the
retry finds no flags and ends well. A storage has one kind and no flags.

Three variables are history. `unrecorded` are the settings that a task has changed and
nobody has recorded since. `dropped` are the options that the record of a change of
networks leaves out: one that is wished no more (`LeftOver`) stays on the machine, update
does not blank it and check_drift does not miss it. `masked` are the settings whose
difference from the wish the record may hide. A setting is masked

* when it was changed by hand (`Meddle`), and `spec` when `resize_server` begins, which
  records nothing if it is cut short;
* when a task that a crash lost changes it (`LostTaskEnds`);
* when its wish is changed to what is recorded, while it is `unrecorded` or the running
  task may change it (`Pending`);
* when `poststart` records an option as wished that the machine has not so, or any
  setting that is `Pending`;

and no longer once update or resize_server has recorded it as it is on the machine. The
properties except masked settings and `LeftOver`, and nothing else. Left out: the older
`resize` operation, which changes CPUs and memory and records nothing, and options that
a template brings.

### Controllers

`attach_controller` and `detach_controller` for several cards (`Card`) of one
server, each with the worker of its own relationship operation. SCSI
controllers store in their own instance, network cards in that of the server
(`Home`): `known_keys` and the task id are then shared without a lock. Each
worker has the properties as it read them, and a store can be refused as
conflicting (`Writes`). `Looks`, `Read` and `Note` remember the keys that are
there, `Find` takes the new one for its own. vSphere may give a key again
(`Misleads`). `excused` is history: the instances that another one may have misled
(`Misleads`), whose noted keys (`Looks`, `Drop`) or stored task id (`Robs`) another one
took or overwrote, who raised for the failure of another's task (`DeferredFails`), or
who lost their place to a crash or to the last time-out; `blamed` those whose device
vSphere refused to add. Left out: the look-up of a card's address, the short cut by
`connected_networks`, CD-ROM and boot order.

### PassThrough

A serial port, PCI or USB device is attached or detached by one Reconfigure;
with `turn_off_vm` (`bracket`) between a stop and a start that each look at the
power state first, with the id of their task in the server's properties. No
operation waits for a task of an earlier attempt. `excused` is history: a device
added or removed by an attempt that did not get to note it, a server left off
by a task that failed or an operation given up.

### OvfImport

`lease` is the state of the HttpNfcLease, `timer` the thread of `OvfHandler`:
`Tell` is Progress, `Rearm` the look at the lease after it; any exception ends
it. `CallRaises` and `ConnectionFlips` are lost connections: Complete, Abort and
Progress can all fail. create never waits for a saved task and imports again
(`NameRefused`); the id of the machine is stored with the first task or at the
end of the attempt. delete knows its machine by the id only (`NotKnown`).
`stranded` is history: an Abort that failed while the timer went on, which keeps
a lease for ever.

## The runs

| run | shows | bounds |
|---|---|---|
| `async_operation` | type, tracking, single flight, honest success, kept results, the refinement, and that guarded operations end | 3 tasks, 1 poll, 2 faults |
| `server_lifecycle` | success means done, created servers are ready, no stray machine, external servers untouched | 3 tasks, 1 foreign machine, 1 fault, 3 kinds of node |
| `server_liveness` | operations that look before they act end | 2 tasks, no fault |
| `snapshots` | unique names, success means done, only the named snapshot goes | 3 tasks, 2 names, 1 foreign snapshot, 1 fault |
| `storage_disks` | own disk, no disk left | 2 storages, 3 files, units 0..3 (2 reserved), 1 crash |
| `port_groups` | success covers every host, for create and delete; nothing is taken over that the attempt saw when it looked | 2 networks of one name, 2 hosts, any switches, no other bound |
| `placement` | the best choice, overcommitment last, no refused clone unless raced | 2 servers, 3 hosts, 2 datastores, 96 inventories, 1 change by an administrator |
| `server_update` | no wish forgotten; success applies every change; each with the exceptions that `masked` and `dropped` name | 2 options, 2 values per setting, 2 changes, 1 crash |
| `controllers` | own device, success means done, failures have reasons | 2 cards of one server, 1 crash |
| `pass_through` | success means done, power restored | 2 devices of any class, 2 tasks in the queue |
| `ovf_import` | every lease ends | 2 disks, no other bound |
| `storage_clash` | **violated**: two storages own one disk | no crash |

Why the bounds are enough: an instance has at most one task of its own at a
time, plus one for each crash that lost one, so three ids cover two crashes, and
reused ids cover long behaviours. `MaxPolls` only separates the first poll from
the last; where waits of different length play no part it is 0, so that every
wait may time out at once. One fault can fall on every step; two are used in
the core, where the space allows it. Two storages suffice for a clash, since
only pairs of disks conflict, and three files let both use a second name after
an earlier disk was left behind; four units, one of them reserved, put the gap
and the last unit within their reach. `PortGroups` needs no bound but its two
sets: a host is done or not, and another instance interferes or does not (the
proofs hold for any number). The inventories of `placement` are chosen so that
ratings are positive, negative and equal, and datastores too small, sufficient
for the machine as cloned, and for its largest size (the proofs hold for any).
In `server_update` a setting is compared and set, never computed with, so that two
values tell apart the wished one and another, or an option that is there and one that
is not; two options let one come while the other goes (no option depends on a third).
The machine starts with any options. Two changes are what it takes to need `dropped`: the
networks change, and so does the wish of an option that is installed (the proofs hold for
any number of each). `controllers` and `pass_through` have pairs of devices, since the
properties are about one device and whatever interferes. `Task` (and names, storages, options) are
symmetric where no liveness is checked. Deadlock is not checked where the task
ids or file numbers run out (`async_operation`, `snapshots`, storage): there the
bound stops the system, not the code; in `placement` because placed servers stop, and in
`server_update` and `controllers` because the bounds on changes and keys do.

## Fairness

The worker goes on (`WF` of the wrapper and of the body): a process that does
not is a crash. vSphere ends every task it has accepted (`WF` of `TaskEnds`).
`server_liveness` assumes besides that a task that is asked for again and again
succeeds at last (`SF` of `TaskEndsWell`), since an operation whose task fails
every time fails or tries again for ever, and not for a reason of the code.
Nothing is assumed of faults, of the ageing of tasks or of Cloudify's giving up:
a property must hold without them. (`SF` of `ReuseTasks` belongs to the
book-keeping of ids.) `ovf_import` assumes that the worker goes on as long as its
process lives (an upload ends, one way or another), that an armed timer fires,
and that vSphere ends a lease nobody tells about: `WF` each, and nothing of the
network.

## What is proved

`TaskProofs` proves of `AsyncOperation`, for every set of tasks, operations and
properties, every number of polls and of faults (from the named assumptions of
`TaskWait`, `NodeOperation` and `AsyncOperation`, which only say that the
markers are not elements and the sets fit):

* `TypeCorrect`, `RunningTasksAreTracked`, `AtMostOneInFlight`,
  `SuccessIsHonest`: four invariants of the run `async_operation`;
* `ResultIsKept`, the fifth: a guarded operation that reports success has stored the
  result of a task of its own, unless each of its tasks was lost or too old;
* `Refinement`: every behaviour is one of `SingleFlight`.

The argument is one inductive invariant, `IInv` (`Invariance`). Of themselves
the properties are not inductive: that no two tasks overlap needs that a body
runs only while no id is stored, which needs that the wrapper went through the
saved one first (`op.at` and `wait.at` fit together); that success is honest
needs that each task the operation has started has ended well by the time the
body returns, or is known to have been missed, lost or dropped. `IInv`
conjoins these. Its preservation has a step for every action of `Next`; the
refinement has another such proof on top of it. So has `ResultIsKept`, by a second
invariant (`Kept`): wherever a task of a guarded operation is in its wait, the name of
the property that is to receive its result is there with it (`KeyHeld`), and what is
saved is a task of this operation, unless it has started none (`OwnTask`: an earlier
operation may have left one, whose result is then the one that is kept).

`ServerLifecycleProofs` proves all five properties of the run `server_lifecycle`,
for any tasks, nodes, polls and faults: `TypeCorrect`, `SuccessIsDone`,
`CreatedServersAreReady`, `NothingStrays`, `ExternalIsSafe`. It assumes the named
assumptions of `TaskWait`, `NodeOperation` and `ServerLifecycle`. The invariant
has three parts. *Protocol* is the wait. *Machines* compares what vSphere has, or
has still to do, with the stored id: names are unique (`Serial`), one task of a
machine is at work (`OneUnblocked`), the clone the worker knows of is under way
only while no other machine has its id stored and none is on its way out
(`Fresh`), and a machine on its way out is one that delete finds (`Doomed`).
*Worker* says where an operation can be (`Workflow`, `Route`), what it waits for
(`InHand`, `Keys`) and what holds once a stage is passed (`Results`, `Upgraded`,
`Cleared`, `Made`, `Gone`). `NoStrayMachine` shows why so much is needed: delete finds the machine to destroy only if none hides
behind another's id (`Known`); a finished clone keeps to that because no other id
was stored when it began (`Fresh`); and a stored id hides nothing because, until
delete begins, its machine is there and names are unique (`Alive`, `Serial`).

`SnapshotsProofs` proves all four properties of the run `snapshots`, for any
number of tasks, names and snapshots of others: `TypeCorrect`, `NamesAreUnique`,
`SuccessIsDone`, `OthersStay`. It adds to the protocol of the wait: that the tree is
a forest without cycles (`Forest`; so the target is in its own subtree and a
removal leaves no child without a parent); that a task that is not blocked is
alone (`OneUnblocked`: vSphere works on one task of a machine at a time); that
names are apart and the name of a snapshot to come is free or doomed (`Apart`,
`Coming`); and what the worker's reading of the tree is still worth (`Sight`,
`Aimed`, `Effect`: what was seen is there unless somebody else took it away, and a
task that has ended well has had its effect). `TaskWaitAssumption` says that the
tasks' results are not objects of others; nothing else is assumed.

`StorageDisksProofs` proves all three invariants of the run `storage_disks`, for any
storages, numbers of files, units and crashes (from `StorageDisksAssumption`):
`TypeCorrect`, `DisksAreOwn`, `NoDiskIsLeft`; and `UnitsAreDistinct`, which no run
states: no two disks of the controller have one unit, and none has the controller's
own. The last is what bounds the number of disks (`DevicesBounded`), and that the unit
the code computes is one vSphere has (`Units`). `Stage` ties together the worker's
place, the two stored names and the task. `Owned` says that a stored name means a disk
of the instance, one its task is about to make, or one it has removed; `Tracked` the
converse, that an instance has the name of every disk it made, in its properties or
in its worker's hands: delete looks only there. A task that lost its worker goes on
(`lost`), so both parts also speak of what it may still do.

`ControllersProofs` proves all four invariants of the run `controllers`, for any cards,
controllers, classes, keys, tasks and crashes (from `ControllersAssumption`):
`TypeCorrect`, `DetachesItsOwn`, `AttachedOnce`, `FoundUnlessDisturbed`. `Shape` and
`Results` hold of every instance (a copy of properties that is fresh agrees with what is
stored, a stored id is that of a task). `Life` holds of the instances that are not
excused and is about one of them and its one device: its running task is the one it
waits for or has stored (`Watched`), a stored id of its own is waited for (`Filed`),
from known_keys on the only unknown device of its class is its own (`Noticed`), and
where that is on its way to `busKey` and out again (`Placed`). The preservation is in
three parts: the instance's own steps (`OwnLife`), those of the others, which take
nothing from it (`Leaves`) or excuse it, and the ends of tasks. The first attempt at
this proof failed, and rightly: with three cards, one that overwrites the stored task
id of a second, or drops the keys that it noted, could rob that one while only the
third was excused, which the run with two cards cannot show. The history was corrected
(`Robs`, `Drop`, `DeferredFails`); the reachable states of the run are as many as
before.

`ServerUpdateProofs` proves all three properties of the run `server_update`, for any
options, any values of the settings and any number of changes and crashes (from
`ServerUpdateAssumption`): `TypeCorrect`, `NoWishIsForgotten`, and the action property
`SuccessIsWhole`. `check_drift` compares wishes with the record, not with the machine,
so what must hold is that the record never runs ahead. `Tracked` says that the machine
is as recorded, but for what is `unrecorded` and for options that were dropped;
`Honest`, that where a wish agrees with the record the machine agrees with both, or
has more options (`LeftOver`), and will when the task that runs has ended. The second
does not follow from the first while something is unrecorded, nor the other way round;
a wish that is changed to what is recorded needs the first to give the second. A record
is written at the end of a change, so that `Sound` follows the change from its call to
its record. The case in it that one would not think of is extra_config, of which a task
names only a part: what it leaves alone must be as wished already, which is true because
such an option is wished blank, and either the machine has it not, or it is not
recorded, so that `Honest` speaks of it. `Resizing` is about the difference that
`resize_server` makes, and `Done` carries what a first attempt was asked for to its end;
a later one has lost its flags, which is why `SuccessIsWhole` speaks of the first.

`PortGroupsProofs` proves, for any instances and hosts, the type, that create
and delete cover every host when they report success (`CreateIsComplete`,
`DeleteIsComplete`), and `NothingIsTakenOver`. A report is true because of what
the status says as long as the instance is installed (`Complete`); that is true
because the cached reading was true when the attempt began, up to what others
removed since (`Seen`); and for delete because every host that has the port
group is still to be visited or was given it by others (`Cleared`). `Placed`
ties a worker's place to its operation and status. All four are needed at once.

`CreationProofs` proves of `Placement`, for any inventories, requests and numbers of
servers, hosts and datastores (from `PlacementAssumption`, which types them: hosts have
threads and memory, machines ask for CPUs), all four invariants of the run:
`TypeCorrect`, `ChoiceIsBest`, `OvercommitIsLast`, `RoomOrRace`. The first three rest
on the loop invariant `Pass`: the hosts seen are rated at least as high as those
to come; nothing is chosen only if none seen has room; what is chosen is the best
of those seen; and if it cannot house the machine's largest size, none seen can.
The last clause is not part of the promise, but without it a later host might
replace the choice although an earlier one would do. Only reflexivity of the
rating is needed, not that it is a linear order. `OvercommitIsLast` adds the
signs of the fractions; `RoomOrRace` rests on `Fresh`: what a server that nobody
overtook has read is the inventory as it is.

`TaskProofs` proves of `PassThrough`, for any number of devices of any class and a
queue of any length (from `PassThroughAssumption`: the server is no device), the
three invariants of its run: `PassTypeCorrect`, `AttachedAsAsked`
(`SuccessMeansDone`) and `PowerComesBack` (`PowerRestored`). No operation waits for
a task of an earlier attempt, so that several tasks of one device may be queued;
the invariant `PassInv` (`PassInvariance`) says what they can still do:

* `Watched`: a task somebody waits for is the one its worker is at, and the only one
  that worker waits for; `Unwatched`: one nobody waits for can add or remove only an
  excused device;
* `Ways`, `AllHeld`: at each place of its worker the server has of a device what the
  flag says or what was asked for, the change being at the end of the Reconfigure
  (`Held`). An attempt that found nothing to do is then right to have ended;
* `Powered`: while all tasks succeed (else the server is excused), there is at most
  one power task, one that has something to change, and if the server is off and
  none is to start it, a worker that has still to look and will start it
  (`Tended`). This is not inductive: two operations may both see a server that
  runs and both stop it. But then the second stop finds it stopped and fails;
  `Doomed` says that such a task is in the queue, and that it stays doomed
  (`DoomedStep`) until it fails and excuses the server.

A repeated attempt matters to `Powered`, too: it must not find nothing to do after its
earlier one has stopped the server, which `Ways` shows for attach, and `Removable`
(what is to be removed is still there) for detach.

Of `OvfImport`, `CreationProofs` proves `OvfTypeCorrect`, and the part of `LeaseEnds`
that takes no fairness, `NobodyElseKeepsALease`: a lease that the timer keeps is one
whose worker still uploads, and so completes or aborts it, unless the Abort itself
was lost. It is inductive with the fact that no timer runs while a lease is
initializing (`LeaseKept`, `OvfInvariance`).

## What is only model-checked

The liveness, which is out of the prover's reach: `GuardedEnds`, `OperationsEnd` of
`ServerLifecycle`, and `LeaseEnds`. The run `storage_clash` shows a violation, and
has nothing to prove.

## What the models show of the code

`storage_clash` is a finding with a run of its own. Other behaviours the models
have, which a reader of the code may not expect, are left out of the properties by
a history variable or an exception in the property's text, and are listed as
hazards in `PROJECT.json`:

* create and start clone, and snapshot_create takes its snapshot, in the first
  attempt only: an attempt that ended before the call is never made good, and a
  retried snapshot_create reports success without a snapshot
  (`ServerLifecycle!CreateNothing`, `AsyncOperation!SkipTask`).
* The file of a disk is stored at the end of create: a create given up while its
  task runs leaves a disk that delete takes for never created
  (`StorageDisks!SkipDelete`).
* An external server is noted as external after the look-up: an attempt cut short
  before leaves an instance whose delete destroys it (`ServerLifecycle!FindServer`);
  `ExternalUntouched` speaks of the time after. That a node of its own finds a machine
  of its name that somebody else made is not modelled (names are unique in a folder).
* create of a network goes on when only some hosts have the switch
  (`PortGroups!SwitchKnown`).
* After a change of networks check_drift breaks on a node with a disk size
  (`ServerUpdate!Stuck`).
* The record of such a change has no extra_config. When the wish is then changed from
  one option to another, a first attempt of update succeeds with both on the machine;
  when it is removed, check_drift compares nothing with nothing and finds no drift
  (`ServerUpdate!LeftOver`).
* An update that is given up between the end of its task and the record has changed the
  machine unrecorded; a wish that is then taken back agrees with the record, and no
  drift is found (`ServerUpdate!WantChanges`).
* poststart records the wished extra_config whatever the machine has: an option wished
  since install and never applied is so taken for applied (`ServerUpdate!Poststart`).
* An update flagged for a disk size that is unset meanwhile fails on it, and its retry
  reports success without any of the changes (`ServerUpdate!ChangeBreaks`).
* remove_backup takes with its snapshot whatever was taken below it after the check
  (`Snapshots!StartTask`; `OnlyTheNamedGoes` excepts it).
* Network cards of one server mislead each other by their shared `known_keys`, rob each
  other of the stored task id, or fail for each other's task; and a server that had no
  controller of a class reads anew on a retry, and does not recognise its own
  (`Controllers!Looks`). `excused`, and the reasons in `NotFoundHasReason`, name these.
* `NoTakeover` is about what an attempt saw. Two networks of one name that look at the
  same time share their port groups, and delete after a create that was refused removes
  the port group that it was refused for (`PortGroups!StartRemoving`).
* USB devices stay marked as attached when they are detached, so that they are
  never attached again (`PassThrough!Flag`).
* A delete of an imported machine that outlasts its attempt never succeeds
  (`OvfImport!NotKnown`), and a failed Abort leaves a timer without end (`stranded`).

## Not modelled

* `get_state` and the waits for guest addresses: they change nothing in vSphere, and
  every retry reads anew; guest calls (`shut_down`, `reboot`) have no task to wait for.
* Distributed port groups, resource pools, hosts, clusters, datastores, folders,
  IP pools, custom values, the content library: one synchronous call or one task
  each. The protocol of the tasks is that of `AsyncOperation`; the gaps between a
  call and the stored id are listed as hazards, and no code deals with them.
* Specifications of machines (customization, disks of the template, device
  layouts, boot order, CD-ROM), the repair of the network cards of `clone_vm`, and
  what an OVF import reconfigures: data without control.
* ISO images, configuration files, logging, the plugin definitions: I/O and text.
