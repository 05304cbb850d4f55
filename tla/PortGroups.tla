------------------------------ MODULE PortGroups ------------------------------
(***************************************************************************)
(* cloudify.nodes.vsphere.Network instances on standard switches: create   *)
(* adds a port group on every host, one host after the other, delete takes *)
(* it away again.  The instances of the model want the same port group, as *)
(* two deployments of a blueprint do; an administrator may add it to a     *)
(* host or remove it too.                                                  *)
(*                                                                         *)
(* An attempt reads the networks once, at its start: the client caches     *)
(* them, and the check at the end of create reads the cache.  What an      *)
(* instance has done so far is in its runtime properties: its status and   *)
(* the hosts already dealt with (created_on).                              *)
(***************************************************************************)
EXTENDS FiniteSets

CONSTANTS
    Net,        \* the instances
    Host,       \* the hosts of the datacenter
    NoHost      \* no host

ASSUME PortGroupsAssumption == NoHost \notin Host /\ Host # {}

VARIABLES
    group,      \* the hosts that have the port group
    switched,   \* the hosts that have the vSwitch the instances name
    external,   \* the instances with use_external_resource
    props,      \* stored properties: status, created_on
    work,       \* what each worker does
    gone,       \* history: hosts that lost the group behind an instance's back
    put         \* history: hosts given the group behind an instance's back

vars == <<group, switched, external, props, work, gone, put>>

Status == {"none", "preparing", "creating", "created"}
NoProps == [status |-> "none", on |-> {}]

\* "prepare", "switch": create_port_group before its loop.  "adding": between
\* two hosts.  "note": added on a host, not stored.  "finish": the last look.
\* "remove": between two hosts.  "removing": the group was seen on a host.
Place == {"idle", "look", "prepare", "switch", "adding", "note", "finish",
          "remove", "removing"}

\* A worker: operation, place, cached networks, hosts to do, host in hand.
Work == [op : {"none", "create", "delete"}, at : Place, seen : SUBSET Host,
         todo : SUBSET Host, host : Host \union {NoHost}, outcome : {"none", "ok", "failed"}]

Init ==
    /\ switched \in SUBSET Host
    /\ group \in SUBSET switched
    /\ external \in SUBSET Net
    /\ props = [n \in Net |-> NoProps]
    /\ work = [n \in Net |-> [op |-> "none", at |-> "idle", seen |-> {}, todo |-> {},
                              host |-> NoHost, outcome |-> "none"]]
    /\ gone = [n \in Net |-> {}]
    /\ put = [n \in Net |-> {}]

-----------------------------------------------------------------------------
(* vSphere, and the histories of what others did *)

GroupAdded(h, others) ==
    /\ group' = group \union {h}
    /\ put' = [n \in Net |-> IF n \in others THEN put[n] \union {h} ELSE put[n]]
    /\ UNCHANGED gone

GroupRemoved(h, others) ==
    /\ group' = group \ {h}
    /\ gone' = [n \in Net |-> IF n \in others THEN gone[n] \union {h} ELSE gone[n]]
    /\ UNCHANGED put

SameGroups == UNCHANGED <<group, gone, put>>

\* An administrator adds the port group to a host, or removes it.
Outsider ==
    /\ \E h \in switched : GroupAdded(h, Net) \/ GroupRemoved(h, Net)
    /\ UNCHANGED <<switched, external, props, work>>

-----------------------------------------------------------------------------
(* Attempts *)

Goes(n, place) == work' = [work EXCEPT ![n].at = place]

Ends(n, outcome) ==
    work' = [work EXCEPT ![n] = [@ EXCEPT !.at = "idle", !.outcome = outcome, !.seen = {},
                                          !.todo = {}, !.host = NoHost]]

Inputs == <<switched, external>>

\* Install creates, once, and again after a delete that worked; uninstall
\* deletes whatever became of the create.
MayBegin(n, name) ==
    LET w == work[n] IN
    /\ w.at = "idle"
    /\ IF name = "create" THEN w.op = "none" \/ (w.op = "delete" /\ w.outcome = "ok")
                          ELSE w.op = "create" \/ (w.op = "delete" /\ w.outcome = "failed")

Begin(n, name) ==
    /\ MayBegin(n, name)
    /\ work' = [work EXCEPT ![n] = [@ EXCEPT !.op = name, !.at = "look", !.outcome = "none"]]
    /\ UNCHANGED <<props, Inputs>>
    /\ SameGroups

\* An exception that is no NonRecoverableError, or the end of the worker: the
\* operation runs again from the beginning.  Nothing in it asks which.
TryAgain(n) ==
    work' = [work EXCEPT ![n] = [@ EXCEPT !.at = "look", !.seen = {}, !.todo = {},
                                          !.host = NoHost]]

Interrupted(n) ==
    /\ work[n].at \notin {"idle", "look"}
    /\ TryAgain(n)
    /\ UNCHANGED <<props, Inputs>>
    /\ SameGroups

\* Cloudify runs out of retries.
GivesUp(n) ==
    /\ work[n].at = "look"
    /\ Ends(n, "failed")
    /\ UNCHANGED <<props, Inputs>>
    /\ SameGroups

-----------------------------------------------------------------------------
(* create *)

At(n, name, place) == work[n].op = name /\ work[n].at = place

\* The histories start anew with an attempt, unless an earlier one has seen
\* the port group on every host: then it has to be there from that time on.
Watches(n) ==
    /\ gone' = IF props[n].status = "created" THEN gone ELSE [gone EXCEPT ![n] = {}]
    /\ put' = [put EXCEPT ![n] = {}]
    /\ UNCHANGED group

RefusedUnprepared(n) == group # {} /\ props[n].status = "none"

\* "Could not create new network ... as a network by that name already exists".
Refused(n) == group # {} /\ props[n].status \notin {"creating", "created"}

LookFails(n) ==
    /\ At(n, "create", "look")
    /\ IF n \in external THEN group = {} ELSE Refused(n)
    /\ Ends(n, "failed")
    /\ Watches(n)
    /\ UNCHANGED <<props, Inputs>>

Look(n) ==
    /\ At(n, "create", "look")
    /\ IF n \in external THEN group # {} ELSE ~Refused(n)
    /\ LET known == n \in external \/ (group # {} /\ props[n].status = "created")
       IN  work' = [work EXCEPT ![n] = [@ EXCEPT !.at = IF known THEN "finish" ELSE "prepare",
                                                 !.seen = group]]
    /\ Watches(n)
    /\ UNCHANGED <<props, Inputs>>

\* create_port_group: the status is "preparing" the first time.
Prepare(n) ==
    /\ work[n].at = "prepare"
    /\ Goes(n, "switch")
    /\ props' = IF props[n].status = "none" THEN [props EXCEPT ![n].status = "preparing"]
                                            ELSE props
    /\ UNCHANGED Inputs
    /\ SameGroups

\* get_vswitches: the switches of all hosts together.
SwitchKnown == switched # {}

NoSwitch(n) ==
    /\ work[n].at = "switch"
    /\ props[n].status = "preparing"
    /\ ~SwitchKnown
    /\ Ends(n, "failed")
    /\ UNCHANGED <<props, Inputs>>
    /\ SameGroups

StartAdding(n) ==
    /\ work[n].at = "switch"
    /\ props[n].status = "creating" \/ (props[n].status = "preparing" /\ SwitchKnown)
    /\ props' = [props EXCEPT ![n].status = "creating"]
    /\ work' = [work EXCEPT ![n] = [@ EXCEPT !.at = "adding", !.todo = Host \ props[n].on]]
    /\ UNCHANGED Inputs
    /\ SameGroups

\* A create that is tried again after the status became "created".
NothingToAdd(n) ==
    /\ work[n].at = "switch"
    /\ props[n].status = "created"
    /\ Goes(n, "finish")
    /\ UNCHANGED <<props, Inputs>>
    /\ SameGroups

\* AddPortGroup on one host; that it is there already is passed over.  Where it
\* fails, or its answer is lost, the attempt is Interrupted before or after it.
AddGroup(n, h) ==
    /\ work[n].at = "adding"
    /\ h \in work[n].todo \intersect switched
    /\ GroupAdded(h, Net \ {n})
    /\ work' = [work EXCEPT ![n] = [@ EXCEPT !.at = "note", !.host = h]]
    /\ UNCHANGED <<props, Inputs>>

NoteHostNot(n) ==
    /\ work[n].at = "note"
    /\ work' = [work EXCEPT ![n] = [@ EXCEPT !.at = "adding", !.todo = work[n].todo \ {work[n].host},
                                             !.host = NoHost]]
    /\ UNCHANGED <<props, Inputs>>
    /\ SameGroups

NoteHost(n) ==
    /\ work[n].at = "note"
    /\ props' = [props EXCEPT ![n].on = @ \union {work[n].host}]
    /\ work' = [work EXCEPT ![n] = [@ EXCEPT !.at = "adding", !.todo = work[n].todo \ {work[n].host},
                                             !.host = NoHost]]
    /\ UNCHANGED Inputs
    /\ SameGroups

\* port_group_is_on_all_hosts counts the hosts of the cached networks: the
\* attempt that adds the last port group does not see it, and retries.
OnSomeHost(n) == work[n].seen # {}

OnAllHosts(n) == work[n].seen = Host

Created(n) ==
    /\ work[n].at = "adding"
    /\ work[n].todo = {}
    /\ OnAllHosts(n)
    /\ props' = [props EXCEPT ![n].status = "created"]
    /\ Goes(n, "finish")
    /\ UNCHANGED Inputs
    /\ SameGroups

NotYetCreated(n) ==
    /\ work[n].at = "adding"
    /\ work[n].todo = {}
    /\ ~OnAllHosts(n)
    /\ TryAgain(n)
    /\ UNCHANGED <<props, Inputs>>
    /\ SameGroups

CreateReturns(n) ==
    /\ work[n].at = "finish"
    /\ Ends(n, "ok")
    /\ UNCHANGED <<props, Inputs>>
    /\ SameGroups

-----------------------------------------------------------------------------
(* delete *)

\* delete_port_group goes through all hosts, not those stored by create.
HostsToClearNoted(n) == props[n].on

HostsToClear(n) == Host

StartRemoving(n) ==
    /\ At(n, "delete", "look")
    /\ n \notin external
    /\ work' = [work EXCEPT ![n] = [@ EXCEPT !.at = "remove", !.todo = HostsToClear(n)]]
    /\ gone' = [gone EXCEPT ![n] = {}]
    /\ put' = [put EXCEPT ![n] = {}]
    /\ UNCHANGED <<group, props, Inputs>>

SkipHost(n, h) ==
    /\ work[n].at = "remove"
    /\ h \in work[n].todo \ group
    /\ work' = [work EXCEPT ![n].todo = @ \ {h}]
    /\ UNCHANGED <<props, Inputs>>
    /\ SameGroups

SeeGroup(n, h) ==
    /\ work[n].at = "remove"
    /\ h \in work[n].todo \intersect group
    /\ work' = [work EXCEPT ![n] = [@ EXCEPT !.at = "removing", !.host = h]]
    /\ UNCHANGED <<props, Inputs>>
    /\ SameGroups

RemoveGroup(n) ==
    /\ work[n].at = "removing"
    /\ work[n].host \in group
    /\ GroupRemoved(work[n].host, Net \ {n})
    /\ work' = [work EXCEPT ![n] = [@ EXCEPT !.at = "remove", !.todo = work[n].todo \ {work[n].host},
                                             !.host = NoHost]]
    /\ UNCHANGED <<props, Inputs>>

\* Somebody else was faster: RemovePortGroup raises.
GroupMissing(n) ==
    /\ work[n].at = "removing"
    /\ work[n].host \notin group
    /\ TryAgain(n)
    /\ UNCHANGED <<props, Inputs>>
    /\ SameGroups

\* The wrapper removes the runtime properties; an external network stays.
DeleteReturns(n) ==
    /\ \/ work[n].at = "remove" /\ work[n].todo = {}
       \/ At(n, "delete", "look") /\ n \in external
    /\ Ends(n, "ok")
    /\ props' = [props EXCEPT ![n] = NoProps]
    /\ UNCHANGED Inputs
    /\ SameGroups

-----------------------------------------------------------------------------
Create(n) ==
    \/ LookFails(n)
    \/ Look(n)
    \/ Prepare(n)
    \/ NoSwitch(n)
    \/ StartAdding(n)
    \/ NothingToAdd(n)
    \/ \E h \in Host : AddGroup(n, h)
    \/ NoteHost(n)
    \/ Created(n)
    \/ NotYetCreated(n)
    \/ CreateReturns(n)

Delete(n) ==
    \/ StartRemoving(n)
    \/ \E h \in Host : SkipHost(n, h) \/ SeeGroup(n, h)
    \/ RemoveGroup(n)
    \/ GroupMissing(n)
    \/ DeleteReturns(n)

Next ==
    \/ Outsider
    \/ \E n \in Net :
          \/ Begin(n, "create") \/ Begin(n, "delete")
          \/ Interrupted(n)
          \/ GivesUp(n)
          \/ Create(n)
          \/ Delete(n)

Spec == Init /\ [][Next]_vars

-----------------------------------------------------------------------------
(* Properties *)

\* Every variable has its type; and a worker still has to add the port group
\* on exactly the hosts that are not stored, in whatever attempt it is.
TypeOK ==
    /\ group \subseteq switched
    /\ switched \subseteq Host
    /\ external \subseteq Net
    /\ props \in [Net -> [status : Status, on : SUBSET Host]]
    /\ work \in [Net -> Work]
    /\ gone \in [Net -> SUBSET Host]
    /\ put \in [Net -> SUBSET Host]
    /\ \A n \in Net : work[n].at \in {"adding", "note"} => work[n].todo = Host \ props[n].on

Reported(n, name) == At(n, name, "idle") /\ work[n].outcome = "ok" /\ n \notin external

\* A create that reports success has its port group on every host, except
\* where others removed it since the attempt began that found it complete; and
\* it takes all hosts, whatever attempts were cut short on the way.
CreatedEverywhere ==
    \A n \in Net : Reported(n, "create") => Host \subseteq group \union gone[n]

\* A delete that reports success leaves the port group on no host, though its
\* create broke off between adding and storing it, except where others added
\* it since the attempt began.
DeletedEverywhere ==
    \A n \in Net : Reported(n, "delete") => group \subseteq put[n]

\* A create goes on from "creating" only if no port group of the name was there
\* when it began, although attempts were cut short before that: a network that
\* somebody else made before is not taken over.
NoTakeover ==
    [][\A n \in Net :
          props[n].status # "creating" /\ props'[n].status = "creating" => work[n].seen = {}]_vars

=============================================================================
