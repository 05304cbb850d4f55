------------------------------- MODULE Placement -------------------------------
(***************************************************************************)
(* Where a new server goes: create_server reads the inventory, validates   *)
(* its inputs, filters and rates the hosts (find_candidate_hosts), goes    *)
(* through them for a datastore (select_host_and_datastore), and clones    *)
(* the template there.  Several servers are placed at the same time, each  *)
(* by what it has read: nothing is reserved.                               *)
(*                                                                         *)
(* The inventory is read piece by piece (datastores, machines, hosts), and *)
(* kept for the whole attempt.  All sizes are in one unit.                 *)
(***************************************************************************)
EXTENDS Integers, FiniteSets, FiniteSetsExt

CONSTANTS
    Server,     \* servers to be created
    Host,       \* hosts of the datacenter
    Datastore,
    Cluster, Pool, Net,
    NoCluster,  \* cluster of a host that is in none
    None,       \* nothing chosen yet
    Request,    \* what each server asks for
    Worlds,     \* inventories to begin with
    MaxFaults   \* bound on changes that administrators make

\* What a server asks for.  An empty set of allowed things allows any.
\* committed, uncommitted: storage summary of the template.
Requests ==
    [hosts : SUBSET Host, clusters : SUBSET Cluster, stores : SUBSET Datastore,
     pool : Pool, nets : SUBSET Net, cpus : Nat \ {0}, memory : Nat,
     committed : Nat, uncommitted : Nat]

HostRecord ==
    [usable : BOOLEAN, cluster : Cluster \union {NoCluster}, pools : SUBSET Pool,
     nets : SUBSET Net, threads : Nat \ {0}, memory : Nat \ {0},
     stores : SUBSET Datastore]

LoadRecord == [cpus : Nat, memory : Nat]

StoreRecord == [exists : BOOLEAN, healthy : BOOLEAN, free : Nat]

ASSUME PlacementAssumption ==
    /\ None \notin Host \union Datastore
    /\ NoCluster \notin Cluster
    /\ MaxFaults \in Nat
    /\ Request \in [Server -> Requests]
    /\ \A w \in Worlds :
          /\ w.host \in [Host -> HostRecord]
          /\ w.load \in [Host -> LoadRecord]
          /\ w.store \in [Datastore -> StoreRecord]

VARIABLES
    host,       \* the hosts, without their machines
    load,       \* CPUs and memory of the machines on each host
    store,      \* which datastores there are, whether healthy, their free space
    work,       \* what each worker does
    known,      \* the inventory as each worker has read it
    overtaken,  \* history: somebody else's machine, or a change, came after it
    faults      \* number of changes so far

vars == <<host, load, store, work, known, overtaken, faults>>

\* The order of an attempt; "placed" and "failed" are the ends of the operation.
Place == {"start", "machines", "hosts", "validate", "scan", "clone", "placed",
          "failed"}

NoChoice == [host |-> None, store |-> None, weight |-> 0]

Init ==
    /\ \E w \in Worlds : host = w.host /\ load = w.load /\ store = w.store
    /\ work = [s \in Server |->
          [at |-> "start", retry |-> FALSE, left |-> {}, best |-> NoChoice]]
    /\ known = [s \in Server |-> [load |-> load, store |-> store, host |-> host]]
    /\ overtaken = {}
    /\ faults = 0

-----------------------------------------------------------------------------
(* Reading the inventory *)

Goes(s, place) == work' = [work EXCEPT ![s].at = place]

\* _get_vms first reads what its objects refer to, the datastores;
ReadStores(s) ==
    /\ work[s].at = "start"
    /\ known' = [known EXCEPT ![s].store = store]
    /\ overtaken' = overtaken \ {s}
    /\ Goes(s, "machines")
    /\ UNCHANGED <<host, load, store, faults>>

\* then come the machines,
ReadMachines(s) ==
    /\ work[s].at = "machines"
    /\ known' = [known EXCEPT ![s].load = load]
    /\ Goes(s, "hosts")
    /\ UNCHANGED <<host, load, store, overtaken, faults>>

Mounted(h) == {d \in host[h].stores : store[d].exists}

Unread(s, d) == store[d].exists /\ ~known[s].store[d].exists

\* and the hosts.  A machine that was not read is left out of its host.
ReadHosts(s) ==
    /\ work[s].at = "hosts"
    /\ ~\E h \in Host : \E d \in Mounted(h) : Unread(s, d)
    /\ known' = [known EXCEPT ![s].host = [h \in Host |->
                    [host[h] EXCEPT !.stores = Mounted(h)]]]
    /\ Goes(s, "validate")
    /\ UNCHANGED <<host, load, store, overtaken, faults>>

\* A machine or a host refers to a datastore that was not read: "configuration
\* changed while building cache", an OperationRetry.  From now on
\* ctx.operation.retry_number is positive.
CacheTorn(s) ==
    /\ work[s].at \in {"machines", "hosts"}
    /\ \E h \in Host : \E d \in Mounted(h) : Unread(s, d)
    /\ work' = [work EXCEPT ![s].at = "start", ![s].retry = TRUE]
    /\ UNCHANGED <<host, load, store, known, overtaken, faults>>

-----------------------------------------------------------------------------
(* Filters and ratings, over what server s has read *)

Allows(allowed, x) == allowed = {} \/ x \in allowed

\* _validate_allowed: at least one of the allowed things exists.
SomeExist(allowed, existing) == allowed = {} \/ allowed \cap existing # {}

HasPool(s, h) == Request[s].pool \in known[s].host[h].pools

HasNets(s, h) == Request[s].nets \subseteq known[s].host[h].nets

InAllowedCluster(s, h) == Allows(Request[s].clusters, known[s].host[h].cluster)

\* _validate_inputs: what is named exists somewhere.  (A host or cluster that does
\* not exist leaves no candidate, with the same end.)
InputsValid(s) ==
    /\ SomeExist(Request[s].stores, {d \in Datastore : known[s].store[d].exists})
    /\ \E h \in Host : HasPool(s, h)
    /\ Request[s].nets \subseteq UNION {known[s].host[h].nets : h \in Host}

\* find_candidate_hosts.
Candidates(s) ==
    {h \in Host :
        /\ Allows(Request[s].hosts, h)
        /\ known[s].host[h].usable
        /\ InAllowedCluster(s, h)
        /\ HasPool(s, h)
        /\ HasNets(s, h)}

\* host_memory_usage_ratio: free memory once the machine is there.  Negative if
\* memory is overcommitted, which is only warned of.
FreeAfter(s, h) == known[s].host[h].memory - known[s].load[h].memory - Request[s].memory

\* host_cpu_thread_usage_ratio is threads over assigned CPUs, and the rating of
\* a host is that ratio times the memory ratio: a fraction.
RatingOver(s, h) == known[s].host[h].threads * FreeAfter(s, h)
RatingUnder(s, h) ==
    (known[s].load[h].cpus + Request[s].cpus) * known[s].host[h].memory

\* Mutant: sorted without reverse=True.
RatedLeast(s, g, h) ==
    RatingOver(s, g) * RatingUnder(s, h) <= RatingOver(s, h) * RatingUnder(s, g)

\* Host g is not sorted after h.
RatedAtLeast(s, g, h) ==
    RatingOver(s, g) * RatingUnder(s, h) >= RatingOver(s, h) * RatingUnder(s, g)

\* Mutant: memory is not counted.
LeastUseOfTemplate(s) == Request[s].committed

\* The machine as cloned, with its memory.
LeastUse(s) == Request[s].committed + Request[s].memory

\* calculate_datastore_weighting.
Weighting(s, d) == known[s].store[d].free - LeastUse(s) - Request[s].uncommitted

\* The datastores of the host that could take the machine.
Rooms(s, h) ==
    {d \in known[s].host[h].stores :
        /\ Allows(Request[s].stores, d)
        /\ known[s].store[d].healthy
        /\ known[s].store[d].free >= LeastUse(s)}

-----------------------------------------------------------------------------
(* select_host_and_datastore *)

Validate(s) ==
    /\ work[s].at = "validate"
    /\ InputsValid(s)
    /\ Candidates(s) # {}
    /\ work' = [work EXCEPT ![s].at = "scan", ![s].left = Candidates(s)]
    /\ UNCHANGED <<host, load, store, known, overtaken, faults>>

\* "Issues found while validating inputs", or "No healthy hosts could be found".
Refuse(s) ==
    /\ work[s].at = "validate"
    /\ ~InputsValid(s) \/ Candidates(s) = {}
    /\ Goes(s, "failed")
    /\ UNCHANGED <<host, load, store, known, overtaken, faults>>

\* The next host in the order of the ratings.
IsNext(s, h) ==
    /\ h \in work[s].left
    /\ \A g \in work[s].left : RatedAtLeast(s, h, g)

\* The first datastore of those with the highest weighting.
IsRoomiest(s, h, d) ==
    /\ d \in Rooms(s, h)
    /\ \A e \in Rooms(s, h) : Weighting(s, d) >= Weighting(s, e)

\* Mutant: the candidate replaces the best host whenever it has more room.
ImprovesByRoom(s, d) ==
    work[s].best = NoChoice \/ work[s].best.weight < Weighting(s, d)

\* The most desirable host is kept unless it cannot house the maximum size of
\* the machine and this one can.
Improves(s, d) ==
    \/ work[s].best = NoChoice
    \/ work[s].best.weight < 0 /\ Weighting(s, d) >= 0

PassOver(s) ==
    /\ work[s].at = "scan"
    /\ \E h \in Host :
          /\ IsNext(s, h)
          /\ \/ Rooms(s, h) = {}
             \/ \E d \in Datastore : IsRoomiest(s, h, d) /\ ~Improves(s, d)
          /\ work' = [work EXCEPT ![s].left = @ \ {h}]
    /\ UNCHANGED <<host, load, store, known, overtaken, faults>>

Prefer(s) ==
    /\ work[s].at = "scan"
    /\ \E h \in Host, d \in Datastore :
          /\ IsNext(s, h)
          /\ IsRoomiest(s, h, d)
          /\ Improves(s, d)
          /\ work' = [work EXCEPT
                ![s].left = @ \ {h},
                ![s].best = [host |-> h, store |-> d, weight |-> Weighting(s, d)]]
    /\ UNCHANGED <<host, load, store, known, overtaken, faults>>

\* Mutant: no check that anything was found.
CloneAnywhere(s) ==
    /\ work[s].at = "scan"
    /\ work[s].left = {}
    /\ ~work[s].retry
    /\ Goes(s, "clone")
    /\ UNCHANGED <<host, load, store, known, overtaken, faults>>

\* The clone is started, in the first attempt only.
Clone(s) ==
    /\ work[s].at = "scan"
    /\ work[s].left = {}
    /\ work[s].best # NoChoice
    /\ ~work[s].retry
    /\ Goes(s, "clone")
    /\ UNCHANGED <<host, load, store, known, overtaken, faults>>

\* "No datastores found with enough space", or a retried attempt, which looks
\* for a clone that was never started.
GiveUp(s) ==
    /\ work[s].at = "scan"
    /\ work[s].left = {}
    /\ work[s].best = NoChoice \/ work[s].retry
    /\ Goes(s, "failed")
    /\ UNCHANGED <<host, load, store, known, overtaken, faults>>

-----------------------------------------------------------------------------
(* vSphere *)

\* Everybody else's choice may be out of date now.
Overtakes(s) == overtaken' = overtaken \union (Server \ {s})

\* The chosen place will still do.
HasRoom(s) ==
    LET b == work[s].best IN
    /\ host[b.host].usable
    /\ b.store \in Mounted(b.host)
    /\ store[b.store].healthy
    /\ store[b.store].free >= Request[s].committed + Request[s].memory

\* The machine is cloned and runs there (auto_placement is off).
CloneSucceeds(s) ==
    /\ work[s].at = "clone"
    /\ HasRoom(s)
    /\ LET b == work[s].best IN
          /\ load' = [load EXCEPT ![b.host].cpus = @ + Request[s].cpus,
                                  ![b.host].memory = @ + Request[s].memory]
          /\ store' = [store EXCEPT ![b.store].free =
                          @ - Request[s].committed - Request[s].memory]
    /\ Overtakes(s)
    /\ Goes(s, "placed")
    /\ UNCHANGED <<host, known, faults>>

\* For want of room, or any other reason.
CloneFails(s) ==
    /\ work[s].at = "clone"
    /\ Goes(s, "failed")
    /\ UNCHANGED <<host, load, store, known, overtaken, faults>>

Meddle ==
    /\ faults < MaxFaults
    /\ faults' = faults + 1
    /\ overtaken' = Server
    /\ UNCHANGED <<load, work, known>>

\* An administrator takes a host in or out of maintenance.
HostChanges ==
    /\ Meddle
    /\ \E h \in Host : host' = [host EXCEPT ![h].usable = ~@]
    /\ UNCHANGED store

StoreAppears ==
    /\ Meddle
    /\ \E d \in Datastore :
          /\ ~store[d].exists
          /\ store' = [store EXCEPT ![d].exists = TRUE]
    /\ UNCHANGED host

Next ==
    \/ \E s \in Server :
          \/ ReadStores(s)
          \/ ReadMachines(s)
          \/ ReadHosts(s)
          \/ CacheTorn(s)
          \/ Validate(s)
          \/ Refuse(s)
          \/ PassOver(s)
          \/ Prefer(s)
          \/ Clone(s)
          \/ GiveUp(s)
          \/ CloneSucceeds(s)
          \/ CloneFails(s)
    \/ HostChanges
    \/ StoreAppears

Spec == Init /\ [][Next]_vars

-----------------------------------------------------------------------------
(* Properties *)

Choice ==
    [host : Host \union {None}, store : Datastore \union {None}, weight : Int]
Work == [at : Place, retry : BOOLEAN, left : SUBSET Host, best : Choice]
Inventory ==
    [host : [Host -> HostRecord], load : [Host -> LoadRecord],
     store : [Datastore -> StoreRecord]]

\* Every variable has its type: no datastore is filled beyond its size, and a
\* clone has a host and a datastore.
TypeOK ==
    /\ host \in [Host -> HostRecord]
    /\ load \in [Host -> LoadRecord]
    /\ store \in [Datastore -> StoreRecord]
    /\ work \in [Server -> Work]
    /\ known \in [Server -> Inventory]
    /\ \A s \in Server : work[s].at = "clone" =>
          work[s].best.host \in Host /\ work[s].best.store \in Datastore
    /\ overtaken \subseteq Server
    /\ faults \in 0 .. MaxFaults

\* The host can house the machine however full its disk gets.
Houses(s, h) == \E d \in Rooms(s, h) : Weighting(s, d) >= 0

\* What is promised of a choice: a candidate with room, the highest rated of
\* those that can house the maximum, or of all with room if none can; and the
\* roomiest of its datastores.
BestOf(s, b) ==
    /\ b.host \in Candidates(s)
    /\ IsRoomiest(s, b.host, b.store)
    /\ \A g \in Candidates(s) :
          \/ RatedAtLeast(s, b.host, g)
          \/ ~Houses(s, g) /\ (Houses(s, b.host) \/ Rooms(s, g) = {})

\* "Select which host and datastore to use ... the hosts are sorted from most
\* desirable to least desirable" (select_host_and_datastore): one pass that
\* remembers a single best choice ends with what the whole list would give.
ChoosesBest ==
    \A s \in Server : work[s].at = "clone" => BestOf(s, work[s].best)

\* The rating is a product of a positive and a possibly negative ratio ("2
\* negatives would cause badly ordered candidates", find_candidate_hosts): still
\* a host is overcommitted only if no candidate with memory left could house
\* the machine.
OvercommitsLast ==
    \A s \in Server :
        work[s].at = "clone" /\ FreeAfter(s, work[s].best.host) < 0 =>
            \A g \in Candidates(s) : FreeAfter(s, g) >= 0 => ~Houses(s, g)

\* Nothing is reserved between the reading and the clone, so a clone may be
\* refused; but only if another server or an administrator came in between.
RoomUnlessRaced ==
    \A s \in Server : work[s].at = "clone" /\ ~HasRoom(s) => s \in overtaken

=============================================================================
