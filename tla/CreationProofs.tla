---------------------------- MODULE CreationProofs ----------------------------
(***************************************************************************)
(* Theorems about the two ways in which a machine comes into being.        *)
(*                                                                         *)
(* Part I: Placement, the clone of a template, for any inventories,        *)
(* requests and numbers of servers, hosts and datastores.  The heart is    *)
(* the loop invariant Pass of select_host_and_datastore: the one choice it *)
(* remembers is the best of the hosts seen so far, and all of those are    *)
(* rated at least as high as the hosts still to come.  What was read is as *)
(* good as the inventory itself (Fresh) until somebody overtakes.          *)
(*                                                                         *)
(* Part II: OvfImport, the import of a package, for any number of disks.   *)
(* That the lease ends takes fairness and is model-checked; what is proved *)
(* is that nobody but a worker at its upload has the timer keep it.        *)
(***************************************************************************)
EXTENDS Placement, OvfImport, TLAPS

(***************************************************************************)
(* Part I: Placement                                                       *)
(***************************************************************************)

\* Of hosts not in left, b is the best; left are the hosts still to come.
Pass(s, left, b) ==
    LET seen == Candidates(s) \ left IN
    /\ left \subseteq Candidates(s)
    /\ \A g \in seen, h \in left : RatedAtLeast(s, g, h)
    /\ b = NoChoice => \A g \in seen : Rooms(s, g) = {}
    /\ b # NoChoice =>
          /\ b.host \in seen
          /\ IsRoomiest(s, b.host, b.store)
          /\ b.weight = Weighting(s, b.store)
          /\ \A g \in seen :
                \/ RatedAtLeast(s, b.host, g)
                \/ ~Houses(s, g) /\ (Houses(s, b.host) \/ Rooms(s, g) = {})
          /\ b.weight < 0 => \A g \in seen : ~Houses(s, g)

Scanned(s) ==
    /\ work[s].at \in {"start", "machines", "hosts", "validate"} => work[s].best = NoChoice
    /\ work[s].at \in {"scan", "clone"} => Pass(s, work[s].left, work[s].best)
    /\ work[s].at = "clone" => work[s].left = {} /\ work[s].best # NoChoice

\* What server s has read is what there is.
Fresh(s) ==
    s \notin overtaken =>
       /\ work[s].at \in {"machines", "hosts", "validate", "scan", "clone"} =>
             known[s].store = store
       /\ work[s].at \in {"validate", "scan", "clone"} =>
             known[s].host = [h \in Host |-> [host[h] EXCEPT !.stores = Mounted(h)]]

IInv ==
    /\ TypeOK
    /\ \A s \in Server : Scanned(s)
    /\ \A s \in Server : Fresh(s)

-----------------------------------------------------------------------------
(* The operators *)

\* What is known is typed, per host and datastore.
LEMMA KnownTyped ==
    ASSUME TypeOK, NEW s \in Server
    PROVE  /\ Request[s] \in Requests
           /\ \A h \in Host : known[s].host[h] \in HostRecord
           /\ \A h \in Host : known[s].load[h] \in LoadRecord
           /\ \A d \in Datastore : known[s].store[d] \in StoreRecord
           /\ known[s] \in Inventory
  BY PlacementAssumption DEF TypeOK, Inventory

\* Ratings and weightings are integers; the divisor of a rating is positive.
LEMMA RatingsTyped ==
    ASSUME TypeOK, NEW s \in Server, NEW h \in Host
    PROVE  /\ FreeAfter(s, h) \in Int
           /\ RatingOver(s, h) \in Int
           /\ RatingUnder(s, h) \in Nat \ {0}
  <1>1. /\ known[s].host[h].memory \in Nat \ {0}
        /\ known[s].host[h].threads \in Nat \ {0}
        /\ known[s].load[h].memory \in Nat
        /\ known[s].load[h].cpus \in Nat
        /\ Request[s].memory \in Nat
        /\ Request[s].cpus \in Nat \ {0}
    BY KnownTyped DEF HostRecord, LoadRecord, Requests
  <1>2. FreeAfter(s, h) \in Int
    BY <1>1 DEF FreeAfter
  <1>3. \A a \in Nat \ {0}, b \in Int : a * b \in Int
    OBVIOUS
  <1>4. \A a, b \in Nat \ {0} : a * b \in Nat \ {0}
    OBVIOUS
  <1>5. known[s].load[h].cpus + Request[s].cpus \in Nat \ {0}
    BY <1>1
  <1> QED
    BY <1>1, <1>2, <1>3, <1>4, <1>5 DEF RatingOver, RatingUnder

\* A host is rated at least as high as itself.
LEMMA RatedReflexive ==
    ASSUME TypeOK, NEW s \in Server, NEW h \in Host
    PROVE  RatedAtLeast(s, h, h)
  BY RatingsTyped DEF RatedAtLeast

\* Weightings are integers, and rooms are datastores.
LEMMA RoomsTyped ==
    ASSUME TypeOK, NEW s \in Server, NEW h \in Host
    PROVE  /\ Rooms(s, h) \subseteq Datastore
           /\ \A d \in Datastore : Weighting(s, d) \in Int
  <1>1. known[s].host[h].stores \subseteq Datastore
    BY KnownTyped DEF HostRecord
  <1>2. ASSUME NEW d \in Datastore
        PROVE  Weighting(s, d) \in Int
    <2>1. /\ known[s].store[d].free \in Nat
          /\ Request[s].committed \in Nat
          /\ Request[s].memory \in Nat
          /\ Request[s].uncommitted \in Nat
      BY KnownTyped DEF StoreRecord, Requests
    <2> QED
      BY <2>1 DEF Weighting, LeastUse
  <1> QED
    BY <1>1, <1>2 DEF Rooms

\* Candidates are hosts.
LEMMA CandidatesAreHosts ==
    ASSUME NEW s
    PROVE  Candidates(s) \subseteq Host
  BY DEF Candidates

\* A host can house the machine if and only if its roomiest datastore can.
LEMMA RoomiestHouses ==
    ASSUME TypeOK, NEW s \in Server, NEW h \in Host, NEW d, IsRoomiest(s, h, d)
    PROVE  Houses(s, h) <=> Weighting(s, d) >= 0
  <1>1. d \in Datastore
    BY RoomsTyped DEF IsRoomiest
  <1>2. \A e \in Rooms(s, h) : Weighting(s, e) \in Int
    BY RoomsTyped
  <1>3. Weighting(s, d) \in Int
    BY <1>1, RoomsTyped
  <1> QED
    BY <1>2, <1>3 DEF IsRoomiest, Houses

-----------------------------------------------------------------------------
(* The pass over the candidates *)

\* Before the first host nothing was seen and nothing is chosen.
LEMMA PassStarts ==
    ASSUME NEW s
    PROVE  Pass(s, Candidates(s), NoChoice)
  BY DEF Pass

\* A host without room, or one that does not improve on the choice, is passed over.
LEMMA PassKeeps ==
    ASSUME TypeOK, NEW s \in Server, NEW left, NEW b \in Choice, NEW h,
           Pass(s, left, b), h \in left, \A g \in left : RatedAtLeast(s, h, g),
           \/ Rooms(s, h) = {}
           \/ \E d \in Datastore :
                 /\ IsRoomiest(s, h, d)
                 /\ b # NoChoice
                 /\ ~(b.weight < 0 /\ Weighting(s, d) >= 0)
    PROVE  Pass(s, left \ {h}, b)
  <1> DEFINE seen == Candidates(s) \ left
             seen2 == Candidates(s) \ (left \ {h})
  <1>1. h \in Candidates(s) /\ h \in Host /\ left \subseteq Candidates(s)
    BY CandidatesAreHosts DEF Pass
  <1>2. seen2 = seen \union {h}
    BY <1>1
  <1>3. \A g \in seen2, k \in left \ {h} : RatedAtLeast(s, g, k)
    BY <1>2 DEF Pass
  <1>4. CASE Rooms(s, h) = {}
    <2>1. ~Houses(s, h)
      BY <1>4 DEF Houses
    <2> QED
      BY <1>1, <1>2, <1>3, <1>4, <2>1 DEF Pass
  <1>5. ASSUME NEW d \in Datastore, IsRoomiest(s, h, d), b # NoChoice,
               ~(b.weight < 0 /\ Weighting(s, d) >= 0)
        PROVE  Pass(s, left \ {h}, b)
    <2>1. RatedAtLeast(s, b.host, h)
      BY <1>5 DEF Pass
    <2>2. b.weight < 0 => ~Houses(s, h)
      BY <1>1, <1>5, RoomiestHouses
    <2> QED
      BY <1>1, <1>2, <1>3, <1>5, <2>1, <2>2 DEF Pass
  <1> QED
    BY <1>4, <1>5

\* A host is chosen that is the first with room, or the first that can house the
\* machine whatever becomes of its disks.
LEMMA PassImproves ==
    ASSUME TypeOK, NEW s \in Server, NEW left, NEW b \in Choice, NEW h, NEW d \in Datastore,
           Pass(s, left, b), h \in left, \A g \in left : RatedAtLeast(s, h, g),
           IsRoomiest(s, h, d),
           b = NoChoice \/ (b.weight < 0 /\ Weighting(s, d) >= 0)
    PROVE  Pass(s, left \ {h}, [host |-> h, store |-> d, weight |-> Weighting(s, d)])
  <1> DEFINE seen == Candidates(s) \ left
             seen2 == Candidates(s) \ (left \ {h})
             c == [host |-> h, store |-> d, weight |-> Weighting(s, d)]
  <1>1. h \in Candidates(s) /\ h \in Host /\ left \subseteq Candidates(s)
    BY CandidatesAreHosts DEF Pass
  <1>2. seen2 = seen \union {h}
    BY <1>1
  <1>3. \A g \in seen2, k \in left \ {h} : RatedAtLeast(s, g, k)
    BY <1>2 DEF Pass
  <1>4. RatedAtLeast(s, h, h)
    BY <1>1, RatedReflexive
  <1>5. Houses(s, h) <=> Weighting(s, d) >= 0
    BY <1>1, RoomiestHouses
  <1>6. Weighting(s, d) \in Int
    BY <1>1, RoomsTyped
  <1>7. \A g \in seen : ~Houses(s, g) /\ (Houses(s, h) \/ Rooms(s, g) = {})
    <2>1. CASE b = NoChoice
      BY <2>1 DEF Pass, Houses
    <2>2. CASE b # NoChoice
      BY <2>2, <1>5 DEF Pass
    <2> QED
      BY <2>1, <2>2
  <1>8. c # NoChoice
    BY <1>1, PlacementAssumption DEF NoChoice
  <1>9. c.weight < 0 => \A g \in seen2 : ~Houses(s, g)
    BY <1>2, <1>5, <1>6, <1>7
  <1> QED
    BY <1>1, <1>2, <1>3, <1>4, <1>7, <1>8, <1>9 DEF Pass

\* When no host is left, the choice is the best of the list.
LEMMA PassEnds ==
    ASSUME NEW s, NEW b, Pass(s, {}, b), b # NoChoice
    PROVE  BestOf(s, b)
  BY DEF Pass, BestOf

-----------------------------------------------------------------------------
(* Steps *)

\* What a server's operators say depends on what it has read only.
LEMMA SameKnown ==
    ASSUME NEW s, known'[s] = known[s]
    PROVE  /\ Candidates(s)' = Candidates(s)
           /\ \A h : Rooms(s, h)' = Rooms(s, h)
           /\ \A d : Weighting(s, d)' = Weighting(s, d)
           /\ \A g, h : RatedAtLeast(s, g, h)' <=> RatedAtLeast(s, g, h)
  BY DEF Candidates, InAllowedCluster, HasPool, HasNets, Rooms, Weighting, LeastUse,
         RatedAtLeast, RatingOver, RatingUnder, FreeAfter

\* A server that neither reads nor moves keeps its invariant.
LEMMA ScannedKept ==
    ASSUME NEW s, known'[s] = known[s], work'[s] = work[s], Scanned(s)
    PROVE  Scanned(s)'
  <1> DEFINE left == work[s].left
             b == work[s].best
  <1>1. Pass(s, left, b)' <=> Pass(s, left, b)
    <2>1. left' = left /\ b' = b
      OBVIOUS
    <2> QED
      BY <2>1, SameKnown DEF Pass, IsRoomiest, Houses
  <1> QED
    BY <1>1 DEF Scanned

\* A server that fares on in the invariant of its pass keeps it.
LEMMA ScannedMoves ==
    ASSUME NEW s \in Server, NEW left, NEW b, known'[s] = known[s],
           work'[s].left = left, work'[s].best = b,
           work'[s].at \in {"scan", "clone", "placed", "failed"},
           Pass(s, left, b), work'[s].at = "clone" => left = {} /\ b # NoChoice
    PROVE  Scanned(s)'
  <1>1. Pass(s, work'[s].left, work'[s].best)
    OBVIOUS
  <1> QED
    BY <1>1, SameKnown DEF Scanned, Pass, IsRoomiest, Houses

Read == {"machines", "hosts", "validate", "scan", "clone"}
AllRead == {"validate", "scan", "clone"}

\* What was read stays as good as it is while the inventory does.
LEMMA FreshKept ==
    ASSUME NEW s, Fresh(s), host' = host, store' = store, known'[s] = known[s],
           s \notin overtaken' => s \notin overtaken,
           work'[s].at \in Read => work[s].at \in Read,
           work'[s].at \in AllRead => work[s].at \in AllRead
    PROVE  Fresh(s)'
  BY DEF Fresh, Mounted, Read, AllRead

\* A choice that is made is a host with a datastore.
LEMMA ChoiceTyped ==
    ASSUME TypeOK, NEW s \in Server, NEW left, NEW b, Pass(s, left, b), b # NoChoice
    PROVE  b.host \in Host /\ b.store \in Datastore
  <1>1. b.host \in Host /\ IsRoomiest(s, b.host, b.store)
    BY CandidatesAreHosts DEF Pass
  <1> QED
    BY <1>1, RoomsTyped DEF IsRoomiest

\* A server that goes on to a place changes nothing else.
LEMMA GoesThere ==
    ASSUME work \in [Server -> Work], NEW s \in Server, NEW place \in Place, Goes(s, place)
    PROVE  /\ work' \in [Server -> Work]
           /\ work'[s].at = place
           /\ work'[s].left = work[s].left
           /\ work'[s].best = work[s].best
           /\ \A r \in Server \ {s} : work'[r] = work[r]
  BY DEF Goes, Work

\* A step that changes the work of one server only.
LEMMA QuietStep ==
    ASSUME IInv, NEW s \in Server,
           UNCHANGED <<host, load, store, known, overtaken, faults>>,
           work' \in [Server -> Work],
           \A r \in Server \ {s} : work'[r] = work[r],
           Scanned(s)',
           work'[s].at = "clone" => work'[s].best.host \in Host /\ work'[s].best.store \in Datastore,
           work'[s].at \in Read => work[s].at \in Read,
           work'[s].at \in AllRead => work[s].at \in AllRead
    PROVE  IInv'
  <1>1. TypeOK'
    <2>1. ASSUME NEW r \in Server, work'[r].at = "clone"
          PROVE  work'[r].best.host \in Host /\ work'[r].best.store \in Datastore
      BY <2>1 DEF IInv, TypeOK
    <2> QED
      BY <2>1 DEF IInv, TypeOK
  <1>2. \A r \in Server : Scanned(r)'
    BY ScannedKept DEF IInv
  <1>3. \A r \in Server : Fresh(r)'
    BY FreshKept DEF IInv
  <1> QED
    BY <1>1, <1>2, <1>3 DEF IInv

\* The parts of the invariant a server's action starts from.
LEMMA WorkTyped ==
    ASSUME IInv, NEW s \in Server
    PROVE  /\ work \in [Server -> Work]
           /\ work[s] \in Work
           /\ work[s].left \subseteq Host
           /\ work[s].best \in Choice
           /\ TypeOK /\ Scanned(s) /\ Fresh(s)
  BY DEF IInv, TypeOK, Work

LEMMA ReadStoresStep ==
    ASSUME IInv, NEW s \in Server, ReadStores(s)
    PROVE  IInv'
  <1>1. /\ work' \in [Server -> Work]
        /\ work'[s].at = "machines"
        /\ work'[s].best = NoChoice
        /\ \A r \in Server \ {s} : work'[r] = work[r]
    <2>1. work[s].best = NoChoice
      BY WorkTyped DEF ReadStores, Scanned
    <2> QED
      BY <2>1, WorkTyped, GoesThere DEF ReadStores, Place
  <1>2. /\ known' \in [Server -> Inventory]
        /\ known'[s].store = store
        /\ \A r \in Server \ {s} : known'[r] = known[r]
    BY WorkTyped DEF ReadStores, TypeOK, Inventory
  <1>3. TypeOK'
    <2>1. ASSUME NEW r \in Server, work'[r].at = "clone"
          PROVE  work'[r].best.host \in Host /\ work'[r].best.store \in Datastore
      BY <1>1, <2>1, WorkTyped DEF TypeOK
    <2> QED
      BY <1>1, <1>2, <2>1, WorkTyped DEF TypeOK, ReadStores
  <1>4. Scanned(s)'
    BY <1>1 DEF Scanned
  <1>5. Fresh(s)'
    BY <1>1, <1>2 DEF ReadStores, Fresh
  <1>6. ASSUME NEW r \in Server \ {s}
        PROVE  Scanned(r)' /\ Fresh(r)'
    BY <1>1, <1>2, ScannedKept, FreshKept DEF IInv, ReadStores
  <1> QED
    BY <1>3, <1>4, <1>5, <1>6 DEF IInv

LEMMA ReadMachinesStep ==
    ASSUME IInv, NEW s \in Server, ReadMachines(s)
    PROVE  IInv'
  <1>1. /\ work' \in [Server -> Work]
        /\ work'[s].at = "hosts"
        /\ work'[s].best = NoChoice
        /\ \A r \in Server \ {s} : work'[r] = work[r]
    <2>1. work[s].best = NoChoice
      BY WorkTyped DEF ReadMachines, Scanned
    <2> QED
      BY <2>1, WorkTyped, GoesThere DEF ReadMachines, Place
  <1>2. /\ known' \in [Server -> Inventory]
        /\ known'[s].store = known[s].store
        /\ \A r \in Server \ {s} : known'[r] = known[r]
    BY WorkTyped DEF ReadMachines, TypeOK, Inventory
  <1>3. TypeOK'
    <2>1. ASSUME NEW r \in Server, work'[r].at = "clone"
          PROVE  work'[r].best.host \in Host /\ work'[r].best.store \in Datastore
      BY <1>1, <2>1, WorkTyped DEF TypeOK
    <2> QED
      BY <1>1, <1>2, <2>1, WorkTyped DEF TypeOK, ReadMachines
  <1>4. Scanned(s)'
    BY <1>1 DEF Scanned
  <1>5. Fresh(s)'
    BY <1>1, <1>2, WorkTyped DEF ReadMachines, Fresh
  <1>6. ASSUME NEW r \in Server \ {s}
        PROVE  Scanned(r)' /\ Fresh(r)'
    BY <1>1, <1>2, ScannedKept, FreshKept DEF IInv, ReadMachines
  <1> QED
    BY <1>3, <1>4, <1>5, <1>6 DEF IInv

LEMMA ReadHostsStep ==
    ASSUME IInv, NEW s \in Server, ReadHosts(s)
    PROVE  IInv'
  <1> DEFINE read == [h \in Host |-> [host[h] EXCEPT !.stores = Mounted(h)]]
  <1>1. /\ work' \in [Server -> Work]
        /\ work'[s].at = "validate"
        /\ work'[s].best = NoChoice
        /\ \A r \in Server \ {s} : work'[r] = work[r]
    <2>1. work[s].best = NoChoice
      BY WorkTyped DEF ReadHosts, Scanned
    <2> QED
      BY <2>1, WorkTyped, GoesThere DEF ReadHosts, Place
  <1>2. read \in [Host -> HostRecord]
    <2>1. ASSUME NEW h \in Host
          PROVE  [host[h] EXCEPT !.stores = Mounted(h)] \in HostRecord
      <3>1. host[h] \in HostRecord
        BY WorkTyped DEF TypeOK
      <3>2. Mounted(h) \in SUBSET Datastore
        BY <3>1 DEF Mounted, HostRecord
      <3> HIDE DEF Mounted
      <3> QED
        BY <3>1, <3>2 DEF HostRecord
    <2> QED
      BY <2>1
  <1>3. /\ known' \in [Server -> Inventory]
        /\ known'[s].store = known[s].store
        /\ known'[s].host = read
        /\ \A r \in Server \ {s} : known'[r] = known[r]
    <2>1. known' = [known EXCEPT ![s].host = read]
      BY DEF ReadHosts
    <2> HIDE DEF read
    <2> QED
      BY <1>2, <2>1, WorkTyped DEF TypeOK, Inventory
  <1>4. TypeOK'
    <2>1. ASSUME NEW r \in Server, work'[r].at = "clone"
          PROVE  work'[r].best.host \in Host /\ work'[r].best.store \in Datastore
      BY <1>1, <2>1, WorkTyped DEF TypeOK
    <2> QED
      BY <1>1, <1>3, <2>1, WorkTyped DEF TypeOK, ReadHosts
  <1>5. Scanned(s)'
    BY <1>1 DEF Scanned
  <1>6. Fresh(s)'
    <2>1. read' = read
      BY DEF ReadHosts, Mounted
    <2> QED
      BY <1>1, <1>3, <2>1, WorkTyped DEF ReadHosts, Fresh
  <1>7. ASSUME NEW r \in Server \ {s}
        PROVE  Scanned(r)' /\ Fresh(r)'
    BY <1>1, <1>3, ScannedKept, FreshKept DEF IInv, ReadHosts
  <1> QED
    BY <1>4, <1>5, <1>6, <1>7 DEF IInv

LEMMA CacheTornStep ==
    ASSUME IInv, NEW s \in Server, CacheTorn(s)
    PROVE  IInv'
  <1>1. work[s].best = NoChoice
    BY WorkTyped DEF CacheTorn, Scanned
  <1>2. /\ work' \in [Server -> Work]
        /\ work'[s].at = "start" /\ work'[s].best = NoChoice
        /\ \A r \in Server \ {s} : work'[r] = work[r]
    BY <1>1, WorkTyped DEF CacheTorn, Work, Place
  <1>3. Scanned(s)'
    BY <1>2 DEF Scanned
  <1> QED
    BY <1>2, <1>3, QuietStep DEF CacheTorn, Read, AllRead

LEMMA ValidateStep ==
    ASSUME IInv, NEW s \in Server, Validate(s)
    PROVE  IInv'
  <1>1. work[s].best = NoChoice
    BY WorkTyped DEF Validate, Scanned
  <1>2. /\ work' \in [Server -> Work]
        /\ work'[s].at = "scan" /\ work'[s].best = NoChoice
        /\ work'[s].left = Candidates(s)
        /\ \A r \in Server \ {s} : work'[r] = work[r]
    BY <1>1, WorkTyped, CandidatesAreHosts DEF Validate, Work, Place
  <1>3. Scanned(s)'
    BY <1>2, PassStarts, ScannedMoves DEF Validate
  <1> QED
    BY <1>2, <1>3, QuietStep DEF Validate, Read, AllRead

LEMMA FailsStep ==
    ASSUME IInv, NEW s \in Server, Goes(s, "failed"),
           UNCHANGED <<host, load, store, known, overtaken, faults>>
    PROVE  IInv'
  <1>1. /\ work' \in [Server -> Work]
        /\ work'[s].at = "failed"
        /\ \A r \in Server \ {s} : work'[r] = work[r]
    BY WorkTyped, GoesThere DEF Place
  <1>2. Scanned(s)'
    BY <1>1 DEF Scanned
  <1> QED
    BY <1>1, <1>2, QuietStep DEF Read, AllRead

LEMMA PassOverStep ==
    ASSUME IInv, NEW s \in Server, PassOver(s)
    PROVE  IInv'
  <1>1. PICK h \in Host :
           /\ IsNext(s, h)
           /\ \/ Rooms(s, h) = {}
              \/ \E d \in Datastore : IsRoomiest(s, h, d) /\ ~Improves(s, d)
           /\ work' = [work EXCEPT ![s].left = @ \ {h}]
    BY DEF PassOver
  <1>2. /\ work' \in [Server -> Work]
        /\ work'[s].at = "scan" /\ work'[s].best = work[s].best
        /\ work'[s].left = work[s].left \ {h}
        /\ \A r \in Server \ {s} : work'[r] = work[r]
    BY <1>1, WorkTyped DEF PassOver, Work
  <1>3. Pass(s, work[s].left, work[s].best)
    BY WorkTyped DEF PassOver, Scanned
  <1>4. Pass(s, work[s].left \ {h}, work[s].best)
    BY <1>1, <1>3, WorkTyped, PassKeeps DEF IsNext, Improves
  <1>5. Scanned(s)'
    BY <1>2, <1>4, ScannedMoves DEF PassOver
  <1> QED
    BY <1>2, <1>5, QuietStep DEF PassOver, Read, AllRead

LEMMA PreferStep ==
    ASSUME IInv, NEW s \in Server, Prefer(s)
    PROVE  IInv'
  <1>1. PICK h \in Host, d \in Datastore :
           /\ IsNext(s, h)
           /\ IsRoomiest(s, h, d)
           /\ Improves(s, d)
           /\ work' = [work EXCEPT
                 ![s].left = @ \ {h},
                 ![s].best = [host |-> h, store |-> d, weight |-> Weighting(s, d)]]
    BY DEF Prefer
  <1> DEFINE b == [host |-> h, store |-> d, weight |-> Weighting(s, d)]
  <1>2. b \in Choice
    BY WorkTyped, RoomsTyped DEF Choice
  <1>3. /\ work' \in [Server -> Work]
        /\ work'[s].at = "scan" /\ work'[s].best = b
        /\ work'[s].left = work[s].left \ {h}
        /\ \A r \in Server \ {s} : work'[r] = work[r]
    <2> HIDE DEF b
    <2>1. work' = [work EXCEPT ![s].left = @ \ {h}, ![s].best = b]
      BY <1>1 DEF b
    <2> QED
      BY <1>2, <2>1, WorkTyped DEF Prefer, Work
  <1>4. Pass(s, work[s].left, work[s].best)
    BY WorkTyped DEF Prefer, Scanned
  <1>5. Pass(s, work[s].left \ {h}, b)
    BY <1>1, <1>4, WorkTyped, PassImproves DEF IsNext, Improves
  <1>6. Scanned(s)'
    BY <1>3, <1>5, ScannedMoves DEF Prefer
  <1> QED
    BY <1>3, <1>6, QuietStep DEF Prefer, Read, AllRead

LEMMA CloneStep ==
    ASSUME IInv, NEW s \in Server, Clone(s)
    PROVE  IInv'
  <1>1. Pass(s, {}, work[s].best) /\ work[s].best # NoChoice
    BY WorkTyped DEF Clone, Scanned
  <1>2. /\ work' \in [Server -> Work]
        /\ work'[s].at = "clone" /\ work'[s].best = work[s].best
        /\ work'[s].left = {}
        /\ \A r \in Server \ {s} : work'[r] = work[r]
    BY WorkTyped, GoesThere DEF Clone, Place
  <1>3. work[s].best.host \in Host /\ work[s].best.store \in Datastore
    BY <1>1, WorkTyped, ChoiceTyped
  <1>4. Scanned(s)'
    BY <1>1, <1>2, ScannedMoves DEF Clone
  <1> QED
    BY <1>2, <1>3, <1>4, QuietStep DEF Clone, Read, AllRead

LEMMA CloneSucceedsStep ==
    ASSUME IInv, NEW s \in Server, CloneSucceeds(s)
    PROVE  IInv'
  <1> DEFINE g == work[s].best.host
             d == work[s].best.store
             use == Request[s].committed + Request[s].memory
  <1>1. g \in Host /\ d \in Datastore
    BY WorkTyped DEF CloneSucceeds, TypeOK
  <1>2. /\ work' \in [Server -> Work]
        /\ work'[s].at = "placed" /\ work'[s].best = work[s].best
        /\ \A r \in Server \ {s} : work'[r] = work[r]
    BY WorkTyped, GoesThere DEF CloneSucceeds, Place
  <1>3. /\ Request[s].cpus \in Nat \ {0}
        /\ Request[s].memory \in Nat
        /\ Request[s].committed \in Nat
    BY PlacementAssumption DEF Requests
  <1>4. load' \in [Host -> LoadRecord]
    <2>1. load' = [load EXCEPT ![g].cpus = @ + Request[s].cpus,
                               ![g].memory = @ + Request[s].memory]
      BY DEF CloneSucceeds
    <2>2. load \in [Host -> LoadRecord]
      BY WorkTyped DEF TypeOK
    <2> HIDE DEF g
    <2>3. load[g].cpus + Request[s].cpus \in Nat /\ load[g].memory + Request[s].memory \in Nat
      BY <1>1, <1>3, <2>2 DEF LoadRecord
    <2> QED
      BY <1>1, <2>1, <2>2, <2>3 DEF LoadRecord
  <1>5. store' \in [Datastore -> StoreRecord]
    <2>1. store' = [store EXCEPT ![d].free = @ - Request[s].committed - Request[s].memory]
      BY DEF CloneSucceeds
    <2>2. store \in [Datastore -> StoreRecord]
      BY WorkTyped DEF TypeOK
    <2>3. store[d].free >= use
      BY DEF CloneSucceeds, HasRoom
    <2> HIDE DEF d
    <2>4. store[d].free - Request[s].committed - Request[s].memory \in Nat
      BY <1>1, <1>3, <2>2, <2>3 DEF StoreRecord
    <2> QED
      BY <1>1, <2>1, <2>2, <2>4 DEF StoreRecord
  <1>6. TypeOK'
    <2>1. ASSUME NEW r \in Server, work'[r].at = "clone"
          PROVE  work'[r].best.host \in Host /\ work'[r].best.store \in Datastore
      BY <1>2, <2>1, WorkTyped DEF TypeOK
    <2> QED
      BY <1>2, <1>4, <1>5, <2>1, WorkTyped DEF TypeOK, CloneSucceeds, Overtakes
  <1>7. Scanned(s)' /\ Fresh(s)'
    BY <1>2 DEF Scanned, Fresh
  <1>8. ASSUME NEW r \in Server \ {s}
        PROVE  Scanned(r)' /\ Fresh(r)'
    <2>1. Scanned(r)'
      BY <1>2, ScannedKept DEF IInv, CloneSucceeds
    <2>2. r \in overtaken'
      BY DEF CloneSucceeds, Overtakes
    <2> QED
      BY <2>1, <2>2 DEF Fresh
  <1> QED
    BY <1>6, <1>7, <1>8 DEF IInv

\* A change by an administrator overtakes everybody.
LEMMA MeddleStep ==
    ASSUME IInv, Meddle, host' \in [Host -> HostRecord],
           store' \in [Datastore -> StoreRecord]
    PROVE  IInv'
  <1>1. TypeOK'
    BY PlacementAssumption DEF IInv, TypeOK, Meddle
  <1>2. \A s \in Server : Scanned(s)'
    BY ScannedKept DEF IInv, Meddle
  <1>3. \A s \in Server : Fresh(s)'
    BY DEF Meddle, Fresh
  <1> QED
    BY <1>1, <1>2, <1>3 DEF IInv

LEMMA HostChangesStep ==
    ASSUME IInv, HostChanges
    PROVE  IInv'
  <1>1. host \in [Host -> HostRecord] /\ store' \in [Datastore -> StoreRecord]
    BY DEF IInv, TypeOK, HostChanges
  <1>2. PICK h \in Host : host' = [host EXCEPT ![h].usable = ~host[h].usable]
    BY DEF HostChanges
  <1> DEFINE usable == ~host[h].usable
  <1>3. usable \in BOOLEAN
    OBVIOUS
  <1>4. host' \in [Host -> HostRecord]
    <2>1. host' = [host EXCEPT ![h].usable = usable]
      BY <1>2
    <2> HIDE DEF usable
    <2> QED
      BY <1>1, <1>3, <2>1 DEF HostRecord
  <1> QED
    BY <1>1, <1>4, MeddleStep DEF HostChanges

LEMMA StoreAppearsStep ==
    ASSUME IInv, StoreAppears
    PROVE  IInv'
  <1>1. store \in [Datastore -> StoreRecord] /\ host' \in [Host -> HostRecord]
    BY DEF IInv, TypeOK, StoreAppears
  <1>2. store' \in [Datastore -> StoreRecord]
    BY <1>1 DEF StoreAppears, StoreRecord
  <1> QED
    BY <1>1, <1>2, MeddleStep DEF StoreAppears

-----------------------------------------------------------------------------
(* The invariant, and what follows from it *)

LEMMA InitIInv ==
    ASSUME Init
    PROVE  IInv
  <1>1. PICK w \in Worlds : host = w.host /\ load = w.load /\ store = w.store
    BY DEF Init
  <1>2. /\ host \in [Host -> HostRecord]
        /\ load \in [Host -> LoadRecord]
        /\ store \in [Datastore -> StoreRecord]
    BY <1>1, PlacementAssumption
  <1>3. \A s \in Server : /\ work[s].at = "start" /\ work[s].best = NoChoice
                          /\ work[s] \in Work
    BY DEF Init, Work, Choice, NoChoice, Place
  <1>4. work \in [Server -> Work]
    BY <1>3 DEF Init
  <1>5. known \in [Server -> Inventory]
    BY <1>2 DEF Init, Inventory
  <1>6. faults \in 0 .. MaxFaults /\ overtaken \subseteq Server
    BY PlacementAssumption DEF Init
  <1>7. TypeOK
    BY <1>2, <1>3, <1>4, <1>5, <1>6 DEF TypeOK
  <1> QED
    BY <1>3, <1>7 DEF IInv, Scanned, Fresh

LEMMA NextIInv ==
    ASSUME IInv, [Next]_vars
    PROVE  IInv'
  <1>1. ASSUME NEW s \in Server, ReadStores(s)
        PROVE  IInv'
    BY <1>1, ReadStoresStep
  <1>2. ASSUME NEW s \in Server, ReadMachines(s)
        PROVE  IInv'
    BY <1>2, ReadMachinesStep
  <1>3. ASSUME NEW s \in Server, ReadHosts(s)
        PROVE  IInv'
    BY <1>3, ReadHostsStep
  <1>4. ASSUME NEW s \in Server, CacheTorn(s)
        PROVE  IInv'
    BY <1>4, CacheTornStep
  <1>5. ASSUME NEW s \in Server, Validate(s)
        PROVE  IInv'
    BY <1>5, ValidateStep
  <1>6. ASSUME NEW s \in Server, Refuse(s) \/ GiveUp(s) \/ CloneFails(s)
        PROVE  IInv'
    BY <1>6, FailsStep DEF Refuse, GiveUp, CloneFails
  <1>7. ASSUME NEW s \in Server, PassOver(s)
        PROVE  IInv'
    BY <1>7, PassOverStep
  <1>8. ASSUME NEW s \in Server, Prefer(s)
        PROVE  IInv'
    BY <1>8, PreferStep
  <1>9. ASSUME NEW s \in Server, Clone(s)
        PROVE  IInv'
    BY <1>9, CloneStep
  <1>10. ASSUME NEW s \in Server, CloneSucceeds(s)
         PROVE  IInv'
    BY <1>10, CloneSucceedsStep
  <1>11. CASE HostChanges
    BY <1>11, HostChangesStep
  <1>12. CASE StoreAppears
    BY <1>12, StoreAppearsStep
  <1>13. CASE UNCHANGED vars
    <2>1. TypeOK'
      BY <1>13 DEF IInv, TypeOK, vars
    <2>2. \A s \in Server : Scanned(s)'
      BY <1>13, ScannedKept DEF IInv, vars
    <2>3. \A s \in Server : Fresh(s)'
      BY <1>13, FreshKept DEF IInv, vars
    <2> QED
      BY <2>1, <2>2, <2>3 DEF IInv
  <1> QED
    BY <1>1, <1>2, <1>3, <1>4, <1>5, <1>6, <1>7, <1>8, <1>9, <1>10, <1>11, <1>12, <1>13
       DEF Next

\* The inductive invariant holds in every reachable state.
THEOREM Invariance == Spec => []IInv
  BY InitIInv, NextIInv, PTL DEF Spec

\* The inventory and what the workers know of it keep their types; a clone has a
\* host and a datastore, and no datastore is filled beyond its size.
THEOREM TypeCorrect == Spec => []TypeOK
  <1>1. IInv => TypeOK
    BY DEF IInv
  <1> QED
    BY <1>1, Invariance, PTL

\* One pass over the sorted hosts that remembers a single choice ends with the
\* best of the whole list (select_host_and_datastore).
THEOREM ChoiceIsBest == Spec => []ChoosesBest
  <1>1. IInv => ChoosesBest
    BY PassEnds DEF IInv, Scanned, ChoosesBest
  <1> QED
    BY <1>1, Invariance, PTL

\* A negative numerator over a positive divisor is the smaller fraction.
LEMMA NegativeIsSmaller ==
    ASSUME NEW a \in Int, NEW b \in Int, NEW m \in Nat \ {0}, NEW n \in Nat \ {0},
           a < 0, b >= 0
    PROVE  ~(a * n >= b * m)
  <1>1. a * n < 0
    OBVIOUS
  <1>2. b * m >= 0
    OBVIOUS
  <1>3. a * n \in Int /\ b * m \in Int
    OBVIOUS
  <1> QED
    BY <1>1, <1>2, <1>3

\* The rating has the sign of the memory that is left.
LEMMA RatingSign ==
    ASSUME TypeOK, NEW s \in Server, NEW h \in Host
    PROVE  /\ FreeAfter(s, h) < 0 => RatingOver(s, h) < 0
           /\ FreeAfter(s, h) >= 0 => RatingOver(s, h) >= 0
  <1>1. known[s].host[h].threads \in Nat \ {0} /\ FreeAfter(s, h) \in Int
    BY KnownTyped, RatingsTyped DEF HostRecord
  <1>2. \A a \in Nat \ {0}, b \in Int : (b < 0 => a * b < 0) /\ (b >= 0 => a * b >= 0)
    OBVIOUS
  <1> QED
    BY <1>1, <1>2 DEF RatingOver

\* Memory is overcommitted only if no host that has memory left can house the
\* machine, for all the signs the rating may have (find_candidate_hosts).
THEOREM OvercommitIsLast == Spec => []OvercommitsLast
  <1>1. ASSUME IInv, NEW s \in Server, work[s].at = "clone",
               FreeAfter(s, work[s].best.host) < 0,
               NEW g \in Candidates(s), FreeAfter(s, g) >= 0
        PROVE  ~Houses(s, g)
    <2> DEFINE h == work[s].best.host
    <2>1. TypeOK /\ Scanned(s) /\ h \in Host /\ g \in Host
      BY <1>1, CandidatesAreHosts DEF IInv, TypeOK
    <2>2. BestOf(s, work[s].best)
      BY <1>1, <2>1, PassEnds DEF Scanned
    <2>3. RatingOver(s, h) < 0 /\ RatingOver(s, g) >= 0
      BY <1>1, <2>1, RatingSign
    <2>4. ~RatedAtLeast(s, h, g)
      BY <2>1, <2>3, RatingsTyped, NegativeIsSmaller DEF RatedAtLeast
    <2> QED
      BY <1>1, <2>2, <2>4 DEF BestOf
  <1>2. IInv => OvercommitsLast
    BY <1>1 DEF OvercommitsLast
  <1> QED
    BY <1>2, Invariance, PTL

\* A clone lacks room only if somebody came between the reading and the clone.
THEOREM RoomOrRace == Spec => []RoomUnlessRaced
  <1>1. ASSUME IInv, NEW s \in Server, work[s].at = "clone", s \notin overtaken
        PROVE  HasRoom(s)
    <2> DEFINE h == work[s].best.host
               d == work[s].best.store
    <2>1. TypeOK /\ Scanned(s) /\ Fresh(s) /\ h \in Host
      BY <1>1 DEF IInv, TypeOK
    <2>2. /\ known[s].store = store
          /\ known[s].host[h] = [host[h] EXCEPT !.stores = Mounted(h)]
      BY <1>1, <2>1 DEF Fresh
    <2>3. h \in Candidates(s) /\ d \in Rooms(s, h)
      BY <1>1, <2>1, PassEnds DEF Scanned, BestOf, IsRoomiest
    <2>4. host[h] \in HostRecord
      BY <2>1 DEF TypeOK
    <2>5. known[s].host[h].usable = host[h].usable /\ known[s].host[h].stores = Mounted(h)
      BY <2>2, <2>4 DEF HostRecord
    <2> QED
      BY <2>2, <2>3, <2>5 DEF Candidates, Rooms, LeastUse, HasRoom
  <1>2. IInv => RoomUnlessRaced
    BY <1>1 DEF RoomUnlessRaced
  <1> QED
    BY <1>2, Invariance, PTL

-----------------------------------------------------------------------------
(***************************************************************************)
(* Part II: OvfImport                                                      *)
(***************************************************************************)

Uploading == {"upload", "complete", "abort"}

\* The timer keeps the lease of a worker that will complete or abort it.
LeaseKept ==
    /\ lease = "initializing" => timer = "off"
    /\ lease = "ready" /\ timer # "off" /\ ~stranded => worker.at \in Uploading

Attempt == [op : {"create", "delete"}, at : OvfPlace, left : 0 .. Disks, found : BOOLEAN,
            outcome : {"none", "ok", "failed"}]

LEMMA AtTyped ==
    ASSUME NEW o \in {"create", "delete"}, NEW place \in OvfPlace,
           NEW outcome \in {"none", "ok", "failed"}
    PROVE  At(o, place, outcome) \in Attempt /\ At(o, place, outcome).at = place
  BY OvfAssumption DEF At, Attempt

LEMMA GoesOnTyped ==
    ASSUME worker \in Attempt, NEW place \in OvfPlace, GoesOn(place)
    PROVE  worker' \in Attempt /\ worker'.at = place
  BY DEF GoesOn, Attempt

\* The id of the machine, once found, is among what is stored.
LEMMA StoredTyped ==
    ASSUME props \in [id : BOOLEAN, task : BOOLEAN], worker \in Attempt
    PROVE  Stored \in [id : BOOLEAN, task : BOOLEAN]
  BY DEF Stored, Attempt

LEMMA OvfTypeOKStep ==
    OvfTypeOK /\ [OvfNext]_ovfVars => OvfTypeOK'
<1> DEFINE Typed ==
      /\ lease \in {"none", "initializing", "ready", "done", "error"}
      /\ vm \in {"none", "importing", "off", "on"}
      /\ job \in [kind : {"reconfigure", "poweron", "poweroff", "destroy"},
                  state : {"running", "success", "error"}]
      /\ connected \in BOOLEAN /\ stranded \in BOOLEAN
      /\ timer \in {"off", "armed", "told"}
      /\ props \in [id : BOOLEAN, task : BOOLEAN]
      /\ worker \in Attempt
<1> SUFFICES ASSUME Typed, [OvfNext]_ovfVars PROVE Typed'
  BY DEF OvfTypeOK, Attempt
<1>0. Typed
  OBVIOUS
<1>1. CASE LeaseReady
  BY <1>0, <1>1 DEF LeaseReady, OvfPlace, Waits, Attempt
<1>2. CASE LeaseErrors
  BY <1>0, <1>2 DEF LeaseErrors, OvfPlace, Waits, Attempt
<1>3. CASE LeaseExpires
  BY <1>0, <1>3 DEF LeaseExpires, LeaseErrors, OvfPlace, Waits, Attempt
<1>4. CASE TaskEnds
  BY <1>0, <1>4 DEF TaskEnds, OvfPlace, Waits, Attempt
<1>5. CASE UserDestroys
  BY <1>0, <1>5 DEF UserDestroys, OvfPlace, Waits, Attempt
<1>6. CASE ConnectionFlips
  BY <1>0, <1>6 DEF ConnectionFlips, OvfPlace, Waits, Attempt
<1>7. CASE Tell
  BY <1>0, <1>7 DEF Tell, OvfPlace, Waits, Attempt
<1>8. CASE Rearm
  BY <1>0, <1>8 DEF Rearm, OvfPlace, Waits, Attempt
<1>9. CASE Begin
  BY <1>0, <1>9, AtTyped DEF Begin, FirstPlace, ProcessGoes, OvfPlace, Waits, Attempt
<1>10. CASE Again
  BY <1>0, <1>10, AtTyped DEF Again, FirstPlace, ProcessGoes, OvfPlace, Waits, Attempt
<1>11. CASE GivesUp
  BY <1>0, <1>11, AtTyped, StoredTyped DEF GivesUp, Fails, OvfPlace, Waits, Attempt
<1>12. CASE Crash
  BY <1>0, <1>12, AtTyped DEF Crash, OvfPlace, Waits, Attempt
<1>13. CASE InputsRefused
  BY <1>0, <1>13, AtTyped, StoredTyped DEF InputsRefused, Fails, OvfPlace, Waits,
     Attempt
<1>14. CASE NameRefused
  BY <1>0, <1>14, AtTyped, StoredTyped DEF NameRefused, Raises, OvfPlace, Waits, Attempt
<1>15. CASE ImportVApp
  BY <1>0, <1>15, GoesOnTyped DEF ImportVApp, OvfPlace, Waits
<1>16. CASE LeaseRefused
  BY <1>0, <1>16, AtTyped, StoredTyped DEF LeaseRefused, Fails, OvfPlace, Waits, Attempt
<1>17. CASE StartTimer
  <2>1. worker' = [worker EXCEPT !.at = "upload", !.left = Disks] /\ Disks \in 0 .. Disks
    BY <1>17, OvfAssumption DEF StartTimer
  <2>2. worker' \in Attempt
    BY <1>0, <2>1 DEF Attempt, OvfPlace
  <2>3. QED
    BY <1>0, <1>17, <2>2 DEF StartTimer
<1>18. CASE Upload
  <2>1. worker.left \in 0 .. Disks /\ worker.left > 0
    BY <1>0, <1>18 DEF Upload, Attempt
  <2>2. worker' = [worker EXCEPT !.left = worker.left - 1] /\ worker.left - 1 \in 0 .. Disks
    BY <1>18, <2>1, OvfAssumption DEF Upload
  <2>3. worker' \in Attempt
    BY <1>0, <2>2 DEF Attempt
  <2>4. QED
    BY <1>0, <1>18, <2>3 DEF Upload
<1>19. CASE UploadEnds
  BY <1>0, <1>19, GoesOnTyped DEF UploadEnds, OvfPlace, Waits
<1>20. CASE UploadFails
  BY <1>0, <1>20, GoesOnTyped DEF UploadFails, OvfPlace, Waits
<1>21. CASE Complete
  BY <1>0, <1>21, GoesOnTyped DEF Complete, OvfPlace, Waits
<1>22. CASE Abort
  BY <1>0, <1>22, AtTyped DEF Abort, OvfPlace, Waits, Attempt
<1>23. CASE AbortRaises
  BY <1>0, <1>23, AtTyped DEF AbortRaises, OvfPlace, Waits, Attempt
<1>24. CASE Find
  <2>1. worker' \in Attempt
    BY <1>0, <1>24 DEF Find, Attempt, OvfPlace
  <2>2. QED
    BY <1>0, <1>24, <2>1 DEF Find
<1>25. CASE Running
  BY <1>0, <1>25, AtTyped, StoredTyped DEF Running, OvfPlace, Waits, Attempt
<1>26. CASE NoDeferred
  BY <1>0, <1>26, GoesOnTyped DEF NoDeferred, OvfPlace, Waits
<1>27. CASE NotKnown
  BY <1>0, <1>27, AtTyped, StoredTyped DEF NotKnown, Raises, OvfPlace, Waits, Attempt
<1>28. CASE Look
  BY <1>0, <1>28, GoesOnTyped DEF Look, OvfPlace, Waits
<1>29. CASE CallRaises
  BY <1>0, <1>29, AtTyped, StoredTyped DEF CallRaises, Raises, OvfPlace, Waits, Attempt
<1>30. CASE MachineGone
  BY <1>0, <1>30, AtTyped, StoredTyped DEF MachineGone, Raises, OvfPlace, Waits, Attempt
<1>31. CASE Launch
  BY <1>0, <1>31, GoesOnTyped DEF Launch, OvfPlace, Waits
<1>32. CASE SaveTask
  <2>1. worker' \in Attempt
    BY <1>0, <1>32, GoesOnTyped DEF SaveTask, OvfPlace, Waits
  <2>2. props' \in [id : BOOLEAN, task : BOOLEAN]
    BY <1>0, <1>32, StoredTyped DEF SaveTask
  <2>3. QED
    BY <1>0, <1>32, <2>1, <2>2 DEF SaveTask
<1>33. CASE TimesOut
  BY <1>0, <1>33, AtTyped, StoredTyped DEF TimesOut, Raises, OvfPlace, Waits, Attempt
<1>34. CASE WaitEnds
  <2>1. Stored \in [id : BOOLEAN, task : BOOLEAN] /\ worker.op \in {"create", "delete"}
    BY <1>0, StoredTyped DEF Attempt
  <2>2. CASE Following = "idle"
    <3>1. worker' \in Attempt
      BY <1>34, <2>1, <2>2, AtTyped DEF WaitEnds, OvfPlace
    <3>2. /\ NoProps \in [id : BOOLEAN, task : BOOLEAN]
          /\ [Stored EXCEPT !.task = FALSE] \in [id : BOOLEAN, task : BOOLEAN]
      BY <2>1 DEF NoProps
    <3>3. props' = NoProps \/ props' = [Stored EXCEPT !.task = FALSE]
      BY <1>34, <2>2 DEF WaitEnds
    <3>4. QED
      BY <1>0, <1>34, <3>1, <3>2, <3>3 DEF WaitEnds
  <2>3. CASE Following # "idle"
    <3>1. Following \in OvfPlace
      BY DEF Following, OvfPlace
    <3>2. worker' \in Attempt
      BY <1>0, <1>34, <2>3, <3>1, GoesOnTyped DEF WaitEnds
    <3>3. props' \in [id : BOOLEAN, task : BOOLEAN]
      BY <1>0, <1>34, <2>3 DEF WaitEnds
    <3>4. QED
      BY <1>0, <1>34, <3>2, <3>3 DEF WaitEnds
  <2>4. QED
    BY <2>2, <2>3
<1>35. CASE WaitFails
  <2>1. Stored \in [id : BOOLEAN, task : BOOLEAN] /\ worker.op \in {"create", "delete"}
    BY <1>0, StoredTyped DEF Attempt
  <2>2. worker' \in Attempt
    BY <1>35, <2>1, AtTyped DEF WaitFails, OvfPlace
  <2>3. props' \in [id : BOOLEAN, task : BOOLEAN]
    BY <1>35, <2>1 DEF WaitFails
  <2>4. QED
    BY <1>0, <1>35, <2>2, <2>3 DEF WaitFails
<1>36. CASE UNCHANGED ovfVars
  BY <1>0, <1>36 DEF ovfVars
<1>37. QED
  BY <1>1, <1>2, <1>3, <1>4, <1>5, <1>6, <1>7, <1>8, <1>9, <1>10, <1>11, <1>12, <1>13,
     <1>14, <1>15, <1>16, <1>17, <1>18, <1>19, <1>20, <1>21, <1>22, <1>23, <1>24, <1>25,
     <1>26, <1>27, <1>28, <1>29, <1>30, <1>31, <1>32, <1>33, <1>34, <1>35, <1>36 DEF
     OvfNext, Worker, Create, Delete, Timer

LEMMA LeaseKeptStep ==
    OvfTypeOK /\ LeaseKept /\ [OvfNext]_ovfVars => LeaseKept'
<1> SUFFICES ASSUME OvfTypeOK, LeaseKept, [OvfNext]_ovfVars PROVE LeaseKept'
  OBVIOUS
<1>0. /\ worker \in Attempt
      /\ lease = "initializing" => timer = "off"
      /\ lease = "ready" /\ timer # "off" /\ ~stranded => worker.at \in Uploading
  BY DEF OvfTypeOK, LeaseKept, Attempt
<1>1. CASE LeaseReady
  BY <1>0, <1>1 DEF LeaseReady, LeaseKept, Uploading, Attempt
<1>2. CASE LeaseErrors
  BY <1>0, <1>2 DEF LeaseErrors, LeaseKept, Uploading, Attempt
<1>3. CASE LeaseExpires
  BY <1>0, <1>3 DEF LeaseExpires, LeaseErrors, LeaseKept, Uploading, Attempt
<1>4. CASE TaskEnds
  BY <1>0, <1>4 DEF TaskEnds, LeaseKept, Uploading, Attempt
<1>5. CASE UserDestroys
  BY <1>0, <1>5 DEF UserDestroys, LeaseKept, Uploading, Attempt
<1>6. CASE ConnectionFlips
  BY <1>0, <1>6 DEF ConnectionFlips, LeaseKept, Uploading, Attempt
<1>7. CASE Tell
  BY <1>0, <1>7 DEF Tell, LeaseKept, Uploading, Attempt
<1>8. CASE Rearm
  BY <1>0, <1>8 DEF Rearm, LeaseKept, Uploading, Attempt
<1>9. CASE Begin
  BY <1>0, <1>9 DEF Begin, FirstPlace, ProcessGoes, LeaseKept, Uploading, At, Attempt
<1>10. CASE Again
  BY <1>0, <1>10 DEF Again, FirstPlace, ProcessGoes, LeaseKept, Uploading, At, Attempt
<1>11. CASE GivesUp
  BY <1>0, <1>11 DEF GivesUp, Fails, LeaseKept, Uploading, At, Attempt
<1>12. CASE Crash
  BY <1>0, <1>12 DEF Crash, LeaseKept, Uploading, At, Attempt
<1>13. CASE InputsRefused
  BY <1>0, <1>13 DEF InputsRefused, Fails, LeaseKept, Uploading, At, Attempt
<1>14. CASE NameRefused
  BY <1>0, <1>14 DEF NameRefused, Raises, LeaseKept, Uploading, At, Attempt
<1>15. CASE ImportVApp
  BY <1>0, <1>15 DEF ImportVApp, LeaseKept, Uploading, GoesOn, Attempt
<1>16. CASE LeaseRefused
  BY <1>0, <1>16 DEF LeaseRefused, Fails, LeaseKept, Uploading, At, Attempt
<1>17. CASE StartTimer
  BY <1>0, <1>17 DEF StartTimer, LeaseKept, Uploading, Attempt
<1>18. CASE Upload
  BY <1>0, <1>18 DEF Upload, LeaseKept, Uploading, Attempt
<1>19. CASE UploadEnds
  BY <1>0, <1>19 DEF UploadEnds, LeaseKept, Uploading, GoesOn, Attempt
<1>20. CASE UploadFails
  BY <1>0, <1>20 DEF UploadFails, LeaseKept, Uploading, GoesOn, Attempt
<1>21. CASE Complete
  BY <1>0, <1>21 DEF Complete, LeaseKept, Uploading, GoesOn, Attempt
<1>22. CASE Abort
  BY <1>0, <1>22 DEF Abort, LeaseKept, Uploading, At, Attempt
<1>23. CASE AbortRaises
  BY <1>0, <1>23 DEF AbortRaises, LeaseKept, Uploading, At, Attempt
<1>24. CASE Find
  BY <1>0, <1>24 DEF Find, LeaseKept, Uploading, Attempt
<1>25. CASE Running
  BY <1>0, <1>25 DEF Running, LeaseKept, Uploading, At, Attempt
<1>26. CASE NoDeferred
  BY <1>0, <1>26 DEF NoDeferred, LeaseKept, Uploading, GoesOn, Attempt
<1>27. CASE NotKnown
  BY <1>0, <1>27 DEF NotKnown, Raises, LeaseKept, Uploading, At, Attempt
<1>28. CASE Look
  BY <1>0, <1>28 DEF Look, LeaseKept, Uploading, GoesOn, Attempt
<1>29. CASE CallRaises
  BY <1>0, <1>29 DEF CallRaises, Raises, LeaseKept, Uploading, At, Attempt
<1>30. CASE MachineGone
  BY <1>0, <1>30 DEF MachineGone, Raises, LeaseKept, Uploading, At, Attempt
<1>31. CASE Launch
  BY <1>0, <1>31 DEF Launch, LeaseKept, Uploading, GoesOn, Attempt
<1>32. CASE SaveTask
  BY <1>0, <1>32 DEF SaveTask, LeaseKept, Uploading, GoesOn, Attempt
<1>33. CASE TimesOut
  BY <1>0, <1>33 DEF TimesOut, Raises, LeaseKept, Uploading, At, Attempt, Waits
<1>34. CASE WaitEnds
  BY <1>0, <1>34 DEF WaitEnds, Following, LeaseKept, Uploading, GoesOn, At, Attempt,
     Waits
<1>35. CASE WaitFails
  BY <1>0, <1>35 DEF WaitFails, LeaseKept, Uploading, At, Attempt, Waits
<1>36. CASE UNCHANGED ovfVars
  BY <1>0, <1>36 DEF ovfVars, LeaseKept
<1>37. QED
  BY <1>1, <1>2, <1>3, <1>4, <1>5, <1>6, <1>7, <1>8, <1>9, <1>10, <1>11, <1>12, <1>13,
     <1>14, <1>15, <1>16, <1>17, <1>18, <1>19, <1>20, <1>21, <1>22, <1>23, <1>24, <1>25,
     <1>26, <1>27, <1>28, <1>29, <1>30, <1>31, <1>32, <1>33, <1>34, <1>35, <1>36 DEF
     OvfNext, Worker, Create, Delete, Timer

\* The inductive invariant.
THEOREM OvfInvariance ==
    OvfSpec => [](OvfTypeOK /\ LeaseKept)
<1>1. OvfInit => OvfTypeOK /\ LeaseKept
  <2> SUFFICES ASSUME OvfInit PROVE OvfTypeOK /\ LeaseKept
    OBVIOUS
  <2>1. worker \in Attempt
    BY AtTyped DEF OvfInit, OvfPlace
  <2>2. OvfTypeOK
    BY <2>1 DEF OvfInit, OvfTypeOK, Attempt, NoProps
  <2>3. QED
    BY <2>2 DEF OvfInit, LeaseKept
<1>2. OvfTypeOK /\ LeaseKept /\ [OvfNext]_ovfVars => (OvfTypeOK /\ LeaseKept)'
  BY OvfTypeOKStep, LeaseKeptStep
<1>3. QED
  BY <1>1, <1>2, PTL DEF OvfSpec

\* The variables stay within their types: no disk is uploaded that the package has not.
THEOREM OvfTypeCorrect ==
    OvfSpec => []OvfTypeOK
  BY OvfInvariance, PTL

\* A lease that the timer keeps alive is one whose worker still uploads, and goes on to
\* complete or abort it; every other one has been left to expire, except when the Abort
\* itself did not reach vSphere.
THEOREM NobodyElseKeepsALease ==
    OvfSpec => [](lease = "ready" /\ timer # "off" /\ ~stranded => worker.at \in Uploading)
<1>1. LeaseKept => (lease = "ready" /\ timer # "off" /\ ~stranded => worker.at \in Uploading)
  BY DEF LeaseKept
<1>2. QED
  BY <1>1, OvfInvariance, PTL

=============================================================================
