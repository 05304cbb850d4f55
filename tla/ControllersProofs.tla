-------------------------- MODULE ControllersProofs --------------------------
(***************************************************************************)
(* Theorems about Controllers, for any cards and controllers, any classes  *)
(* of devices and any numbers of keys, tasks and crashes.                  *)
(*                                                                         *)
(* The invariant has two layers.  Shape and Results hold of every          *)
(* instance: which place goes with which operation and task, what a fresh  *)
(* copy of properties says about the stored ones, whose the stored task    *)
(* ids are, and what vSphere made of the tasks.  Life holds of each        *)
(* instance that is not excused, and follows its one device from           *)
(* known_keys to busKey: whoever noted its keys made at most one device,   *)
(* which is the only one of its class that is not among them.              *)
(*                                                                         *)
(* The worker's own steps and those of the others are apart: the lemmas    *)
(* <Action>Effect say what an action does to its own instance, and Leaves  *)
(* that the action of another one takes nothing from it, or excuses it.    *)
(***************************************************************************)
EXTENDS Controllers, WellFoundedInduction, TLAPS

Owner == Node \union {Server}
Known == (SUBSET Key) \union {Absent}
Job == [op : {"attach", "detach"}, at : Place,
        outcome : {"none", "ok", "failed", "missing"},
        known : Known, key : 0 .. MaxKey, task : 0 .. MaxTask, copy : {"none", "fresh", "old"}]
Properties == [known : Known, task : 0 .. MaxTask, noted : Node \union {Nobody}]
Reconfigure == [state : {"unused", "running", "success", "error"},
                kind : {"add", "remove"}, by : Node \union {Nobody}, key : 0 .. MaxKey]
Device == [by : Node \union {Template, Nobody}, type : Type]

Types ==
    /\ device \in [Key -> Device]
    /\ store \in [Owner -> Properties]
    /\ bus \in [Node -> 0 .. MaxKey]
    /\ task \in [Task -> Reconfigure]
    /\ work \in [Node -> Job]
    /\ window \in SUBSET Node
    /\ excused \in SUBSET (Node \union {Template, Nobody})
    /\ blamed \in SUBSET Node
    /\ faults \in 0 .. MaxFaults

-----------------------------------------------------------------------------

\* The instance whose properties hold known_keys of n.
Shelf(n) == IF n \in Card THEN Server ELSE n

\* The known_keys that are stored are those n noted.
HasNoted(n) == store[Shelf(n)].noted = n

-----------------------------------------------------------------------------
(* What holds of every instance *)

\* Operations, places, tasks and busKey of an instance fit together.
Fits(n) ==
    /\ work[n].at \in {"note", "start", "find", "drop", "keep"} => work[n].op = "attach"
    /\ work[n].at = "unkey" => work[n].op = "detach"
    /\ work[n].at \notin {"idle", "dispatch"} => (work[n].op = "attach" <=> bus[n] = NoKey)
    /\ work[n].at # "idle" => work[n].outcome = "none"
    /\ work[n].at = "deferred" => work[n].task \in Task /\ task[work[n].task].state # "unused"
    /\ work[n].at \in {"save", "poll"} =>
          /\ work[n].task \in Task
          /\ task[work[n].task].state # "unused"
          /\ task[work[n].task].by = n
          /\ task[work[n].task].kind = IF work[n].op = "attach" THEN "add" ELSE "remove"

\* What a fresh copy says is still so.
Fresh(n) ==
    /\ work[n].at = "deferred" => work[n].copy # "none"
    /\ work[n].at = "note" => work[n].known # Absent
    /\ work[n].at = "idle" => work[n].copy = "none"
    /\ work[n].copy = "fresh" =>
          /\ work[n].at = "deferred" => store[Home(n)].task = work[n].task
          /\ work[n].at \in {"look", "deferred"} /\ work[n].op = "attach" =>
                store[Home(n)].known = work[n].known
          /\ work[n].at = "note" => store[Home(n)].noted \in excused \union {Nobody}

\* Stored task ids are those of tasks, and known_keys are where their owner keeps them.
Kept(i) ==
    /\ store[i].task # NoTask => task[store[i].task].state # "unused"
    /\ store[i].known = Absent <=> store[i].noted = Nobody
    /\ store[i].noted # Nobody => i = Shelf(store[i].noted)

Shape ==
    /\ \A n \in Node : Fits(n) /\ Fresh(n)
    /\ \A i \in Node \union {Server} : Kept(i)

\* What vSphere made of the tasks.
Results ==
    /\ \A t \in Task : task[t].state # "unused" => task[t].by \in Node
    /\ \A t \in Task :
          task[t].state # "unused" /\ task[t].kind = "remove" => task[t].key \in Key
    /\ \A t \in Task : task[t].state = "error" /\ task[t].kind = "add" => task[t].by \in blamed
    /\ \A k \in Key : device[k].by \in Node => device[k].type = TypeOf[device[k].by]

-----------------------------------------------------------------------------
(* What holds of an instance that is not excused *)

\* A task of n that runs is known, and it is the only one.
Watched(n) ==
    \A t \in Task :
       task[t].state = "running" /\ task[t].by = n =>
          /\ work[n].at \in {"save", "poll", "dispatch", "deferred"}
          /\ work[n].at \in {"save", "poll"} => work[n].task = t
          /\ work[n].at # "save" => store[Home(n)].task = t
          /\ task[t].kind = IF work[n].op = "attach" THEN "add" ELSE "remove"
          /\ task[t].kind = "add" => HasNoted(n) /\ MadeBy(n) = {}
          /\ task[t].kind = "remove" => task[t].key = bus[n] /\ MadeBy(n) = {bus[n]}

\* The id of a task of n is stored only while n is to wait for it.
Filed(n) ==
    \A i \in Node \union {Server} :
       store[i].task # NoTask /\ task[store[i].task].by = n =>
          /\ i = Home(n)
          /\ work[n].at \in {"poll", "dispatch", "deferred"}
          /\ work[n].op = "attach" <=> bus[n] = NoKey
          /\ task[store[i].task].kind = IF work[n].op = "attach" THEN "add" ELSE "remove"
          /\ task[store[i].task].state = "error" /\ work[n].op = "attach" => MadeBy(n) = {}

Runs(n) == \E t \in Task : task[t].state = "running" /\ task[t].by = n

\* Once n has noted the keys, its own device is the only one of its class with
\* another key, and it is there when its task has ended, unless that failed.
Noticed(n) ==
    HasNoted(n) =>
       /\ n \in window
       /\ bus[n] = NoKey
       /\ work[n].at \notin {"note", "keep"}
       /\ OfType(TypeOf[n]) \subseteq store[Shelf(n)].known \union MadeBy(n)
       /\ MadeBy(n) \cap store[Shelf(n)].known = {}
       /\ work[n].at \in {"start", "save", "poll", "find", "drop"} =>
             work[n].known = store[Shelf(n)].known
       /\ work[n].at \in {"look", "deferred"} /\ work[n].op = "attach" /\ work[n].copy # "none" =>
             work[n].known = store[Shelf(n)].known
       /\ work[n].at = "start" => MadeBy(n) = {}
       /\ Runs(n) \/ work[n].at = "start" \/ MadeBy(n) # {} \/ n \in blamed

\* Where the device of n is on its way.
Placed(n) ==
    /\ \A j, k \in MadeBy(n) : j = k
    /\ work[n].op = "attach" /\ work[n].at \in {"start", "save", "poll", "find", "drop"} =>
          HasNoted(n)
    /\ work[n].at = "note" =>
          n \in window /\ OfType(TypeOf[n]) \subseteq work[n].known /\ MadeBy(n) = {}
    /\ work[n].op = "attach" /\ bus[n] = NoKey /\ work[n].at # "keep" /\ ~HasNoted(n) =>
          MadeBy(n) = {}
    /\ work[n].at \in {"save", "poll"} /\ work[n].op = "attach" /\
          task[work[n].task].state = "error" => MadeBy(n) = {}
    /\ work[n].at \in {"save", "poll"} /\ work[n].op = "detach" /\
          task[work[n].task].state = "success" => MadeBy(n) = {}
    /\ work[n].at = "drop" => MadeBy(n) = {work[n].key}
    /\ work[n].at = "keep" => MadeBy(n) = {work[n].key}
    /\ bus[n] = NoKey /\ (work[n].op = "detach" \/ work[n].at = "idle") => MadeBy(n) = {}
    /\ bus[n] # NoKey =>
          \/ MadeBy(n) = {bus[n]}
          \/ MadeBy(n) = {} /\ device[bus[n]].by = Nobody /\ work[n].op = "detach"
    /\ bus[n] # NoKey /\ work[n].op = "attach" => work[n].at = "idle" /\ work[n].outcome = "ok"
    /\ work[n].at = "unkey" => MadeBy(n) = {}
    /\ work[n].at = "idle" /\ work[n].outcome = "ok" => (work[n].op = "attach" <=> bus[n] # NoKey)

Life == \A n \in Node \ excused : Watched(n) /\ Filed(n) /\ Noticed(n) /\ Placed(n)

IInv == Types /\ Shape /\ Results /\ Life /\ NotFoundHasReason

-----------------------------------------------------------------------------

USE ControllersAssumption

LEMMA SameTypes == TypeOK <=> Types
BY DEF TypeOK, Types, Owner, Job, Properties, Reconfigure, Device, Known

\* A set of numbers that is not empty has a least element, and Min chooses it.
LEMMA MinIsLeast ==
    ASSUME NEW T \in SUBSET Nat, T # {}
    PROVE  Min(T) \in T /\ \A y \in T : Min(T) <= y
<1>1. PICK x \in T : \A y \in T : ~(<<y, x>> \in OpToRel(<, Nat))
  BY NatLessThanWellFounded, WFMin
<1>2. ASSUME NEW y \in T
      PROVE  x <= y
  <2>1. y < x => <<y, x>> \in OpToRel(<, Nat)
    <3>1. <<y, x>> \in Nat \X Nat
      OBVIOUS
    <3> QED
      BY <3>1, Zenon DEF OpToRel
  <2>2. ~(y < x)
    BY <2>1, <1>1
  <2> QED
    BY <2>2
<1> QED
  BY <1>2 DEF Min

LEMMA Places ==
    /\ "idle" \in Place /\ "dispatch" \in Place /\ "deferred" \in Place /\ "look" \in Place
    /\ "note" \in Place /\ "start" \in Place /\ "save" \in Place /\ "poll" \in Place
    /\ "find" \in Place /\ "drop" \in Place /\ "keep" \in Place /\ "unkey" \in Place
BY DEF Place

LEMMA Numbers ==
    /\ NoKey \in 0 .. MaxKey /\ NoTask \in 0 .. MaxTask
    /\ Key \subseteq 0 .. MaxKey /\ Task \subseteq 0 .. MaxTask
    /\ {} \in Known /\ Absent \in Known
    /\ \A i \in 0 .. MaxTask : i # NoTask => i \in Task
    /\ \A k \in 0 .. MaxKey : k # NoKey => k \in Key
    /\ NoTask \notin Task /\ NoKey \notin Key
<1>1. /\ NoKey \in 0 .. MaxKey /\ NoTask \in 0 .. MaxTask
      /\ Key \subseteq 0 .. MaxKey /\ Task \subseteq 0 .. MaxTask
      /\ \A i \in 0 .. MaxTask : i # NoTask => i \in Task
      /\ \A k \in 0 .. MaxKey : k # NoKey => k \in Key
      /\ NoTask \notin Task /\ NoKey \notin Key
  BY DEF NoKey, NoTask, Key, Task
<1>2. {} \in Known /\ Absent \in Known
  BY DEF Known
<1> QED
  BY <1>1, <1>2

LEMMA TypeInit == Init => Types
<1> SUFFICES ASSUME Init
             PROVE  Types
  OBVIOUS
<1>1. Free \in Device
  BY DEF Free, Device
<1>2. device \in [Key -> Device]
  <2>1. \A c \in Type : [by |-> Template, type |-> c] \in Device
    BY DEF Device
  <2> QED
    BY <1>1, <2>1 DEF Init
<1>3. store \in [Owner -> Properties]
  BY Numbers DEF Init, NoneStored, Owner, Properties
<1>4. work \in [Node -> Job]
  BY Numbers, Places DEF Init, Idle, Job
<1>5. task \in [Task -> Reconfigure]
  BY Numbers DEF Init, Unused, Reconfigure
<1> QED
  BY <1>2, <1>3, <1>4, <1>5, Numbers DEF Init, Types

\* What a worker does next, and what update() stores, are of their types.
LEMMA WritesTypes ==
    ASSUME Types, NEW n \in Node, NEW p \in Properties, NEW j \in Job, Writes(n, p, j)
    PROVE  store' \in [Owner -> Properties] /\ work' \in [Node -> Job]
<1>1. \A m \in Node : [work[m] EXCEPT !.copy = "old"] \in Job
  BY DEF Types, Job
<1>2. work' \in [Node -> Job]
  BY <1>1 DEF Writes, Types
<1> QED
  BY <1>2 DEF Writes, Types

LEMMA Robbed ==
    ASSUME Types, NEW n \in Node, Robs(n)
    PROVE  excused' \in SUBSET (Node \union {Template, Nobody})
<1> DEFINE t == store[Home(n)].task
<1>1. t \in 0 .. MaxTask
  BY DEF Types, Home, Owner, Properties
<1>2. t \notin {NoTask, work[n].task} => task[t].by \in Node \union {Nobody}
  BY <1>1, Numbers DEF Types, Reconfigure
<1> QED
  BY <1>2 DEF Types, Robs

LEMMA WorkerTypes ==
    ASSUME Types, NEW n \in Node, Worker(n)
    PROVE  Types'
<1>1. /\ work[n] \in Job /\ work \in [Node -> Job]
      /\ Home(n) \in Owner /\ store[Home(n)] \in Properties
      /\ bus[n] \in 0 .. MaxKey /\ TypeOf[n] \in Type /\ bus \in [Node -> 0 .. MaxKey]
      /\ store[Home(n)].noted \in Node \union {Nobody}
      /\ work[n].op \in {"attach", "detach"}
  BY DEF Types, Home, Owner, Properties, Job
<1>2. \A op \in {"attach", "detach"}, o \in {"none", "ok", "failed", "missing"} :
         /\ Idle(op, o) \in Job
         /\ [Idle(op, o) EXCEPT !.at = "dispatch"] \in Job
  BY Numbers, Places DEF Idle, Job
<1>3. \A p \in Place : [work[n] EXCEPT !.at = p] \in Job /\ At(n, p) \in Job
  BY <1>1, Numbers DEF Job, At
<1>4. CASE Begin(n)
  <2>1. work' \in [Node -> Job]
    BY <1>1, <1>2, <1>3, <1>4, Numbers, Places DEF Begin, Goes, Ends, Retries
  <2> QED
    BY <1>1, <1>4, <2>1 DEF Begin, Types, Retries
<1>5. CASE Skips(n)
  <2>1. work' \in [Node -> Job]
    BY <1>1, <1>2, <1>3, <1>5, Numbers, Places DEF Skips, Goes, Ends, Retries
  <2> QED
    BY <1>1, <1>5, <2>1 DEF Skips, Types, Retries
<1>6. CASE Dispatch(n)
  <2> DEFINE j == [work[n] EXCEPT
                 !.copy = "fresh",
                 !.task = store[Home(n)].task,
                 !.at = IF store[Home(n)].task = NoTask THEN "look" ELSE "deferred",
                 !.known = IF work[n].op = "attach" THEN store[Home(n)].known ELSE {}]
  <2>1. j \in Job
    BY <1>1, Numbers, Places DEF Job, Properties
  <2>2. work' = [work EXCEPT ![n] = j]
    BY <1>6 DEF Dispatch
  <2>3. work' \in [Node -> Job]
    BY <1>1, <2>1, <2>2
  <2> QED
    BY <1>1, <1>6, <2>3 DEF Types, Dispatch
<1>7. CASE WaitTimesOut(n)
  <2>1. work' \in [Node -> Job]
    BY <1>1, <1>2, <1>3, <1>7, Numbers, Places DEF WaitTimesOut, Goes, Ends, Retries
  <2> QED
    BY <1>1, <1>7, <2>1 DEF WaitTimesOut, Types, Retries
<1>8. CASE Breaks(n)
  <2>1. work' \in [Node -> Job]
    BY <1>1, <1>2, <1>3, <1>8, Numbers, Places DEF Breaks, Goes, Ends, Retries
  <2> QED
    BY <1>1, <1>8, <2>1 DEF Breaks, Types, Retries
<1>9. CASE DeferredReturns(n)
  <2> DEFINE p == [store[Home(n)] EXCEPT !.task = NoTask]
             j == At(n, "look")
  <2>0. p \in Properties
    BY <1>1, Numbers DEF Properties
  <2>1. j \in Job
    BY <1>1, <1>2, <1>3, Places
  <2>2. Writes(n, p, j)
    BY <1>9 DEF DeferredReturns
  <2>3. store' \in [Owner -> Properties] /\ work' \in [Node -> Job]
    BY <2>0, <2>1, <2>2, WritesTypes
  <2> QED
    BY <1>1, <1>9, <2>3 DEF DeferredReturns, Types, Robs
<1>10. CASE DeferredFails(n)
  <2> DEFINE p == [store[Home(n)] EXCEPT !.task = NoTask]
             j == Idle(work[n].op, "failed")
  <2>0. p \in Properties
    BY <1>1, Numbers DEF Properties
  <2>1. j \in Job
    BY <1>1, <1>2, <1>3, Places
  <2>2. Writes(n, p, j)
    BY <1>10 DEF DeferredFails
  <2>3. store' \in [Owner -> Properties] /\ work' \in [Node -> Job]
    BY <2>0, <2>1, <2>2, WritesTypes
  <2> QED
    BY <1>1, <1>10, <2>3 DEF DeferredFails, Types, Robs
<1>11. CASE NoNetwork(n)
  <2>1. work' \in [Node -> Job]
    BY <1>1, <1>2, <1>3, <1>11, Numbers, Places DEF NoNetwork, Goes, Ends, Retries
  <2> QED
    BY <1>1, <1>11, <2>1 DEF NoNetwork, Types, Retries
<1>12. CASE Read(n)
  <2> DEFINE j == [work[n] EXCEPT !.at = "note", !.known = OfType(TypeOf[n]),
                 !.copy = IF work[n].copy = "none" THEN "fresh" ELSE work[n].copy]
  <2>1. j \in Job
    BY <1>1, Numbers, Places DEF Job, OfType, Known
  <2>2. work' = [work EXCEPT ![n] = j]
    BY <1>12 DEF Read, Looks, Job
  <2>3. work' \in [Node -> Job]
    BY <1>1, <2>1, <2>2
  <2> QED
    BY <1>1, <1>12, <2>3, <1>1 DEF Types, Read, Looks
<1>13. CASE AlreadyNoted(n)
  <2> DEFINE j == [work[n] EXCEPT !.at = "find", !.known = Noted(n),
                 !.copy = IF work[n].copy = "none" THEN "fresh" ELSE work[n].copy]
  <2>1. j \in Job
    BY <1>1, Numbers, Places DEF Job, Noted, Properties
  <2>2. work' = [work EXCEPT ![n] = j]
    BY <1>13 DEF AlreadyNoted, Looks, Job
  <2>3. work' \in [Node -> Job]
    BY <1>1, <2>1, <2>2
  <2> QED
    BY <1>1, <1>13, <2>3 DEF Types, AlreadyNoted, Looks
<1>14. CASE Note(n)
  <2> DEFINE p == [store[Home(n)] EXCEPT !.known = work[n].known, !.noted = n]
             j == At(n, "start")
  <2>0. p \in Properties
    <3>1. work[n].known \in Known
      BY <1>1 DEF Job
    <3> QED
      BY <1>1, <3>1 DEF Properties
  <2>1. j \in Job
    BY <1>1, <1>2, <1>3, Places
  <2>2. Writes(n, p, j)
    BY <1>14 DEF Note
  <2>3. store' \in [Owner -> Properties] /\ work' \in [Node -> Job]
    BY <2>0, <2>1, <2>2, WritesTypes
  <2> QED
    BY <1>1, <1>14, <2>3 DEF Note, Types, Robs
<1>15. CASE Start(n)
  <2>1. PICK t \in Task :
           /\ task' = [task EXCEPT ![t] =
                 [state |-> "running", kind |-> "add", by |-> n, key |-> NoKey]]
           /\ work' = [work EXCEPT ![n] = [@ EXCEPT !.task = t, !.at = "save", !.copy = "none"]]
    BY <1>15 DEF Start, Launches
  <2> DEFINE j == [work[n] EXCEPT !.task = t, !.at = "save", !.copy = "none"]
  <2>2. j \in Job
    BY <1>1, Numbers, Places DEF Job
  <2>3. work' \in [Node -> Job]
    BY <1>1, <2>1, <2>2
  <2>4. task' \in [Task -> Reconfigure]
    BY <1>1, <2>1, Numbers DEF Types, Reconfigure
  <2> QED
    BY <1>15, <2>3, <2>4 DEF Start, Types
<1>16. CASE SaveTask(n)
  <2> DEFINE p == [store[Home(n)] EXCEPT !.task = work[n].task]
             j == [At(n, "poll") EXCEPT !.task = work[n].task]
  <2>0. p \in Properties
    <3>1. work[n].task \in 0 .. MaxTask
      BY <1>1 DEF Job
    <3> QED
      BY <1>1, <3>1 DEF Properties
  <2>1. j \in Job
    <3>1. At(n, "poll") \in Job /\ work[n].task \in 0 .. MaxTask
      BY <1>1, <1>3, Places DEF Job
    <3> QED
      BY <3>1 DEF Job
  <2>2. Writes(n, p, j)
    BY <1>16 DEF SaveTask
  <2>3. store' \in [Owner -> Properties] /\ work' \in [Node -> Job]
    BY <2>0, <2>1, <2>2, WritesTypes
  <2> QED
    BY <1>1, <1>16, <2>3, Robbed DEF SaveTask, Types
<1>17. CASE ForgetTask(n)
  <2> DEFINE p == [store[Home(n)] EXCEPT !.task = NoTask]
             j == IF task[work[n].task].state = "error" THEN Idle(work[n].op, "failed")
                  ELSE At(n, IF work[n].op = "attach" THEN "find" ELSE "unkey")
  <2>0. p \in Properties
    BY <1>1, Numbers DEF Properties
  <2>1. j \in Job
    BY <1>1, <1>2, <1>3, Places
  <2>2. Writes(n, p, j)
    BY <1>17 DEF ForgetTask
  <2>3. store' \in [Owner -> Properties] /\ work' \in [Node -> Job]
    BY <2>0, <2>1, <2>2, WritesTypes
  <2> QED
    BY <1>1, <1>17, <2>3, Robbed DEF ForgetTask, Types
<1>18. CASE Find(n)
  <2>0. Min(NewKeys(n)) \in 0 .. MaxKey
    <3>1. NewKeys(n) \subseteq Key /\ NewKeys(n) # {} /\ Key \subseteq Nat
      BY <1>18 DEF Find, NewKeys, OfType, Key
    <3> QED
      BY <3>1, MinIsLeast, Numbers
  <2> DEFINE j == [work[n] EXCEPT !.key = Min(NewKeys(n)), !.at = "drop"]
  <2>1. j \in Job
    BY <1>1, <2>0, Numbers, Places DEF Job
  <2>2. work' = [work EXCEPT ![n] = j]
    BY <1>18 DEF Find
  <2>3. work' \in [Node -> Job]
    BY <1>1, <2>1, <2>2
  <2> QED
    BY <1>1, <1>18, <2>3 DEF Types, Find
<1>19. CASE NotFound(n)
  <2>1. work' \in [Node -> Job]
    BY <1>1, <1>2, <1>3, <1>19, Numbers, Places DEF NotFound, Goes, Ends, Retries
  <2> QED
    BY <1>1, <1>19, <2>1 DEF NotFound, Types, Retries
<1>20. CASE Drop(n)
  <2> DEFINE p == [store[Home(n)] EXCEPT !.known = Absent, !.noted = Nobody]
             j == [At(n, "keep") EXCEPT !.known = {}]
  <2>0. p \in Properties
    BY <1>1, Numbers DEF Properties
  <2>1. j \in Job
    <3>1. At(n, "keep") \in Job
      BY <1>3, Places
    <3> QED
      BY <3>1, Numbers DEF Job
  <2>2. Writes(n, p, j)
    BY <1>20 DEF Drop
  <2>3. store' \in [Owner -> Properties] /\ work' \in [Node -> Job]
    BY <2>0, <2>1, <2>2, WritesTypes
  <2> QED
    BY <1>1, <1>20, <2>3 DEF Drop, Types, Robs
<1>21. CASE Keep(n)
  <2>1. work' \in [Node -> Job]
    BY <1>1, <1>2, <1>3, <1>21, Numbers, Places DEF Keep, Goes, Ends, Retries
  <2> QED
    BY <1>1, <1>21, <2>1, Numbers DEF Keep, Types, Job
<1>22. CASE Detach(n)
  <2>1. PICK t \in Task :
           /\ task' = [task EXCEPT ![t] =
                 [state |-> "running", kind |-> "remove", by |-> n, key |-> bus[n]]]
           /\ work' = [work EXCEPT ![n] = [@ EXCEPT !.task = t, !.at = "save", !.copy = "none"]]
    BY <1>22 DEF Detach, Launches
  <2> DEFINE j == [work[n] EXCEPT !.task = t, !.at = "save", !.copy = "none"]
  <2>2. j \in Job
    BY <1>1, Numbers, Places DEF Job
  <2>3. work' \in [Node -> Job]
    BY <1>1, <2>1, <2>2
  <2>4. task' \in [Task -> Reconfigure]
    BY <1>1, <2>1, Numbers DEF Types, Reconfigure
  <2> QED
    BY <1>22, <2>3, <2>4 DEF Detach, Types
<1>23. CASE NothingToDetach(n)
  <2>1. work' \in [Node -> Job]
    BY <1>1, <1>2, <1>3, <1>23, Numbers, Places DEF NothingToDetach, Goes, Ends, Retries
  <2> QED
    BY <1>1, <1>23, <2>1 DEF NothingToDetach, Types, Retries
<1>24. CASE Unkey(n)
  <2>1. work' \in [Node -> Job]
    BY <1>1, <1>2, <1>3, <1>24, Numbers, Places DEF Unkey, Goes, Ends, Retries
  <2> QED
    BY <1>1, <1>24, <2>1, Numbers DEF Unkey, Types, Job
<1>25. CASE Crash(n)
  <2>1. work' \in [Node -> Job]
    BY <1>1, <1>2, <1>3, <1>25, Numbers, Places DEF Crash, Goes, Ends, Retries
  <2> QED
    BY <1>1, <1>25, <2>1 DEF Crash, Types, Retries
<1> QED
  BY <1>4, <1>5, <1>6, <1>7, <1>8, <1>9, <1>10, <1>11, <1>12, <1>13, <1>14, <1>15, <1>16, <1>17,
     <1>18, <1>19, <1>20, <1>21, <1>22, <1>23, <1>24, <1>25 DEF Worker

-----------------------------------------------------------------------------
(* What a step leaves alone *)

\* Instance m did not take the step, and nothing it fetched was overwritten unseen.
Still(m) ==
    /\ bus'[m] = bus[m]
    /\ work'[m].op = work[m].op
    /\ work'[m].at = work[m].at
    /\ work'[m].outcome = work[m].outcome
    /\ work'[m].known = work[m].known
    /\ work'[m].key = work[m].key
    /\ work'[m].task = work[m].task
    /\ work'[m].copy = work[m].copy \/ (work[m].copy = "fresh" /\ work'[m].copy = "old")
    /\ work'[m].copy = "fresh" => store'[Home(m)] = store[Home(m)]

\* A task that was started stays what it is.
TasksStay ==
    \A t \in Task :
       task[t].state # "unused" =>
          /\ task'[t].state # "unused"
          /\ task'[t].by = task[t].by
          /\ task'[t].kind = task[t].kind
          /\ task'[t].key = task[t].key

Grows == excused \subseteq excused' /\ blamed \subseteq blamed'

LEMMA HomeIsOwner ==
    ASSUME Types, NEW n \in Node
    PROVE  Home(n) \in Owner /\ (work[n].op = "attach" => Home(n) = Shelf(n))
BY DEF Home, Shelf, Owner

\* update() makes the copies of the others old.
LEMMA WritesStill ==
    ASSUME Types, NEW n \in Node, NEW p, NEW j, Writes(n, p, j), bus' = bus,
           NEW m \in Node, m # n
    PROVE  Still(m)
<1>1. work[m] \in Job /\ work \in [Node -> Job] /\ Home(m) \in Owner /\ Home(n) \in Owner
  BY HomeIsOwner DEF Types
<1>2. work'[m] = IF Home(m) = Home(n) /\ work[m].copy = "fresh"
                 THEN [work[m] EXCEPT !.copy = "old"] ELSE work[m]
  BY DEF Writes
<1>3. Home(m) # Home(n) => store'[Home(m)] = store[Home(m)]
  BY <1>1 DEF Writes, Types
<1>4. CASE Home(m) = Home(n) /\ work[m].copy = "fresh"
  <2>1. work'[m] = [work[m] EXCEPT !.copy = "old"]
    BY <1>2, <1>4
  <2> QED
    BY <1>1, <1>4, <2>1 DEF Still, Job
<1>5. CASE ~(Home(m) = Home(n) /\ work[m].copy = "fresh")
  <2>1. work'[m] = work[m]
    BY <1>2, <1>5
  <2> QED
    BY <1>3, <1>5, <2>1 DEF Still
<1> QED
  BY <1>4, <1>5

LEMMA OthersStill ==
    ASSUME Types, NEW n \in Node, Worker(n), NEW m \in Node, m # n
    PROVE  Still(m)
<1>1. work \in [Node -> Job] /\ bus \in [Node -> 0 .. MaxKey]
  BY DEF Types
<1>2. CASE Begin(n)
  BY <1>1, <1>2 DEF Begin, Still, Goes, Ends, Retries, Looks, Launches
<1>3. CASE Skips(n)
  BY <1>1, <1>3 DEF Skips, Still, Goes, Ends, Retries, Looks, Launches
<1>4. CASE Dispatch(n)
  BY <1>1, <1>4 DEF Dispatch, Still, Goes, Ends, Retries, Looks, Launches
<1>5. CASE WaitTimesOut(n)
  BY <1>1, <1>5 DEF WaitTimesOut, Still, Goes, Ends, Retries, Looks, Launches
<1>6. CASE Breaks(n)
  BY <1>1, <1>6 DEF Breaks, Still, Goes, Ends, Retries, Looks, Launches
<1>7. CASE DeferredReturns(n)
  BY <1>7, WritesStill DEF DeferredReturns
<1>8. CASE DeferredFails(n)
  BY <1>8, WritesStill DEF DeferredFails
<1>9. CASE NoNetwork(n)
  BY <1>1, <1>9 DEF NoNetwork, Still, Goes, Ends, Retries, Looks, Launches
<1>10. CASE Read(n)
  BY <1>1, <1>10 DEF Read, Still, Goes, Ends, Retries, Looks, Launches
<1>11. CASE AlreadyNoted(n)
  BY <1>1, <1>11 DEF AlreadyNoted, Still, Goes, Ends, Retries, Looks, Launches
<1>12. CASE Note(n)
  BY <1>12, WritesStill DEF Note
<1>13. CASE Start(n)
  BY <1>1, <1>13 DEF Start, Still, Goes, Ends, Retries, Looks, Launches
<1>14. CASE SaveTask(n)
  BY <1>14, WritesStill DEF SaveTask
<1>15. CASE ForgetTask(n)
  BY <1>15, WritesStill DEF ForgetTask
<1>16. CASE Find(n)
  BY <1>1, <1>16 DEF Find, Still, Goes, Ends, Retries, Looks, Launches
<1>17. CASE NotFound(n)
  BY <1>1, <1>17 DEF NotFound, Still, Goes, Ends, Retries, Looks, Launches
<1>18. CASE Drop(n)
  BY <1>18, WritesStill DEF Drop
<1>19. CASE Keep(n)
  BY <1>1, <1>19 DEF Keep, Still, Goes, Ends, Retries, Looks, Launches
<1>20. CASE Detach(n)
  BY <1>1, <1>20 DEF Detach, Still, Goes, Ends, Retries, Looks, Launches
<1>21. CASE NothingToDetach(n)
  BY <1>1, <1>21 DEF NothingToDetach, Still, Goes, Ends, Retries, Looks, Launches
<1>22. CASE Unkey(n)
  BY <1>1, <1>22 DEF Unkey, Still, Goes, Ends, Retries, Looks, Launches
<1>23. CASE Crash(n)
  BY <1>1, <1>23 DEF Crash, Still, Goes, Ends, Retries, Looks, Launches
<1> QED
  BY <1>2, <1>3, <1>4, <1>5, <1>6, <1>7, <1>8, <1>9, <1>10, <1>11, <1>12, <1>13, <1>14, <1>15,
     <1>16, <1>17, <1>18, <1>19, <1>20, <1>21, <1>22, <1>23 DEF Worker

LEMMA OnlyTwoLaunch ==
    ASSUME NEW n \in Node, Worker(n)
    PROVE  Start(n) \/ Detach(n) \/ UNCHANGED task
<1> SUFFICES ASSUME ~Start(n), ~Detach(n)
             PROVE  UNCHANGED task
  OBVIOUS
<1> QED
  BY DEF Worker, Begin, Skips, Dispatch, WaitTimesOut, Breaks, DeferredReturns, DeferredFails,
     NoNetwork, Read, AlreadyNoted, Note, SaveTask, ForgetTask, Find, NotFound, Drop, Keep,
     NothingToDetach, Unkey, Crash, Looks

LEMMA WorkerTasks ==
    ASSUME Types, NEW n \in Node, Worker(n)
    PROVE  \/ UNCHANGED task
           \/ \E t \in Task, kind \in {"add", "remove"}, key \in 0 .. MaxKey :
                 /\ task[t].state = "unused"
                 /\ task' = [task EXCEPT ![t] =
                       [state |-> "running", kind |-> kind, by |-> n, key |-> key]]
<1>1. bus[n] \in 0 .. MaxKey /\ NoKey \in 0 .. MaxKey
  BY Numbers DEF Types
<1>2. CASE Start(n)
  BY <1>1, <1>2 DEF Start, Launches
<1>3. CASE Detach(n)
  BY <1>1, <1>3 DEF Detach, Launches
<1> QED
  BY <1>2, <1>3, OnlyTwoLaunch

LEMMA WorkerFrame ==
    ASSUME Types, NEW n \in Node, Worker(n)
    PROVE  TasksStay /\ Grows /\ UNCHANGED <<device, blamed>>
<1>1. TasksStay
  <2>1. task \in [Task -> Reconfigure]
    BY DEF Types
  <2> QED
    BY <2>1, WorkerTasks DEF TasksStay
<1>2. Grows /\ UNCHANGED <<device, blamed>>
  BY DEF Grows, Worker, Retries, Robs, Looks, Begin, Skips, Dispatch, WaitTimesOut, Breaks,
     DeferredReturns, DeferredFails, NoNetwork, Read, AlreadyNoted, Note, Start, SaveTask,
     ForgetTask, Find, NotFound, Drop, Keep, Detach, NothingToDetach, Unkey, Crash
<1> QED
  BY <1>1, <1>2

LEMMA OnlyTheseWrite ==
    ASSUME NEW n \in Node, Worker(n)
    PROVE  \/ DeferredReturns(n) \/ DeferredFails(n) \/ Note(n) \/ SaveTask(n)
           \/ ForgetTask(n) \/ Drop(n) \/ UNCHANGED store
<1> SUFFICES ASSUME ~DeferredReturns(n), ~DeferredFails(n), ~Note(n), ~SaveTask(n),
                    ~ForgetTask(n), ~Drop(n)
             PROVE  UNCHANGED store
  OBVIOUS
<1> QED
  BY DEF Worker, Begin, Skips, Dispatch, WaitTimesOut, Breaks, NoNetwork, Read, AlreadyNoted,
     Start, Find, NotFound, Keep, Detach, NothingToDetach, Unkey, Crash, Looks

\* The history of who looks for a device loses only the one that found its own.
LEMMA WindowStays ==
    ASSUME NEW n \in Node, Worker(n), NEW m \in Node, m # n, m \in window
    PROVE  m \in window'
<1>1. CASE Read(n)
  BY <1>1 DEF Read
<1>2. CASE Drop(n)
  BY <1>2 DEF Drop
<1>3. CASE ~Read(n) /\ ~Drop(n)
  <2>1. UNCHANGED window
    BY <1>3 DEF Worker, Begin, Skips, Dispatch, WaitTimesOut, Breaks, DeferredReturns,
       DeferredFails, NoNetwork, AlreadyNoted, Note, Start, SaveTask, ForgetTask, Find, NotFound,
       Keep, Detach, NothingToDetach, Unkey, Crash
  <2> QED
    BY <2>1
<1> QED
  BY <1>1, <1>2, <1>3

Vsphere == \E t \in Task : AddEnds(t) \/ RemoveEnds(t) \/ TaskFails(t)

LEMMA VsphereFrame ==
    ASSUME Types, Results, Vsphere
    PROVE  /\ Types' /\ TasksStay /\ Grows
           /\ UNCHANGED <<store, bus, work, window, faults>>
           /\ \A m \in Node : Still(m)
<1>1. PICK t \in Task : AddEnds(t) \/ RemoveEnds(t) \/ TaskFails(t)
  BY DEF Vsphere
<1>2. /\ task[t] \in Reconfigure /\ task \in [Task -> Reconfigure]
      /\ task[t].state = "running" /\ task[t].by \in Node
      /\ device \in [Key -> Device]
  BY <1>1 DEF Types, Results, AddEnds, RemoveEnds, TaskFails, Reconfigure
<1>3. UNCHANGED <<store, bus, work, window, faults>>
  BY <1>1 DEF AddEnds, RemoveEnds, TaskFails
<1>4. \E r \in {"success", "error"} : task' = [task EXCEPT ![t].state = r]
  BY <1>1 DEF AddEnds, RemoveEnds, TaskFails
<1>5. TasksStay /\ task' \in [Task -> Reconfigure]
  BY <1>2, <1>4 DEF TasksStay, Reconfigure
<1>6. Described(task[t].by) \in Device /\ Free \in Device
  BY <1>2 DEF Described, Device, Free
<1>7. device' \in [Key -> Device]
  BY <1>1, <1>2, <1>6 DEF AddEnds, RemoveEnds, TaskFails
<1>8. Grows /\ blamed' \in SUBSET Node
  BY <1>1, <1>2 DEF AddEnds, RemoveEnds, TaskFails, Grows, Types
<1>9. excused' \in SUBSET (Node \union {Template, Nobody})
  <2>1. CASE AddEnds(t)
    BY <2>1 DEF AddEnds, Misleads, Types
  <2>2. CASE RemoveEnds(t)
    <3>1. task[t].key \in Key
      BY <1>2, <2>2 DEF RemoveEnds, Results
    <3>2. device[task[t].key].by \in Node \union {Template, Nobody}
      BY <1>2, <3>1 DEF Device
    <3> QED
      BY <2>2, <3>2 DEF RemoveEnds, Types
  <2>3. CASE TaskFails(t)
    BY <2>3 DEF TaskFails, Types
  <2> QED
    BY <1>1, <2>1, <2>2, <2>3
<1>10. \A m \in Node : Still(m)
  BY <1>3 DEF Still
<1> QED
  BY <1>3, <1>5, <1>7, <1>8, <1>9, <1>10 DEF Types

-----------------------------------------------------------------------------
(* What an operation does to its own instance *)

\* What the worker of n is at next.
Turns(n, op, at, outcome, copy) ==
    /\ work'[n].op = op
    /\ work'[n].at = at
    /\ work'[n].outcome = outcome
    /\ work'[n].copy = copy

\* What update() writes, and where.
LEMMA WritesEffect ==
    ASSUME Types, NEW n \in Node, NEW p, NEW j, Writes(n, p, j)
    PROVE  /\ work'[n] = j
           /\ store'[Home(n)] = p
           /\ \A i \in Owner : i # Home(n) => store'[i] = store[i]
BY HomeIsOwner DEF Writes, Types

LEMMA WorkTypes ==
    ASSUME Types, NEW n \in Node
    PROVE  /\ work[n] \in Job /\ work \in [Node -> Job]
           /\ Home(n) \in Owner /\ store[Home(n)] \in Properties
BY HomeIsOwner DEF Types

LEMMA IdleFields ==
    \A op, o :
       /\ Idle(op, o).op = op /\ Idle(op, o).at = "idle" /\ Idle(op, o).outcome = o
       /\ Idle(op, o).copy = "none"
       /\ [Idle(op, o) EXCEPT !.at = "dispatch"].op = op
       /\ [Idle(op, o) EXCEPT !.at = "dispatch"].at = "dispatch"
       /\ [Idle(op, o) EXCEPT !.at = "dispatch"].outcome = o
       /\ [Idle(op, o) EXCEPT !.at = "dispatch"].copy = "none"
BY DEF Idle

LEMMA RetriesEffect ==
    ASSUME Types, NEW n \in Node, Retries(n)
    PROVE  \/ Turns(n, work[n].op, "dispatch", "none", "none") /\ UNCHANGED excused
           \/ Turns(n, work[n].op, "idle", "failed", "none") /\ excused' = excused \union {n}
<1>1. CASE work' = [work EXCEPT ![n] = [Idle(work[n].op, "none") EXCEPT !.at = "dispatch"]]
           /\ UNCHANGED excused
  <2>1. work'[n] = [Idle(work[n].op, "none") EXCEPT !.at = "dispatch"]
    BY <1>1, WorkTypes
  <2>2. Turns(n, work[n].op, "dispatch", "none", "none")
    BY <2>1, IdleFields DEF Turns
  <2> QED
    BY <1>1, <2>2
<1>2. CASE Ends(n, "failed") /\ excused' = excused \union {n}
  <2>1. work'[n] = Idle(work[n].op, "failed")
    BY <1>2, WorkTypes DEF Ends
  <2> QED
    BY <1>2, <2>1, IdleFields DEF Turns
<1> QED
  BY <1>1, <1>2 DEF Retries

LEMMA BeginEffect ==
    ASSUME Types, NEW n \in Node, Begin(n)
    PROVE  /\ work[n].at = "idle"
           /\ \E op \in {"attach", "detach"} :
              MayBegin(n, op) /\ Turns(n, op, "dispatch", "none", "none")
           /\ UNCHANGED <<device, store, bus, task, window, excused, blamed>>
<1>1. PICK op \in {"attach", "detach"} :
         /\ MayBegin(n, op)
         /\ work' = [work EXCEPT ![n] = [Idle(op, "none") EXCEPT !.at = "dispatch"]]
  BY DEF Begin
<1>2. Turns(n, op, "dispatch", "none", "none")
  BY <1>1, WorkTypes, IdleFields DEF Turns
<1>3. work[n].at = "idle" /\ UNCHANGED <<device, store, bus, task, window, excused, blamed>>
  BY DEF Begin
<1> QED
  BY <1>1, <1>2, <1>3

LEMMA SkipsEffect ==
    ASSUME Types, NEW n \in Node, Skips(n)
    PROVE  /\ work[n].at = "dispatch"
           /\ work[n].op = "attach" <=> bus[n] # NoKey
           /\ Turns(n, work[n].op, "idle", "ok", "none")
           /\ UNCHANGED <<device, store, bus, task, window, excused, blamed>>
BY WorkTypes, IdleFields DEF Skips, Turns, Ends

LEMMA DispatchEffect ==
    ASSUME Types, NEW n \in Node, Dispatch(n)
    PROVE  /\ work[n].at = "dispatch"
           /\ work[n].op = "attach" <=> bus[n] = NoKey
           /\ Turns(n, work[n].op, IF store[Home(n)].task = NoTask THEN "look" ELSE "deferred",
                 work[n].outcome, "fresh")
           /\ work'[n].task = store[Home(n)].task
           /\ work[n].op = "attach" => work'[n].known = store[Home(n)].known
           /\ UNCHANGED <<device, store, bus, task, window, excused, blamed>>
BY WorkTypes DEF Dispatch, Turns, Job

LEMMA WaitTimesOutEffect ==
    ASSUME Types, NEW n \in Node, WaitTimesOut(n)
    PROVE  /\ work[n].at \in {"deferred", "poll"}
           /\ \/ Turns(n, work[n].op, "dispatch", "none", "none") /\ UNCHANGED excused
              \/ Turns(n, work[n].op, "idle", "failed", "none") /\ excused' = excused \union {n}
           /\ UNCHANGED <<device, store, bus, task, window, blamed>>
BY RetriesEffect DEF WaitTimesOut

LEMMA BreaksEffect ==
    ASSUME Types, NEW n \in Node, Breaks(n)
    PROVE  /\ work[n].at \in {"deferred", "note", "drop", "poll"}
           /\ work[n].at \in {"deferred", "poll"} => task[work[n].task].state # "running"
           /\ \/ Turns(n, work[n].op, "dispatch", "none", "none") /\ UNCHANGED excused
              \/ Turns(n, work[n].op, "idle", "failed", "none") /\ excused' = excused \union {n}
           /\ UNCHANGED <<device, store, bus, task, window, blamed>>
BY RetriesEffect DEF Breaks

LEMMA DeferredReturnsEffect ==
    ASSUME Types, NEW n \in Node, DeferredReturns(n)
    PROVE  /\ work[n].at = "deferred"
           /\ task[work[n].task].state # "running"
           /\ work[n].copy = "fresh"
           /\ Turns(n, work[n].op, "look", work[n].outcome, "none")
           /\ work'[n].known = work[n].known /\ work'[n].key = work[n].key /\ work'[n].task = NoTask
           /\ store'[Home(n)].known = store[Home(n)].known
           /\ store'[Home(n)].task = NoTask
           /\ store'[Home(n)].noted = store[Home(n)].noted
           /\ \A i \in Owner : i # Home(n) => store'[i] = store[i]
           /\ UNCHANGED <<device, bus, task, window, blamed>>
           /\ UNCHANGED excused
<1>1. Writes(n, [store[Home(n)] EXCEPT !.task = NoTask],
              At(n, "look"))
  BY DEF DeferredReturns
<1>2. /\ work'[n] = (At(n, "look"))
      /\ store'[Home(n)] = [store[Home(n)] EXCEPT !.task = NoTask]
      /\ \A i \in Owner : i # Home(n) => store'[i] = store[i]
  BY <1>1, WritesEffect
<1> QED
  BY <1>2, WorkTypes DEF DeferredReturns, At, Idle, Turns, Job, Properties

LEMMA DeferredFailsEffect ==
    ASSUME Types, NEW n \in Node, DeferredFails(n)
    PROVE  /\ work[n].at = "deferred"
           /\ task[work[n].task].state = "error"
           /\ work[n].copy = "fresh"
           /\ Turns(n, work[n].op, "idle", "failed", "none")
           /\ store'[Home(n)].known = store[Home(n)].known
           /\ store'[Home(n)].task = NoTask
           /\ store'[Home(n)].noted = store[Home(n)].noted
           /\ \A i \in Owner : i # Home(n) => store'[i] = store[i]
           /\ UNCHANGED <<device, bus, task, window, blamed>>
           /\ excused' = IF task[work[n].task].by = n THEN excused ELSE excused \union {n}
<1>1. Writes(n, [store[Home(n)] EXCEPT !.task = NoTask],
              Idle(work[n].op, "failed"))
  BY DEF DeferredFails
<1>2. /\ work'[n] = (Idle(work[n].op, "failed"))
      /\ store'[Home(n)] = [store[Home(n)] EXCEPT !.task = NoTask]
      /\ \A i \in Owner : i # Home(n) => store'[i] = store[i]
  BY <1>1, WritesEffect
<1>3. Turns(n, work[n].op, "idle", "failed", "none")
  BY <1>2, IdleFields DEF Turns
<1> QED
  BY <1>2, <1>3, WorkTypes DEF DeferredFails, Properties

LEMMA NoNetworkEffect ==
    ASSUME Types, NEW n \in Node, NoNetwork(n)
    PROVE  /\ work[n].at = "look"
           /\ work[n].op = "attach"
           /\ Turns(n, "attach", "idle", "failed", "none")
           /\ excused' = IF store[Home(n)].noted = n THEN excused \union {n} ELSE excused
           /\ UNCHANGED <<device, store, bus, task, window, blamed>>
BY WorkTypes, IdleFields DEF NoNetwork, Turns, Ends

LEMMA ReadEffect ==
    ASSUME Types, NEW n \in Node, Read(n)
    PROVE  /\ work[n].at = "look"
           /\ work[n].op = "attach"
           /\ Noted(n) \in {Absent, {}}
           /\ Turns(n, "attach", "note", work[n].outcome,
                 IF work[n].copy = "none" THEN "fresh" ELSE work[n].copy)
           /\ work'[n].known = OfType(TypeOf[n])
           /\ excused' = IF Noted(n) = Absent THEN excused
                         ELSE excused \union {n, store[Home(n)].noted}
           /\ window' = window \union {n}
           /\ UNCHANGED <<device, store, bus, task, blamed>>
BY WorkTypes DEF Read, Turns, Job, Looks

LEMMA AlreadyNotedEffect ==
    ASSUME Types, NEW n \in Node, AlreadyNoted(n)
    PROVE  /\ work[n].at = "look"
           /\ work[n].op = "attach"
           /\ Noted(n) \notin {Absent, {}}
           /\ Turns(n, "attach", "find", work[n].outcome,
                 IF work[n].copy = "none" THEN "fresh" ELSE work[n].copy)
           /\ work'[n].known = Noted(n)
           /\ excused' = IF store[Home(n)].noted = n THEN excused
                         ELSE excused \union {n, store[Home(n)].noted}
           /\ UNCHANGED <<device, store, bus, task, window, blamed>>
BY WorkTypes DEF AlreadyNoted, Turns, Job, Looks

LEMMA NoteEffect ==
    ASSUME Types, NEW n \in Node, Note(n)
    PROVE  /\ work[n].at = "note"
           /\ work[n].copy = "fresh"
           /\ Turns(n, work[n].op, "start", work[n].outcome, "none")
           /\ work'[n].known = work[n].known
           /\ store'[Home(n)].known = work[n].known
           /\ store'[Home(n)].task = store[Home(n)].task
           /\ store'[Home(n)].noted = n
           /\ \A i \in Owner : i # Home(n) => store'[i] = store[i]
           /\ UNCHANGED <<device, bus, task, window, blamed>>
           /\ UNCHANGED excused
<1>1. Writes(n, [store[Home(n)] EXCEPT !.known = work[n].known, !.noted = n],
              At(n, "start"))
  BY DEF Note
<1>2. /\ work'[n] = (At(n, "start"))
      /\ store'[Home(n)] = [store[Home(n)] EXCEPT !.known = work[n].known, !.noted = n]
      /\ \A i \in Owner : i # Home(n) => store'[i] = store[i]
  BY <1>1, WritesEffect
<1> QED
  BY <1>2, WorkTypes DEF Note, At, Idle, Turns, Job, Properties

LEMMA StartEffect ==
    ASSUME Types, NEW n \in Node, Start(n)
    PROVE  /\ work[n].at = "start"
           /\ Turns(n, work[n].op, "save", work[n].outcome, "none")
           /\ work'[n].known = work[n].known
           /\ \E t \in Task :
              /\ task[t].state = "unused"
              /\ task' = [task EXCEPT ![t] =
                    [state |-> "running", kind |-> "add", by |-> n, key |-> NoKey]]
              /\ work'[n].task = t
           /\ UNCHANGED <<device, store, bus, window, excused, blamed>>
<1>1. PICK t \in Task :
         /\ task[t].state = "unused"
         /\ task' = [task EXCEPT ![t] =
               [state |-> "running", kind |-> "add", by |-> n, key |-> NoKey]]
         /\ work' = [work EXCEPT ![n] = [@ EXCEPT !.task = t, !.at = "save", !.copy = "none"]]
  BY DEF Start, Launches
<1>2. work'[n] = [work[n] EXCEPT !.task = t, !.at = "save", !.copy = "none"]
  BY <1>1, WorkTypes
<1>3. Turns(n, work[n].op, "save", work[n].outcome, "none") /\ work'[n].task = t
      /\ work'[n].known = work[n].known
  BY <1>2, WorkTypes DEF Turns, Job
<1>4. UNCHANGED <<device, store, bus, window, excused, blamed>>
  BY DEF Start
<1> QED
  BY <1>1, <1>3, <1>4 DEF Start

LEMMA SaveTaskEffect ==
    ASSUME Types, NEW n \in Node, SaveTask(n)
    PROVE  /\ work[n].at = "save"
           /\ Turns(n, work[n].op, "poll", work[n].outcome, "none")
           /\ work'[n].known = work[n].known /\ work'[n].task = work[n].task
           /\ store'[Home(n)].known = store[Home(n)].known
           /\ store'[Home(n)].task = work[n].task
           /\ store'[Home(n)].noted = store[Home(n)].noted
           /\ \A i \in Owner : i # Home(n) => store'[i] = store[i]
           /\ UNCHANGED <<device, bus, task, window, blamed>>
           /\ Robs(n)
<1>1. Writes(n, [store[Home(n)] EXCEPT !.task = work[n].task],
              [At(n, "poll") EXCEPT !.task = work[n].task])
  BY DEF SaveTask
<1>2. /\ work'[n] = ([At(n, "poll") EXCEPT !.task = work[n].task])
      /\ store'[Home(n)] = [store[Home(n)] EXCEPT !.task = work[n].task]
      /\ \A i \in Owner : i # Home(n) => store'[i] = store[i]
  BY <1>1, WritesEffect
<1> QED
  BY <1>2, WorkTypes DEF SaveTask, At, Idle, Turns, Job, Properties

LEMMA ForgetTaskEffect ==
    ASSUME Types, NEW n \in Node, ForgetTask(n)
    PROVE  /\ work[n].at = "poll"
           /\ task[work[n].task].state # "running"
           /\ \/ /\ task[work[n].task].state = "error"
                 /\ Turns(n, work[n].op, "idle", "failed", "none")
              \/ /\ task[work[n].task].state # "error"
                 /\ Turns(n, work[n].op, IF work[n].op = "attach" THEN "find" ELSE "unkey",
                          work[n].outcome, "none")
                 /\ work'[n].known = work[n].known
           /\ store'[Home(n)].known = store[Home(n)].known
           /\ store'[Home(n)].task = NoTask
           /\ store'[Home(n)].noted = store[Home(n)].noted
           /\ \A i \in Owner : i # Home(n) => store'[i] = store[i]
           /\ UNCHANGED <<device, bus, task, window, blamed>>
           /\ Robs(n)
<1>1. Writes(n, [store[Home(n)] EXCEPT !.task = NoTask],
              IF task[work[n].task].state = "error" THEN Idle(work[n].op, "failed")
               ELSE At(n, IF work[n].op = "attach" THEN "find" ELSE "unkey"))
  BY DEF ForgetTask
<1>2. /\ work'[n] = (IF task[work[n].task].state = "error" THEN Idle(work[n].op, "failed")
               ELSE At(n, IF work[n].op = "attach" THEN "find" ELSE "unkey"))
      /\ store'[Home(n)] = [store[Home(n)] EXCEPT !.task = NoTask]
      /\ \A i \in Owner : i # Home(n) => store'[i] = store[i]
  BY <1>1, WritesEffect
<1>3. CASE task[work[n].task].state = "error"
  <2>1. Turns(n, work[n].op, "idle", "failed", "none")
    BY <1>2, <1>3, IdleFields DEF Turns
  <2> QED
    BY <1>2, <1>3, <2>1, WorkTypes DEF ForgetTask, Properties
<1>4. CASE task[work[n].task].state # "error"
  <2>1. /\ Turns(n, work[n].op, IF work[n].op = "attach" THEN "find" ELSE "unkey",
               work[n].outcome, "none")
        /\ work'[n].known = work[n].known
    BY <1>2, <1>4, WorkTypes DEF Turns, At, Job
  <2> QED
    BY <1>2, <1>4, <2>1, WorkTypes DEF ForgetTask, Properties
<1> QED
  BY <1>3, <1>4

LEMMA FindEffect ==
    ASSUME Types, NEW n \in Node, Find(n)
    PROVE  /\ work[n].at = "find"
           /\ NewKeys(n) # {}
           /\ Turns(n, work[n].op, "drop", work[n].outcome, work[n].copy)
           /\ work'[n].known = work[n].known
           /\ work'[n].key \in NewKeys(n)
           /\ UNCHANGED <<device, store, bus, task, window, excused, blamed>>
<1>1. NewKeys(n) \subseteq Nat /\ NewKeys(n) # {}
  BY DEF Find, NewKeys, OfType, Key
<1>2. Min(NewKeys(n)) \in NewKeys(n)
  BY <1>1, MinIsLeast
<1>3. work'[n] = [work[n] EXCEPT !.key = Min(NewKeys(n)), !.at = "drop"]
  BY WorkTypes DEF Find
<1> QED
  BY <1>2, <1>3, WorkTypes DEF Find, Turns, Job

LEMMA NotFoundEffect ==
    ASSUME Types, NEW n \in Node, NotFound(n)
    PROVE  /\ work[n].at = "find"
           /\ NewKeys(n) = {}
           /\ Turns(n, work[n].op, "idle", "missing", "none")
           /\ UNCHANGED <<device, store, bus, task, window, excused, blamed>>
<1>1. work'[n] = Idle(work[n].op, "missing")
  BY WorkTypes DEF NotFound, Ends
<1>2. Turns(n, work[n].op, "idle", "missing", "none")
  BY <1>1, IdleFields DEF Turns
<1> QED
  BY <1>2 DEF NotFound

LEMMA DropEffect ==
    ASSUME Types, NEW n \in Node, Drop(n)
    PROVE  /\ work[n].at = "drop"
           /\ Turns(n, work[n].op, "keep", work[n].outcome, "none")
           /\ work'[n].key = work[n].key
           /\ store'[Home(n)].known = Absent
           /\ store'[Home(n)].task = store[Home(n)].task
           /\ store'[Home(n)].noted = Nobody
           /\ \A i \in Owner : i # Home(n) => store'[i] = store[i]
           /\ UNCHANGED <<device, bus, task, blamed>>
           /\ window' = window \ {n}
           /\ excused' = excused \union ({store[Home(n)].noted} \ {n})
<1>1. Writes(n, [store[Home(n)] EXCEPT !.known = Absent, !.noted = Nobody],
              [At(n, "keep") EXCEPT !.known = {}])
  BY DEF Drop
<1>2. /\ work'[n] = ([At(n, "keep") EXCEPT !.known = {}])
      /\ store'[Home(n)] = [store[Home(n)] EXCEPT !.known = Absent, !.noted = Nobody]
      /\ \A i \in Owner : i # Home(n) => store'[i] = store[i]
  BY <1>1, WritesEffect
<1> QED
  BY <1>2, WorkTypes DEF Drop, At, Idle, Turns, Job, Properties

LEMMA KeepEffect ==
    ASSUME Types, NEW n \in Node, Keep(n)
    PROVE  /\ work[n].at = "keep"
           /\ bus' = [bus EXCEPT ![n] = work[n].key]
           /\ Turns(n, work[n].op, "idle", "ok", "none")
           /\ UNCHANGED <<device, store, task, window, excused, blamed>>
BY WorkTypes, IdleFields DEF Keep, Turns, Ends

LEMMA DetachEffect ==
    ASSUME Types, NEW n \in Node, Detach(n)
    PROVE  /\ work[n].at = "look"
           /\ work[n].op = "detach"
           /\ device[bus[n]].by # Nobody
           /\ Turns(n, "detach", "save", work[n].outcome, "none")
           /\ \E t \in Task :
              /\ task[t].state = "unused"
              /\ task' = [task EXCEPT ![t] =
                    [state |-> "running", kind |-> "remove", by |-> n, key |-> bus[n]]]
              /\ work'[n].task = t
           /\ UNCHANGED <<device, store, bus, window, excused, blamed>>
<1>1. PICK t \in Task :
         /\ task[t].state = "unused"
         /\ task' = [task EXCEPT ![t] =
               [state |-> "running", kind |-> "remove", by |-> n, key |-> bus[n]]]
         /\ work' = [work EXCEPT ![n] = [@ EXCEPT !.task = t, !.at = "save", !.copy = "none"]]
  BY DEF Detach, Launches
<1>2. work'[n] = [work[n] EXCEPT !.task = t, !.at = "save", !.copy = "none"]
  BY <1>1, WorkTypes
<1>3. Turns(n, work[n].op, "save", work[n].outcome, "none") /\ work'[n].task = t
      /\ work'[n].known = work[n].known
  BY <1>2, WorkTypes DEF Turns, Job
<1>4. UNCHANGED <<device, store, bus, window, excused, blamed>>
  BY DEF Detach
<1> QED
  BY <1>1, <1>3, <1>4 DEF Detach

LEMMA NothingToDetachEffect ==
    ASSUME Types, NEW n \in Node, NothingToDetach(n)
    PROVE  /\ work[n].at = "look"
           /\ work[n].op = "detach"
           /\ device[bus[n]].by = Nobody
           /\ Turns(n, "detach", "unkey", work[n].outcome, work[n].copy)
           /\ UNCHANGED <<device, store, bus, task, window, excused, blamed>>
BY WorkTypes DEF NothingToDetach, Turns, Job, Goes

LEMMA UnkeyEffect ==
    ASSUME Types, NEW n \in Node, Unkey(n)
    PROVE  /\ work[n].at = "unkey"
           /\ bus' = [bus EXCEPT ![n] = NoKey]
           /\ Turns(n, work[n].op, "idle", "ok", "none")
           /\ UNCHANGED <<device, store, task, window, excused, blamed>>
BY WorkTypes, IdleFields DEF Unkey, Turns, Ends

LEMMA CrashEffect ==
    ASSUME Types, NEW n \in Node, Crash(n)
    PROVE  /\ work[n].at # "idle"
           /\ Turns(n, work[n].op, "dispatch", "none", "none")
           /\ excused' = excused \union {n}
           /\ UNCHANGED <<device, store, bus, task, window, blamed>>
BY WorkTypes, IdleFields DEF Crash, Turns, Ends

-----------------------------------------------------------------------------
(* Shape *)

LEMMA StillShape ==
    ASSUME Types, TasksStay, Grows, NEW m \in Node, Still(m), Fits(m), Fresh(m)
    PROVE  Fits(m)' /\ Fresh(m)'
<1>1. Fits(m)'
  BY DEF Still, Fits, TasksStay
<1>2. Fresh(m)'
  <2>1. Home(m)' = Home(m)
    BY DEF Still, Home
  <2> QED
    BY <2>1 DEF Still, Fresh, Grows
<1> QED
  BY <1>1, <1>2

LEMMA StillKept ==
    ASSUME Types, TasksStay, NEW i \in Owner, store'[i] = store[i], Kept(i)
    PROVE  Kept(i)'
<1>1. store[i].task # NoTask => store[i].task \in Task
  BY Numbers DEF Types, Properties
<1> QED
  BY <1>1 DEF Kept, TasksStay, Shelf

LEMMA WorkerShape ==
    ASSUME Types, Shape, NEW n \in Node, Worker(n)
    PROVE  Fits(n)' /\ Fresh(n)' /\ \A i \in Owner : Kept(i)'
<1>1. /\ work[n] \in Job /\ bus \in [Node -> 0 .. MaxKey]
      /\ Home(n) \in Owner /\ store[Home(n)] \in Properties
      /\ task \in [Task -> Reconfigure]
      /\ work[n].op = "attach" => Home(n) = Shelf(n)
      /\ work[n].op \in {"attach", "detach"} /\ work[n].known \in Known
      /\ Absent \notin SUBSET Key
      /\ \A t \in 0 .. MaxTask : t # NoTask => t \in Task
      /\ store[Home(n)].task \in 0 .. MaxTask
      /\ store[Home(n)].noted \in Node \union {Nobody}
      /\ n # Nobody
  BY HomeIsOwner, Numbers DEF Types, Job, Properties, Key
<1>2. Fits(n) /\ Fresh(n) /\ TasksStay /\ \A i \in Owner : Kept(i)
  BY WorkerFrame DEF Shape, Owner
<1>3. UNCHANGED store => \A i \in Owner : Kept(i)'
  BY <1>2, StillKept
<1> Kept(Home(n))
  BY <1>1, <1>2
<1>4. Home(n)' = IF work'[n].op = "attach" /\ n \in Card THEN Server ELSE n
  BY DEF Home
<1>5. CASE Begin(n)
  <2>1. Fits(n)'
    BY <1>1, <1>2, <1>5, BeginEffect, Numbers DEF Fits, Turns
  <2>2. Fresh(n)'
    BY <1>1, <1>2, <1>4, <1>5, BeginEffect DEF Fresh, Fits, Turns, Home
  <2> QED
    BY <1>3, <1>5, <2>1, <2>2, BeginEffect
<1>6. CASE Skips(n)
  <2>1. Fits(n)'
    BY <1>1, <1>2, <1>6, SkipsEffect, Numbers DEF Fits, Turns
  <2>2. Fresh(n)'
    BY <1>1, <1>2, <1>4, <1>6, SkipsEffect DEF Fresh, Fits, Turns, Home
  <2> QED
    BY <1>3, <1>6, <2>1, <2>2, SkipsEffect
<1>7. CASE Dispatch(n)
  <2>1. Fits(n)'
    BY <1>1, <1>2, <1>7, DispatchEffect DEF Fits, Turns, Kept
  <2>2. Fresh(n)'
    BY <1>1, <1>2, <1>4, <1>7, DispatchEffect DEF Fresh, Fits, Turns, Home
  <2> QED
    BY <1>3, <1>7, <2>1, <2>2, DispatchEffect
<1>8. CASE WaitTimesOut(n)
  <2>1. Fits(n)'
    BY <1>1, <1>2, <1>8, WaitTimesOutEffect, Numbers DEF Fits, Turns
  <2>2. Fresh(n)'
    BY <1>1, <1>2, <1>4, <1>8, WaitTimesOutEffect DEF Fresh, Fits, Turns, Home
  <2> QED
    BY <1>3, <1>8, <2>1, <2>2, WaitTimesOutEffect
<1>9. CASE Breaks(n)
  <2>1. Fits(n)'
    BY <1>1, <1>2, <1>9, BreaksEffect, Numbers DEF Fits, Turns
  <2>2. Fresh(n)'
    BY <1>1, <1>2, <1>4, <1>9, BreaksEffect DEF Fresh, Fits, Turns, Home
  <2> QED
    BY <1>3, <1>9, <2>1, <2>2, BreaksEffect
<1>10. CASE DeferredReturns(n)
  <2> USE <1>1, <1>2, <1>10, DeferredReturnsEffect
  <2>1. Fits(n)'
    BY DEF Fits, Turns
  <2>2. Fresh(n)'
    BY <1>4 DEF Fresh, Turns
  <2>3. ASSUME NEW i \in Owner, i = Home(n)
        PROVE  Kept(i)'
    <3>1. Kept(i)
      BY <2>3
    <3> QED
      BY <2>3, <3>1 DEF Kept, Fits, Fresh, Shelf, TasksStay
  <2>4. ASSUME NEW i \in Owner, i # Home(n)
        PROVE  Kept(i)'
    <3>1. store'[i] = store[i]
      BY <2>4
    <3> QED
      BY <3>1, StillKept
  <2> QED
    BY <2>1, <2>2, <2>3, <2>4
<1>11. CASE DeferredFails(n)
  <2> USE <1>1, <1>2, <1>11, DeferredFailsEffect
  <2>1. Fits(n)'
    BY DEF Fits, Turns
  <2>2. Fresh(n)'
    BY <1>4 DEF Fresh, Turns
  <2>3. ASSUME NEW i \in Owner, i = Home(n)
        PROVE  Kept(i)'
    <3>1. Kept(i)
      BY <2>3
    <3> QED
      BY <2>3, <3>1 DEF Kept, Fits, Fresh, Shelf, TasksStay
  <2>4. ASSUME NEW i \in Owner, i # Home(n)
        PROVE  Kept(i)'
    <3>1. store'[i] = store[i]
      BY <2>4
    <3> QED
      BY <3>1, StillKept
  <2> QED
    BY <2>1, <2>2, <2>3, <2>4
<1>12. CASE NoNetwork(n)
  <2>1. Fits(n)'
    BY <1>1, <1>2, <1>12, NoNetworkEffect, Numbers DEF Fits, Turns
  <2>2. Fresh(n)'
    BY <1>1, <1>2, <1>4, <1>12, NoNetworkEffect DEF Fresh, Fits, Turns, Home
  <2> QED
    BY <1>3, <1>12, <2>1, <2>2, NoNetworkEffect
<1>13. CASE Read(n)
  <2>1. Fits(n)'
    BY <1>1, <1>2, <1>13, ReadEffect, Numbers DEF Fits, Turns
  <2>2. Fresh(n)'
    <3>1. /\ work'[n].at = "note" /\ work'[n].op = "attach" /\ work'[n].known # Absent
          /\ work'[n].copy # "none" /\ Home(n)' = Home(n) /\ UNCHANGED store
      BY <1>1, <1>4, <1>13, ReadEffect DEF Turns, OfType, Home
    <3>2. ASSUME work'[n].copy = "fresh"
          PROVE  store[Home(n)].noted \in excused' \union {Nobody}
      <4>1. Noted(n) = store[Home(n)].known
        BY <1>2, <1>13, <3>2, ReadEffect DEF Noted, Fresh, Turns
      <4> QED
        BY <4>1, <1>13, ReadEffect DEF Kept
    <3> QED
      BY <3>1, <3>2 DEF Fresh
  <2> QED
    BY <1>3, <1>13, <2>1, <2>2, ReadEffect
<1>14. CASE AlreadyNoted(n)
  <2>1. Fits(n)'
    BY <1>1, <1>2, <1>14, AlreadyNotedEffect, Numbers DEF Fits, Turns
  <2>2. Fresh(n)'
    BY <1>1, <1>2, <1>4, <1>14, AlreadyNotedEffect DEF Fresh, Fits, Turns, Home
  <2> QED
    BY <1>3, <1>14, <2>1, <2>2, AlreadyNotedEffect
<1>15. CASE Note(n)
  <2> USE <1>1, <1>2, <1>15, NoteEffect
  <2>1. Fits(n)'
    BY DEF Fits, Turns
  <2>2. Fresh(n)'
    BY <1>4 DEF Fresh, Turns
  <2>3. ASSUME NEW i \in Owner, i = Home(n)
        PROVE  Kept(i)'
    <3>1. Kept(i)
      BY <2>3
    <3> QED
      BY <2>3, <3>1 DEF Kept, Fits, Fresh, Shelf, TasksStay
  <2>4. ASSUME NEW i \in Owner, i # Home(n)
        PROVE  Kept(i)'
    <3>1. store'[i] = store[i]
      BY <2>4
    <3> QED
      BY <3>1, StillKept
  <2> QED
    BY <2>1, <2>2, <2>3, <2>4
<1>16. CASE Start(n)
  <2>1. Fits(n)'
    BY <1>1, <1>2, <1>16, StartEffect, Numbers DEF Fits, Turns
  <2>2. Fresh(n)'
    BY <1>1, <1>2, <1>4, <1>16, StartEffect DEF Fresh, Fits, Turns, Home
  <2> QED
    BY <1>3, <1>16, <2>1, <2>2, StartEffect
<1>17. CASE SaveTask(n)
  <2> USE <1>1, <1>2, <1>17, SaveTaskEffect
  <2>1. Fits(n)'
    BY DEF Fits, Turns
  <2>2. Fresh(n)'
    BY <1>4 DEF Fresh, Turns
  <2>3. ASSUME NEW i \in Owner, i = Home(n)
        PROVE  Kept(i)'
    <3>1. Kept(i)
      BY <2>3
    <3> QED
      BY <2>3, <3>1 DEF Kept, Fits, Fresh, Shelf, TasksStay
  <2>4. ASSUME NEW i \in Owner, i # Home(n)
        PROVE  Kept(i)'
    <3>1. store'[i] = store[i]
      BY <2>4
    <3> QED
      BY <3>1, StillKept
  <2> QED
    BY <2>1, <2>2, <2>3, <2>4
<1>18. CASE ForgetTask(n)
  <2> USE <1>1, <1>2, <1>18, ForgetTaskEffect
  <2>1. Fits(n)'
    BY DEF Fits, Turns
  <2>2. Fresh(n)'
    BY <1>4 DEF Fresh, Turns
  <2>3. ASSUME NEW i \in Owner, i = Home(n)
        PROVE  Kept(i)'
    <3>1. Kept(i)
      BY <2>3
    <3> QED
      BY <2>3, <3>1 DEF Kept, Fits, Fresh, Shelf, TasksStay
  <2>4. ASSUME NEW i \in Owner, i # Home(n)
        PROVE  Kept(i)'
    <3>1. store'[i] = store[i]
      BY <2>4
    <3> QED
      BY <3>1, StillKept
  <2> QED
    BY <2>1, <2>2, <2>3, <2>4
<1>19. CASE Find(n)
  <2>1. Fits(n)'
    BY <1>1, <1>2, <1>19, FindEffect, Numbers DEF Fits, Turns
  <2>2. Fresh(n)'
    BY <1>1, <1>2, <1>4, <1>19, FindEffect DEF Fresh, Fits, Turns, Home
  <2> QED
    BY <1>3, <1>19, <2>1, <2>2, FindEffect
<1>20. CASE NotFound(n)
  <2>1. Fits(n)'
    BY <1>1, <1>2, <1>20, NotFoundEffect, Numbers DEF Fits, Turns
  <2>2. Fresh(n)'
    BY <1>1, <1>2, <1>4, <1>20, NotFoundEffect DEF Fresh, Fits, Turns, Home
  <2> QED
    BY <1>3, <1>20, <2>1, <2>2, NotFoundEffect
<1>21. CASE Drop(n)
  <2> USE <1>1, <1>2, <1>21, DropEffect
  <2>1. Fits(n)'
    BY DEF Fits, Turns
  <2>2. Fresh(n)'
    BY <1>4 DEF Fresh, Turns
  <2>3. ASSUME NEW i \in Owner, i = Home(n)
        PROVE  Kept(i)'
    <3>1. Kept(i)
      BY <2>3
    <3> QED
      BY <2>3, <3>1 DEF Kept, Fits, Fresh, Shelf, TasksStay
  <2>4. ASSUME NEW i \in Owner, i # Home(n)
        PROVE  Kept(i)'
    <3>1. store'[i] = store[i]
      BY <2>4
    <3> QED
      BY <3>1, StillKept
  <2> QED
    BY <2>1, <2>2, <2>3, <2>4
<1>22. CASE Keep(n)
  <2>1. Fits(n)'
    BY <1>1, <1>2, <1>22, KeepEffect, Numbers DEF Fits, Turns
  <2>2. Fresh(n)'
    BY <1>1, <1>2, <1>4, <1>22, KeepEffect DEF Fresh, Fits, Turns, Home
  <2> QED
    BY <1>3, <1>22, <2>1, <2>2, KeepEffect
<1>23. CASE Detach(n)
  <2>1. Fits(n)'
    BY <1>1, <1>2, <1>23, DetachEffect, Numbers DEF Fits, Turns
  <2>2. Fresh(n)'
    BY <1>1, <1>2, <1>4, <1>23, DetachEffect DEF Fresh, Fits, Turns, Home
  <2> QED
    BY <1>3, <1>23, <2>1, <2>2, DetachEffect
<1>24. CASE NothingToDetach(n)
  <2>1. Fits(n)'
    BY <1>1, <1>2, <1>24, NothingToDetachEffect, Numbers DEF Fits, Turns
  <2>2. Fresh(n)'
    BY <1>1, <1>2, <1>4, <1>24, NothingToDetachEffect DEF Fresh, Fits, Turns, Home
  <2> QED
    BY <1>3, <1>24, <2>1, <2>2, NothingToDetachEffect
<1>25. CASE Unkey(n)
  <2>1. Fits(n)'
    BY <1>1, <1>2, <1>25, UnkeyEffect, Numbers DEF Fits, Turns
  <2>2. Fresh(n)'
    BY <1>1, <1>2, <1>4, <1>25, UnkeyEffect DEF Fresh, Fits, Turns, Home
  <2> QED
    BY <1>3, <1>25, <2>1, <2>2, UnkeyEffect
<1>26. CASE Crash(n)
  <2>1. Fits(n)'
    BY <1>1, <1>2, <1>26, CrashEffect, Numbers DEF Fits, Turns
  <2>2. Fresh(n)'
    BY <1>1, <1>2, <1>4, <1>26, CrashEffect DEF Fresh, Fits, Turns, Home
  <2> QED
    BY <1>3, <1>26, <2>1, <2>2, CrashEffect
<1> QED
  BY <1>5, <1>6, <1>7, <1>8, <1>9, <1>10, <1>11, <1>12, <1>13, <1>14, <1>15, <1>16,
     <1>17, <1>18, <1>19, <1>20, <1>21, <1>22, <1>23, <1>24, <1>25, <1>26 DEF Worker

LEMMA VsphereShape ==
    ASSUME Types, Shape, Results, Vsphere
    PROVE  Shape'
<1>1. TasksStay /\ Grows /\ UNCHANGED store /\ \A m \in Node : Still(m)
  BY VsphereFrame
<1>2. \A m \in Node : Fits(m)' /\ Fresh(m)'
  BY <1>1, StillShape DEF Shape
<1>3. \A i \in Owner : Kept(i)'
  BY <1>1, StillKept DEF Shape, Owner
<1> QED
  BY <1>2, <1>3 DEF Shape, Owner

LEMMA ShapeStep ==
    ASSUME Types, Shape, Results, Next
    PROVE  Shape'
<1>1. CASE Vsphere
  BY <1>1, VsphereShape
<1>2. ASSUME NEW n \in Node, Worker(n)
      PROVE  Shape'
  <2>1. Fits(n)' /\ Fresh(n)' /\ \A i \in Owner : Kept(i)'
    BY <1>2, WorkerShape
  <2>2. ASSUME NEW m \in Node, m # n
        PROVE  Fits(m)' /\ Fresh(m)'
    <3>1. Still(m) /\ TasksStay /\ Grows
      BY <1>2, <2>2, OthersStill, WorkerFrame
    <3> QED
      BY <3>1, StillShape DEF Shape
  <2> QED
    BY <2>1, <2>2 DEF Shape, Owner
<1> QED
  BY <1>1, <1>2 DEF Next, Vsphere

LEMMA ResultsStep ==
    ASSUME Types, Shape, Results, Next
    PROVE  Results'
<1>1. task \in [Task -> Reconfigure] /\ device \in [Key -> Device]
  BY DEF Types
<1>2. ASSUME NEW n \in Node, Worker(n)
      PROVE  Results'
  <2>1. UNCHANGED <<device, blamed>>
    BY <1>2, WorkerFrame
  <2>2. CASE UNCHANGED task
    BY <2>1, <2>2 DEF Results
  <2>3. CASE Start(n)
    BY <1>1, <2>1, <2>3, StartEffect DEF Results
  <2>4. CASE Detach(n)
    <3>1. bus[n] \in Key
      BY <2>4, DetachEffect, Numbers DEF Shape, Fits, Types
    <3> QED
      BY <1>1, <2>1, <2>4, <3>1, DetachEffect DEF Results
  <2> QED
    BY <1>2, <2>2, <2>3, <2>4, OnlyTwoLaunch
<1>3. ASSUME NEW t \in Task, AddEnds(t)
      PROVE  Results'
  <2>1. task[t].by \in Node
    BY <1>3 DEF AddEnds, Results
  <2> QED
    BY <1>1, <1>3, <2>1 DEF AddEnds, Results, Described
<1>4. ASSUME NEW t \in Task, RemoveEnds(t)
      PROVE  Results'
  <2>1. device' = [device EXCEPT ![task[t].key] = Free] /\ Free.by \notin Node
    BY <1>4 DEF RemoveEnds, Free
  <2> QED
    BY <1>1, <1>4, <2>1 DEF RemoveEnds, Results
<1>5. ASSUME NEW t \in Task, TaskFails(t)
      PROVE  Results'
  BY <1>1, <1>5 DEF TaskFails, Results
<1> QED
  BY <1>2, <1>3, <1>4, <1>5 DEF Next

-----------------------------------------------------------------------------
(* Life of those who do not take the step *)

\* The step of another worker takes nothing from m: its device, its tasks, their ids and
\* what it noted stay.
Leaves(m) ==
    /\ Still(m) /\ TasksStay
    /\ UNCHANGED <<device, blamed>>
    /\ m \in window => m \in window'
    /\ \A t \in Task : task[t].state # "unused" /\ task[t].by = m => task'[t] = task[t]
    /\ \A t \in Task : task'[t].state # "unused" /\ task'[t].by = m => task'[t] = task[t]
    /\ \A i \in Owner : store'[i].task \in {store[i].task, NoTask} \/ task'[store'[i].task].by # m
    /\ \A t \in Task : task[t].state = "running" /\ task[t].by = m /\ store[Home(m)].task = t =>
          store'[Home(m)].task = t
    /\ HasNoted(m)' <=> HasNoted(m)
    /\ HasNoted(m) => store'[Shelf(m)].known = store[Shelf(m)].known

LEMMA OthersLeave ==
    ASSUME Types, Shape, NEW n \in Node, Worker(n), NEW m \in Node, m # n, m \notin excused'
    PROVE  Leaves(m)
<1>1. Still(m) /\ UNCHANGED <<device, blamed>> /\ TasksStay
  BY OthersStill, WorkerFrame
<1>2. /\ \A t \in Task : task[t].state # "unused" /\ task[t].by = m => task'[t] = task[t]
      /\ \A t \in Task : task'[t].state # "unused" /\ task'[t].by = m => task'[t] = task[t]
  <2>1. task \in [Task -> Reconfigure]
    BY DEF Types
  <2> QED
    BY <2>1, WorkerTasks
<1>3. m \in window => m \in window'
  BY WindowStays
<1>4. /\ Home(n) \in Owner /\ Home(m) \in Owner /\ Shelf(m) \in Owner
      /\ store[Home(n)].task \in 0 .. MaxTask /\ Fits(n) /\ Fresh(n) /\ Kept(Home(n))
      /\ \A i \in 0 .. MaxTask : i # NoTask => i \in Task
      /\ m # Nobody
  BY HomeIsOwner, WorkTypes, Numbers DEF Shelf, Owner, Shape, Properties
<1>5. CASE UNCHANGED store
  BY <1>1, <1>2, <1>3, <1>5 DEF Leaves, HasNoted, Shelf
<1>6. ASSUME ~UNCHANGED store
      PROVE  /\ \A i \in Owner :
                   store'[i].task \in {store[i].task, NoTask} \/ task'[store'[i].task].by # m
             /\ \A t \in Task :
                   task[t].state = "running" /\ task[t].by = m /\ store[Home(m)].task = t =>
                      store'[Home(m)].task = t
             /\ store'[Shelf(m)].noted = m <=> store[Shelf(m)].noted = m
             /\ store[Shelf(m)].noted = m => store'[Shelf(m)].known = store[Shelf(m)].known
  <2>1. CASE DeferredReturns(n)
    BY <1>1, <1>2, <1>4, <2>1, DeferredReturnsEffect DEF Fits, Fresh, Robs
  <2>2. CASE DeferredFails(n)
    BY <1>1, <1>2, <1>4, <2>2, DeferredFailsEffect DEF Fits, Fresh, Robs
  <2>3. CASE Note(n)
    BY <1>1, <1>2, <1>4, <2>3, NoteEffect DEF Fits, Fresh, Robs
  <2>4. CASE SaveTask(n)
    <3>1. /\ task'[work[n].task].by = n /\ work[n].task \in Task
          /\ task[work[n].task].by = n
      BY <1>1, <1>4, <2>4, SaveTaskEffect DEF Fits, TasksStay
    <3>2. \A i \in Owner :
             store'[i].task \in {store[i].task, NoTask} \/ task'[store'[i].task].by # m
      BY <3>1, <2>4, SaveTaskEffect
    <3>3. ASSUME NEW t \in Task, task[t].by = m, store[Home(m)].task = t
          PROVE  Home(m) # Home(n)
      <4>1. t \notin {NoTask, work[n].task}
        BY <3>1, <3>3, Numbers
      <4> QED
        BY <4>1, <3>3, <2>4, SaveTaskEffect DEF Robs
    <3> QED
      BY <1>4, <2>4, <3>2, <3>3, SaveTaskEffect
  <2>5. CASE ForgetTask(n)
    BY <1>1, <1>2, <1>4, <2>5, ForgetTaskEffect DEF Fits, Fresh, Robs
  <2>6. CASE Drop(n)
    BY <1>1, <1>2, <1>4, <2>6, DropEffect DEF Fits, Fresh, Robs
  <2> QED
    BY <1>6, <2>1, <2>2, <2>3, <2>4, <2>5, <2>6, OnlyTheseWrite
<1> QED
  BY <1>1, <1>2, <1>3, <1>5, <1>6 DEF Leaves, HasNoted, Shelf

LEMMA LeavesLife ==
    ASSUME Types, Shape, NEW m \in Node, Leaves(m),
           Watched(m), Filed(m), Noticed(m), Placed(m)
    PROVE  Watched(m)' /\ Filed(m)' /\ Noticed(m)' /\ Placed(m)'
<1>1. /\ Home(m)' = Home(m) /\ MadeBy(m)' = MadeBy(m) /\ Shelf(m)' = Shelf(m)
      /\ OfType(TypeOf[m])' = OfType(TypeOf[m])
      /\ Home(m) \in Owner
  BY HomeIsOwner DEF Leaves, Still, Home, MadeBy, Shelf, OfType
<1>2. Watched(m)'
  BY <1>1 DEF Watched, Leaves, Still, HasNoted
<1>3. Filed(m)'
  <2>1. ASSUME NEW i \in Owner, store'[i].task # NoTask, task'[store'[i].task].by = m
        PROVE  /\ store[i].task = store'[i].task
               /\ task'[store[i].task] = task[store[i].task]
    <3>1. store[i].task = store'[i].task
      BY <2>1 DEF Leaves
    <3>2. store[i].task \in Task /\ task[store[i].task].state # "unused"
      BY <2>1, <3>1, Numbers DEF Shape, Kept, Types, Properties, Owner
    <3> QED
      BY <2>1, <3>1, <3>2 DEF Leaves, TasksStay
  <2> QED
    BY <1>1, <2>1 DEF Filed, Leaves, Still, Owner
<1>4. Runs(m) => Runs(m)'
  BY DEF Runs, Leaves
<1>5. Noticed(m)'
  BY <1>1, <1>4 DEF Noticed, Leaves, Still, HasNoted
<1>6. Placed(m)'
  BY <1>1 DEF Placed, Leaves, Still, HasNoted, Shape, Fits
<1> QED
  BY <1>2, <1>3, <1>5, <1>6

-----------------------------------------------------------------------------
(* Life of the one that takes the step *)

LEMMA StatesOfTasks ==
    ASSUME Types, NEW n \in Node, Fits(n), work[n].at \in {"save", "poll"},
           task[work[n].task].state \notin {"running", "error"}
    PROVE  task[work[n].task].state = "success"
<1>1. work[n].task \in Task /\ task[work[n].task].state # "unused"
  BY DEF Fits
<1> QED
  BY <1>1 DEF Types, Reconfigure

LEMMA OwnLife ==
    ASSUME Types, Shape, Results, NEW n \in Node, Worker(n), n \notin excused',
           Watched(n), Filed(n), Noticed(n), Placed(n)
    PROVE  Watched(n)' /\ Filed(n)' /\ Noticed(n)' /\ Placed(n)'
<1>1. /\ Home(n) \in Owner /\ Shelf(n) \in Owner /\ Shelf(n)' = Shelf(n)
      /\ work[n].op \in {"attach", "detach"} /\ work[n].known \in Known
      /\ work[n].op = "attach" => Home(n) = Shelf(n)
      /\ store[Home(n)].task \in 0 .. MaxTask
      /\ Absent \notin SUBSET Key
      /\ \A t \in 0 .. MaxTask : t # NoTask => t \in Task
      /\ NoTask \notin Task
      /\ bus[n] \in 0 .. MaxKey /\ n # Nobody /\ bus \in [Node -> 0 .. MaxKey]
  BY HomeIsOwner, Numbers, WorkTypes DEF Shelf, Owner, Properties, Types, Job, Key
<1>2. /\ Fits(n) /\ Fresh(n) /\ Kept(Home(n)) /\ n \notin excused
      /\ MadeBy(n)' = MadeBy(n) /\ OfType(TypeOf[n])' = OfType(TypeOf[n]) /\ UNCHANGED device
      /\ UNCHANGED blamed
      /\ MadeBy(n) \subseteq Key /\ NoKey \notin Key
  BY <1>1, WorkerFrame, Numbers DEF Shape, Owner, Grows, MadeBy, OfType
<1>3. Home(n)' = IF work'[n].op = "attach" /\ n \in Card THEN Server ELSE n
  BY DEF Home
<1>4. work'[n].op = work[n].op => Home(n)' = Home(n)
  BY DEF Home
<1>5. UNCHANGED task => (Runs(n)' <=> Runs(n))
  BY DEF Runs
<1>6. CASE Begin(n)
  <2> USE <1>1, <1>2, <1>3, <1>4, <1>6, BeginEffect
  <2>1. Watched(n)'
    BY DEF Watched, Turns, HasNoted, Fits, Fresh
  <2>2. Filed(n)'
    BY DEF Filed, Turns, Owner, Fits, Fresh
  <2>3. Noticed(n)'
    BY <1>5 DEF Noticed, Turns, HasNoted, Kept, Fits, Watched, Fresh, Placed, Noted
  <2>4. Placed(n)'
    BY DEF Placed, Turns, HasNoted, Fits, MayBegin
  <2> QED
    BY <2>1, <2>2, <2>3, <2>4
<1>7. CASE Skips(n)
  <2> USE <1>1, <1>2, <1>3, <1>4, <1>7, SkipsEffect
  <2>1. Watched(n)'
    BY DEF Watched, Turns, Placed
  <2>2. Filed(n)'
    BY DEF Filed, Turns, Owner, Fits, Fresh
  <2>3. Noticed(n)'
    BY <1>5 DEF Noticed, Turns, HasNoted, Kept, Fits, Watched, Fresh, Placed, Noted
  <2>4. Placed(n)'
    BY DEF Placed, Turns, HasNoted, Fits, Fresh
  <2> QED
    BY <2>1, <2>2, <2>3, <2>4
<1>8. CASE Dispatch(n)
  <2> USE <1>1, <1>2, <1>3, <1>4, <1>8, DispatchEffect
  <2>1. Watched(n)'
    BY DEF Watched, Turns, HasNoted, Fits, Fresh
  <2>2. Filed(n)'
    BY DEF Filed, Turns, Owner, Fits, Fresh
  <2>3. Noticed(n)'
    BY <1>5 DEF Noticed, Turns, HasNoted, Kept, Fits, Watched, Fresh, Placed, Noted
  <2>4. Placed(n)'
    BY DEF Placed, Turns, HasNoted, Fits, Fresh
  <2> QED
    BY <2>1, <2>2, <2>3, <2>4
<1>9. CASE WaitTimesOut(n)
  <2> USE <1>1, <1>2, <1>3, <1>4, <1>9, WaitTimesOutEffect
  <2>1. Watched(n)'
    BY DEF Watched, Turns, HasNoted, Fits, Fresh
  <2>2. Filed(n)'
    BY DEF Filed, Turns, Owner, Fits, Fresh
  <2>3. Noticed(n)'
    BY <1>5 DEF Noticed, Turns, HasNoted, Kept, Fits, Watched, Fresh, Placed, Noted
  <2>4. Placed(n)'
    BY DEF Placed, Turns, HasNoted, Fits, Fresh
  <2> QED
    BY <2>1, <2>2, <2>3, <2>4
<1>10. CASE Breaks(n)
  <2> USE <1>1, <1>2, <1>3, <1>4, <1>10, BreaksEffect
  <2>1. Watched(n)'
    BY DEF Watched, Turns, HasNoted, Fits, Fresh
  <2>2. Filed(n)'
    BY DEF Filed, Turns, Owner, Fits, Fresh
  <2>3. Noticed(n)'
    BY <1>5 DEF Noticed, Turns, HasNoted, Kept, Fits, Watched, Fresh, Placed, Noted
  <2>4. Placed(n)'
    BY DEF Placed, Turns, HasNoted, Fits, Fresh
  <2> QED
    BY <2>1, <2>2, <2>3, <2>4
<1>11. CASE DeferredReturns(n)
  <2> USE <1>1, <1>2, <1>3, <1>4, <1>11, DeferredReturnsEffect
  <2>1. Watched(n)'
    BY DEF Watched, Turns, HasNoted, Fits, Fresh
  <2>2. Filed(n)'
    BY DEF Filed, Turns, Owner, Fits, Fresh
  <2>3. Noticed(n)'
    BY <1>5 DEF Noticed, Turns, HasNoted, Kept, Fits, Watched, Fresh, Placed, Noted
  <2>4. Placed(n)'
    BY DEF Placed, Turns, HasNoted, Fits, Fresh
  <2> QED
    BY <2>1, <2>2, <2>3, <2>4
<1>12. CASE DeferredFails(n)
  <2> USE <1>1, <1>2, <1>3, <1>4, <1>12, DeferredFailsEffect
  <2>1. Watched(n)'
    BY DEF Watched, Turns, HasNoted, Fits, Fresh
  <2>2. Filed(n)'
    BY DEF Filed, Turns, Owner, Fits, Fresh
  <2>3. Noticed(n)'
    BY <1>5 DEF Noticed, Turns, HasNoted, Kept, Fits, Watched, Fresh, Placed, Noted
  <2>4. Placed(n)'
    <3>1. store[Home(n)].task = work[n].task /\ task[work[n].task].by = n /\ work[n].task # NoTask
      BY DEF Fresh, Fits
    <3>2. work[n].op = "attach" => bus[n] = NoKey /\ MadeBy(n) = {}
      BY <3>1 DEF Filed, Fits, Owner
    <3>3. work[n].op = "detach" => bus[n] # NoKey
      BY DEF Fits
    <3> QED
      BY <3>2, <3>3 DEF Placed, Turns, HasNoted
  <2> QED
    BY <2>1, <2>2, <2>3, <2>4
<1>13. CASE NoNetwork(n)
  <2> USE <1>1, <1>2, <1>3, <1>4, <1>13, NoNetworkEffect
  <2>1. Watched(n)'
    BY DEF Watched, Turns, HasNoted, Fits, Fresh
  <2>2. Filed(n)'
    BY DEF Filed, Turns, Owner, Fits, Fresh
  <2>3. Noticed(n)'
    BY <1>5 DEF Noticed, Turns, HasNoted, Kept, Fits, Watched, Fresh, Placed, Noted
  <2>4. Placed(n)'
    BY DEF Placed, Turns, HasNoted, Fits, Fresh
  <2> QED
    BY <2>1, <2>2, <2>3, <2>4
<1>14. CASE Read(n)
  <2> USE <1>1, <1>2, <1>3, <1>4, <1>14, ReadEffect
  <2>1. Watched(n)'
    BY DEF Watched, Turns, HasNoted, Fits, Fresh
  <2>2. Filed(n)'
    BY DEF Filed, Turns, Owner, Fits, Fresh
  <2>3. Noticed(n)'
    BY <1>5 DEF Noticed, Turns, HasNoted, Kept, Fits, Watched, Fresh, Placed, Noted
  <2>4. Placed(n)'
    <3>1. Noted(n) = Absent
      OBVIOUS
    <3>2. ~HasNoted(n)
      BY <3>1 DEF Noted, Noticed, HasNoted, Kept
    <3>3. bus[n] = NoKey /\ MadeBy(n) = {}
      BY <3>2 DEF Placed, Fits
    <3> QED
      BY <3>3 DEF Placed, Turns, HasNoted
  <2> QED
    BY <2>1, <2>2, <2>3, <2>4
<1>15. CASE AlreadyNoted(n)
  <2> USE <1>1, <1>2, <1>3, <1>4, <1>15, AlreadyNotedEffect
  <2>1. Watched(n)'
    BY DEF Watched, Turns, HasNoted, Fits, Fresh
  <2>2. Filed(n)'
    BY DEF Filed, Turns, Owner, Fits, Fresh
  <2>3. Noticed(n)'
    BY <1>5 DEF Noticed, Turns, HasNoted, Kept, Fits, Watched, Fresh, Placed, Noted
  <2>4. Placed(n)'
    BY DEF Placed, Turns, HasNoted, Fits, Fresh
  <2> QED
    BY <2>1, <2>2, <2>3, <2>4
<1>16. CASE Note(n)
  <2> USE <1>1, <1>2, <1>3, <1>4, <1>16, NoteEffect
  <2>1. Watched(n)'
    BY DEF Watched, Turns, HasNoted, Fits, Fresh
  <2>2. Filed(n)'
    BY DEF Filed, Turns, Owner, Fits, Fresh
  <2>3. Noticed(n)'
    BY <1>5 DEF Noticed, Turns, HasNoted, Kept, Fits, Watched, Fresh, Placed, Noted
  <2>4. Placed(n)'
    BY DEF Placed, Turns, HasNoted, Fits, Fresh
  <2> QED
    BY <2>1, <2>2, <2>3, <2>4
<1>17. CASE Start(n)
  <2> USE <1>1, <1>2, <1>3, <1>4, <1>17, StartEffect
  <2>1. PICK t \in Task :
           /\ task[t].state = "unused"
           /\ task' = [task EXCEPT ![t] =
                 [state |-> "running", kind |-> "add", by |-> n, key |-> NoKey]]
           /\ work'[n].task = t
    OBVIOUS
  <2>2. /\ task'[t].state = "running" /\ task'[t].kind = "add" /\ task'[t].by = n
        /\ task'[t].key = NoKey
        /\ \A u \in Task : u # t => task'[u] = task[u]
    BY <2>1 DEF Types
  <2>3. /\ work[n].op = "attach" /\ HasNoted(n) /\ bus[n] = NoKey /\ MadeBy(n) = {}
        /\ \A u \in Task : task[u].state = "running" => task[u].by # n
        /\ \A i \in Owner : store[i].task # NoTask => task[store[i].task].by # n
    BY DEF Placed, Noticed, Watched, Filed, Fits, Owner
  <2>4. Watched(n)'
    BY <2>1, <2>2, <2>3 DEF Watched, Turns, HasNoted
  <2>5. Filed(n)'
    <3>1. \A i \in Owner : store[i].task # NoTask => store[i].task \in Task /\ store[i].task # t
      BY <2>1, Numbers DEF Shape, Kept, Owner, Types, Properties
    <3> QED
      BY <2>2, <2>3, <3>1 DEF Filed, Owner
  <2>6. Noticed(n)'
    <3>1. Runs(n)'
      BY <2>2 DEF Runs
    <3> QED
      BY <2>3, <3>1 DEF Noticed, Turns, HasNoted
  <2>7. Placed(n)'
    BY <2>1, <2>2, <2>3 DEF Placed, Turns, HasNoted
  <2> QED
    BY <2>4, <2>5, <2>6, <2>7
<1>18. CASE SaveTask(n)
  <2> USE <1>1, <1>2, <1>3, <1>4, <1>18, SaveTaskEffect
  <2>1. Watched(n)'
    BY DEF Watched, Turns, HasNoted, Fits, Fresh
  <2>2. Filed(n)'
    <3>1. /\ work[n].task \in Task /\ task[work[n].task].by = n
          /\ task[work[n].task].kind = IF work[n].op = "attach" THEN "add" ELSE "remove"
          /\ work[n].op = "attach" <=> bus[n] = NoKey
      BY DEF Fits
    <3>2. \A i \in Owner : i # Home(n) => store[i].task = NoTask \/ task[store[i].task].by # n
      BY DEF Filed, Owner
    <3>3. work[n].op = "attach" /\ task[work[n].task].state = "error" => MadeBy(n) = {}
      BY DEF Placed
    <3>4. ASSUME NEW i \in Owner, store'[i].task # NoTask, task[store'[i].task].by = n
          PROVE  i = Home(n) /\ store'[i].task = work[n].task
      BY <3>2, <3>4
    <3> QED
      BY <3>1, <3>3, <3>4 DEF Filed, Turns, Owner
  <2>3. Noticed(n)'
    BY <1>5 DEF Noticed, Turns, HasNoted, Kept, Fits, Watched, Fresh, Placed, Noted
  <2>4. Placed(n)'
    BY DEF Placed, Turns, HasNoted, Fits, Fresh
  <2> QED
    BY <2>1, <2>2, <2>3, <2>4
<1>19. CASE ForgetTask(n)
  <2> USE <1>1, <1>2, <1>3, <1>4, <1>19, ForgetTaskEffect
  <2>1. Watched(n)'
    BY DEF Watched, Turns, HasNoted, Fits, Fresh
  <2>2. Filed(n)'
    BY DEF Filed, Turns, Owner, Fits, Fresh
  <2>3. Noticed(n)'
    BY <1>5 DEF Noticed, Turns, HasNoted, Kept, Fits, Watched, Fresh, Placed, Noted
  <2>4. Placed(n)'
    <3>1. CASE task[work[n].task].state = "error"
      <4>1. work[n].op = "attach" => bus[n] = NoKey /\ MadeBy(n) = {}
        BY <3>1 DEF Placed, Fits
      <4>2. work[n].op = "detach" => bus[n] # NoKey
        BY DEF Fits
      <4> QED
        BY <3>1, <4>1, <4>2 DEF Placed, Turns, HasNoted
    <3>2. CASE task[work[n].task].state # "error"
      <4>1. work[n].op = "detach" => bus[n] # NoKey /\ MadeBy(n) = {}
        BY <3>2, StatesOfTasks DEF Placed, Fits
      <4>2. work[n].op = "attach" => bus[n] = NoKey /\ HasNoted(n)
        BY DEF Placed, Fits
      <4> QED
        BY <3>2, <4>1, <4>2 DEF Placed, Turns, HasNoted
    <3> QED
      BY <3>1, <3>2
  <2> QED
    BY <2>1, <2>2, <2>3, <2>4
<1>20. CASE Find(n)
  <2> USE <1>1, <1>2, <1>3, <1>4, <1>20, FindEffect
  <2>1. Watched(n)'
    BY DEF Watched, Turns, HasNoted, Fits, Fresh
  <2>2. Filed(n)'
    BY DEF Filed, Turns, Owner, Fits, Fresh
  <2>3. Noticed(n)'
    BY <1>5 DEF Noticed, Turns, HasNoted, Kept, Fits, Watched, Fresh, Placed, Noted
  <2>4. Placed(n)'
    <3>1. HasNoted(n) /\ work[n].op = "attach" /\ bus[n] = NoKey
      BY DEF Placed, Fits
    <3>2. NewKeys(n) \subseteq MadeBy(n)
      BY <3>1 DEF Noticed, NewKeys
    <3>3. MadeBy(n) = {work'[n].key}
      BY <3>2 DEF Placed
    <3> QED
      BY <3>1, <3>3 DEF Placed, Turns, HasNoted
  <2> QED
    BY <2>1, <2>2, <2>3, <2>4
<1>21. CASE NotFound(n)
  <2> USE <1>1, <1>2, <1>3, <1>4, <1>21, NotFoundEffect
  <2>1. Watched(n)'
    BY DEF Watched, Turns, HasNoted, Fits, Fresh
  <2>2. Filed(n)'
    BY DEF Filed, Turns, Owner, Fits, Fresh
  <2>3. Noticed(n)'
    BY <1>5 DEF Noticed, Turns, HasNoted, Kept, Fits, Watched, Fresh, Placed, Noted
  <2>4. Placed(n)'
    <3>1. HasNoted(n) /\ work[n].op = "attach" /\ bus[n] = NoKey
      BY DEF Placed, Fits
    <3>2. MadeBy(n) = {}
      <4>1. MadeBy(n) \subseteq OfType(TypeOf[n])
        BY DEF MadeBy, OfType, Results
      <4>2. MadeBy(n) \subseteq NewKeys(n)
        BY <3>1, <4>1 DEF Noticed, NewKeys
      <4> QED
        BY <4>2
    <3> QED
      BY <3>1, <3>2 DEF Placed, Turns, HasNoted
  <2> QED
    BY <2>1, <2>2, <2>3, <2>4
<1>22. CASE Drop(n)
  <2> USE <1>1, <1>2, <1>3, <1>4, <1>22, DropEffect
  <2>1. Watched(n)'
    BY DEF Watched, Turns, HasNoted, Fits, Fresh
  <2>2. Filed(n)'
    BY DEF Filed, Turns, Owner, Fits, Fresh
  <2>3. Noticed(n)'
    BY <1>5 DEF Noticed, Turns, HasNoted, Kept, Fits, Watched, Fresh, Placed, Noted
  <2>4. Placed(n)'
    BY DEF Placed, Turns, HasNoted, Fits, Fresh
  <2> QED
    BY <2>1, <2>2, <2>3, <2>4
<1>23. CASE Keep(n)
  <2> USE <1>1, <1>2, <1>3, <1>4, <1>23, KeepEffect
  <2>1. Watched(n)'
    BY DEF Watched, Turns, HasNoted, Fits, Fresh
  <2>2. Filed(n)'
    BY DEF Filed, Turns, Owner, Fits, Fresh
  <2>3. Noticed(n)'
    BY <1>5 DEF Noticed, Turns, HasNoted, Kept, Fits, Watched, Fresh, Placed, Noted
  <2>4. Placed(n)'
    <3>1. MadeBy(n) = {work[n].key} /\ work[n].op = "attach"
      BY DEF Placed, Fits
    <3>2. bus'[n] = work[n].key /\ work[n].key # NoKey
      BY <3>1
    <3> QED
      BY <3>1, <3>2 DEF Placed, Turns, HasNoted
  <2> QED
    BY <2>1, <2>2, <2>3, <2>4
<1>24. CASE Detach(n)
  <2> USE <1>1, <1>2, <1>3, <1>4, <1>24, DetachEffect
  <2>1. PICK t \in Task :
           /\ task[t].state = "unused"
           /\ task' = [task EXCEPT ![t] =
                 [state |-> "running", kind |-> "remove", by |-> n, key |-> bus[n]]]
           /\ work'[n].task = t
    OBVIOUS
  <2>2. /\ task'[t].state = "running" /\ task'[t].kind = "remove" /\ task'[t].by = n
        /\ task'[t].key = bus[n]
        /\ \A u \in Task : u # t => task'[u] = task[u]
    BY <2>1 DEF Types
  <2>3. /\ work[n].op = "detach" /\ bus[n] # NoKey /\ MadeBy(n) = {bus[n]}
        /\ \A u \in Task : task[u].state = "running" => task[u].by # n
        /\ \A i \in Owner : store[i].task # NoTask => task[store[i].task].by # n
    BY DEF Placed, Watched, Filed, Fits, Owner
  <2>4. Watched(n)'
    BY <2>1, <2>2, <2>3 DEF Watched, Turns, HasNoted
  <2>5. Filed(n)'
    <3>1. \A i \in Owner : store[i].task # NoTask => store[i].task \in Task /\ store[i].task # t
      BY <2>1, Numbers DEF Shape, Kept, Owner, Types, Properties
    <3> QED
      BY <2>2, <2>3, <3>1 DEF Filed, Owner
  <2>6. Noticed(n)'
    <3>1. Runs(n)'
      BY <2>2 DEF Runs
    <3> QED
      BY <2>3, <3>1 DEF Noticed, Turns, HasNoted
  <2>7. Placed(n)'
    BY <2>1, <2>2, <2>3 DEF Placed, Turns, HasNoted
  <2> QED
    BY <2>4, <2>5, <2>6, <2>7
<1>25. CASE NothingToDetach(n)
  <2> USE <1>1, <1>2, <1>3, <1>4, <1>25, NothingToDetachEffect
  <2>1. Watched(n)'
    BY DEF Watched, Turns, HasNoted, Fits, Fresh
  <2>2. Filed(n)'
    BY DEF Filed, Turns, Owner, Fits, Fresh
  <2>3. Noticed(n)'
    BY <1>5 DEF Noticed, Turns, HasNoted, Kept, Fits, Watched, Fresh, Placed, Noted
  <2>4. Placed(n)'
    <3>1. bus[n] # NoKey /\ MadeBy(n) = {}
      <4>1. bus[n] \notin MadeBy(n)
        BY DEF MadeBy
      <4> QED
        BY <4>1 DEF Placed, Fits
    <3> QED
      BY <3>1 DEF Placed, Turns, HasNoted
  <2> QED
    BY <2>1, <2>2, <2>3, <2>4
<1>26. CASE Unkey(n)
  <2> USE <1>1, <1>2, <1>3, <1>4, <1>26, UnkeyEffect
  <2>1. Watched(n)'
    BY DEF Watched, Turns, HasNoted, Fits, Fresh
  <2>2. Filed(n)'
    BY DEF Filed, Turns, Owner, Fits, Fresh
  <2>3. Noticed(n)'
    BY <1>5 DEF Noticed, Turns, HasNoted, Kept, Fits, Watched, Fresh, Placed, Noted
  <2>4. Placed(n)'
    BY DEF Placed, Turns, HasNoted, Fits, Fresh
  <2> QED
    BY <2>1, <2>2, <2>3, <2>4
<1>27. CASE Crash(n)
  <2> USE <1>1, <1>2, <1>3, <1>4, <1>27, CrashEffect
  <2>1. Watched(n)'
    BY DEF Watched, Turns, HasNoted, Fits, Fresh
  <2>2. Filed(n)'
    BY DEF Filed, Turns, Owner, Fits, Fresh
  <2>3. Noticed(n)'
    BY <1>5 DEF Noticed, Turns, HasNoted, Kept, Fits, Watched, Fresh, Placed, Noted
  <2>4. Placed(n)'
    BY DEF Placed, Turns, HasNoted, Fits, Fresh
  <2> QED
    BY <2>1, <2>2, <2>3, <2>4
<1> QED
  BY <1>6, <1>7, <1>8, <1>9, <1>10, <1>11, <1>12, <1>13, <1>14, <1>15, <1>16, <1>17,
     <1>18, <1>19, <1>20, <1>21, <1>22, <1>23, <1>24, <1>25, <1>26, <1>27 DEF Worker

-----------------------------------------------------------------------------
(* Life when vSphere takes the step *)

\* The end of a task of another instance leaves m its devices, and those of its class
\* that it knows.
LEMMA OthersEnd ==
    ASSUME Types, Shape, Results, NEW t \in Task, task[t].state = "running",
           NEW r \in {"success", "error"}, task' = [task EXCEPT ![t].state = r],
           UNCHANGED <<store, bus, work, window>>, blamed \subseteq blamed',
           NEW m \in Node, task[t].by # m,
           MadeBy(m)' = MadeBy(m),
           m \in window => OfType(TypeOf[m])' \subseteq OfType(TypeOf[m]),
           bus[m] # NoKey /\ device[bus[m]].by = Nobody => device'[bus[m]].by = Nobody,
           Watched(m), Filed(m), Noticed(m), Placed(m)
    PROVE  Watched(m)' /\ Filed(m)' /\ Noticed(m)' /\ Placed(m)'
<1>1. /\ \A u \in Task : u # t => task'[u] = task[u]
      /\ task'[t].by = task[t].by
      /\ Home(m)' = Home(m) /\ Shelf(m)' = Shelf(m)
      /\ HasNoted(m)' <=> HasNoted(m)
  BY DEF Types, Reconfigure, Home, Shelf, HasNoted
<1>2. \A i \in Owner : store[i].task # NoTask => store[i].task \in Task
  BY Numbers DEF Types, Properties
<1>3. Watched(m)'
  BY <1>1 DEF Watched
<1>4. Filed(m)'
  BY <1>1, <1>2 DEF Filed, Owner
<1>5. Runs(m) => Runs(m)'
  BY <1>1 DEF Runs
<1>6. Noticed(m)'
  BY <1>1, <1>5 DEF Noticed
<1>7. Placed(m)'
  BY <1>1 DEF Placed, Shape, Fits
<1> QED
  BY <1>3, <1>4, <1>6, <1>7

\* What is so of n and the task of it that runs, and what its end does not change.
OwnTaskEnds(n, t) ==
    /\ task'[t].state # "running" /\ task'[t].by = n /\ task'[t].kind = task[t].kind
    /\ \A u \in Task : u # t => task'[u] = task[u]
    /\ Home(n)' = Home(n) /\ Shelf(n)' = Shelf(n)
    /\ HasNoted(n)' <=> HasNoted(n)
    /\ work[n].at \in {"save", "poll", "dispatch", "deferred"}
    /\ work[n].at \in {"save", "poll"} => work[n].task = t
    /\ \A u \in Task : task[u].state = "running" /\ task[u].by = n => u = t
    /\ \A i \in Owner : store[i].task # NoTask /\ task'[store[i].task].by = n =>
          i = Home(n) /\ store[i].task = t
    /\ task[t].kind = "add" =>
          /\ work[n].op = "attach" /\ HasNoted(n) /\ MadeBy(n) = {} /\ bus[n] = NoKey
    /\ task[t].kind = "remove" =>
          /\ work[n].op = "detach" /\ MadeBy(n) = {bus[n]} /\ bus[n] # NoKey
          /\ task[t].key = bus[n]

LEMMA OwnEnd ==
    ASSUME Types, Shape, Results, NEW t \in Task, task[t].state = "running",
           task' \in {[task EXCEPT ![t].state = r] : r \in {"success", "error"}},
           UNCHANGED <<store, bus, work, window>>,
           NEW n \in Node, task[t].by = n, Watched(n), Filed(n), Noticed(n), Placed(n)
    PROVE  OwnTaskEnds(n, t)
<1>1. /\ task'[t].state # "running" /\ task'[t].by = n /\ task'[t].kind = task[t].kind
      /\ \A u \in Task : u # t => task'[u] = task[u]
      /\ Home(n)' = Home(n) /\ Shelf(n)' = Shelf(n)
      /\ HasNoted(n)' <=> HasNoted(n)
  BY DEF Types, Reconfigure, Home, Shelf, HasNoted
<1>2. /\ work[n].at \in {"save", "poll", "dispatch", "deferred"}
      /\ work[n].at \in {"save", "poll"} => work[n].task = t
      /\ work[n].at # "save" => store[Home(n)].task = t
  BY DEF Watched
<1>3. \A u \in Task : task[u].state = "running" /\ task[u].by = n => u = t
  BY <1>2 DEF Watched
<1>4. ASSUME NEW i \in Owner, store[i].task # NoTask, task'[store[i].task].by = n
      PROVE  i = Home(n) /\ store[i].task = t
  <2>1. store[i].task \in Task
    BY <1>4, Numbers DEF Types, Properties
  <2>2. task[store[i].task].by = n
    BY <1>1, <1>4, <2>1
  <2> QED
    BY <1>2, <1>4, <2>2 DEF Filed, Owner
<1>5. task[t].kind = "add" =>
         work[n].op = "attach" /\ HasNoted(n) /\ MadeBy(n) = {} /\ bus[n] = NoKey
  BY WorkTypes DEF Watched, Noticed, Job
<1>6. task[t].kind = "remove" =>
         /\ work[n].op = "detach" /\ MadeBy(n) = {bus[n]} /\ bus[n] # NoKey
         /\ task[t].key = bus[n]
  <2>1. MadeBy(n) \subseteq Key
    BY DEF MadeBy
  <2> QED
    BY <2>1, WorkTypes, Numbers DEF Watched, Job
<1> QED
  BY <1>1, <1>2, <1>3, <1>4, <1>5, <1>6 DEF OwnTaskEnds

LEMMA AddEndsLife ==
    ASSUME Types, Shape, Results, NEW t \in Task, AddEnds(t), NEW m \in Node, m \notin excused',
           Watched(m), Filed(m), Noticed(m), Placed(m)
    PROVE  Watched(m)' /\ Filed(m)' /\ Noticed(m)' /\ Placed(m)'
<1>1. PICK k \in Key :
         /\ device[k].by = Nobody
         /\ device' = [device EXCEPT ![k] = Described(task[t].by)]
         /\ excused' = excused \union Misleads(t, k)
  BY DEF AddEnds
<1>2. /\ task[t].state = "running" /\ task[t].kind = "add" /\ task[t].by \in Node
      /\ task' = [task EXCEPT ![t].state = "success"]
      /\ UNCHANGED <<store, bus, work, window, blamed>>
      /\ device \in [Key -> Device]
  BY DEF AddEnds, Results, Types
<1>3. /\ device'[k].by = task[t].by /\ device'[k].type = TypeOf[task[t].by]
      /\ \A j \in Key : j # k => device'[j] = device[j]
  BY <1>1, <1>2 DEF Described
<1>4. m \notin Misleads(t, k) /\ m # Nobody
  BY <1>1
<1>5. CASE task[t].by # m
  <2>1. MadeBy(m)' = MadeBy(m)
    BY <1>1, <1>3, <1>4, <1>5 DEF MadeBy
  <2>2. m \in window => OfType(TypeOf[m])' \subseteq OfType(TypeOf[m])
    BY <1>3, <1>4, <1>5 DEF Misleads, OfType
  <2>3. bus[m] # NoKey /\ device[bus[m]].by = Nobody => device'[bus[m]].by = Nobody
    BY <1>3, <1>4, Numbers DEF Misleads, Types
  <2> QED
    BY <1>2, <1>5, <2>1, <2>2, <2>3, OthersEnd
<1>6. CASE task[t].by = m
  <2>1. /\ task'[t].state = "success" /\ task'[t].by = m /\ task'[t].kind = "add"
        /\ \A u \in Task : u # t => task'[u] = task[u]
        /\ Home(m)' = Home(m) /\ Shelf(m)' = Shelf(m)
        /\ HasNoted(m)' /\ HasNoted(m)
        /\ work[m].at \in {"save", "poll", "dispatch", "deferred"}
        /\ work[m].at \in {"save", "poll"} => work[m].task = t
        /\ \A u \in Task : task[u].state = "running" /\ task[u].by = m => u = t
        /\ \A i \in Owner : store[i].task # NoTask /\ task'[store[i].task].by = m =>
              i = Home(m) /\ store[i].task = t
        /\ work[m].op = "attach" /\ MadeBy(m) = {} /\ bus[m] = NoKey
    <3>1. task' \in {[task EXCEPT ![t].state = r] : r \in {"success", "error"}}
      BY <1>2
    <3>2. task'[t].state = "success"
      BY <1>2 DEF Types
    <3>3. OwnTaskEnds(m, t)
      BY <1>2, <1>6, <3>1, OwnEnd
    <3> QED
      BY <3>2, <3>3, <1>2 DEF OwnTaskEnds
  <2>2. MadeBy(m)' = {k}
    BY <1>3, <1>6, <2>1 DEF MadeBy
  <2>3. k \notin store[Shelf(m)].known
    BY <1>4, <2>1 DEF Misleads, HasNoted, Shelf
  <2>4. OfType(TypeOf[m])' \subseteq OfType(TypeOf[m]) \union {k}
    BY <1>3 DEF OfType
  <2>5. Watched(m)'
    BY <2>1 DEF Watched
  <2>6. Filed(m)'
    BY <1>2, <2>1, <2>2 DEF Filed, Owner
  <2>7. Noticed(m)'
    BY <1>2, <2>1, <2>2, <2>3, <2>4 DEF Noticed
  <2>8. Placed(m)'
    BY <1>2, <2>1, <2>2 DEF Placed
  <2> QED
    BY <2>5, <2>6, <2>7, <2>8
<1> QED
  BY <1>5, <1>6

LEMMA RemoveEndsLife ==
    ASSUME Types, Shape, Results, NEW t \in Task, RemoveEnds(t), NEW m \in Node, m \notin excused',
           Watched(m), Filed(m), Noticed(m), Placed(m)
    PROVE  Watched(m)' /\ Filed(m)' /\ Noticed(m)' /\ Placed(m)'
<1> DEFINE k == task[t].key
<1>1. /\ task[t].state = "running" /\ task[t].kind = "remove" /\ task[t].by \in Node /\ k \in Key
      /\ task' = [task EXCEPT ![t].state = "success"]
      /\ UNCHANGED <<store, bus, work, window, blamed>>
      /\ device \in [Key -> Device]
      /\ excused' = excused \union ({device[k].by} \ {task[t].by})
      /\ device' = [device EXCEPT ![k] = Free]
  BY DEF RemoveEnds, Results, Types
<1> HIDE DEF k
<1>2. /\ device'[k].by = Nobody
      /\ \A j \in Key : j # k => device'[j] = device[j]
  BY <1>1 DEF Free
<1>3. OfType(TypeOf[m])' \subseteq OfType(TypeOf[m])
  BY <1>2 DEF OfType
<1>4. CASE task[t].by # m
  <2>1. MadeBy(m)' = MadeBy(m)
    BY <1>1, <1>2, <1>4 DEF MadeBy
  <2>2. bus[m] # NoKey /\ device[bus[m]].by = Nobody => device'[bus[m]].by = Nobody
    BY <1>2, Numbers DEF Types
  <2> QED
    BY <1>1, <1>3, <1>4, <2>1, <2>2, OthersEnd
<1>5. CASE task[t].by = m
  <2>1. /\ task'[t].state = "success" /\ task'[t].by = m /\ task'[t].kind = "remove"
        /\ \A u \in Task : u # t => task'[u] = task[u]
        /\ Home(m)' = Home(m) /\ Shelf(m)' = Shelf(m)
        /\ HasNoted(m)' <=> HasNoted(m)
        /\ work[m].at \in {"save", "poll", "dispatch", "deferred"}
        /\ work[m].at \in {"save", "poll"} => work[m].task = t
        /\ \A u \in Task : task[u].state = "running" /\ task[u].by = m => u = t
        /\ \A i \in Owner : store[i].task # NoTask /\ task'[store[i].task].by = m =>
              i = Home(m) /\ store[i].task = t
        /\ work[m].op = "detach" /\ MadeBy(m) = {bus[m]} /\ bus[m] # NoKey /\ k = bus[m]
    <3>1. task' \in {[task EXCEPT ![t].state = r] : r \in {"success", "error"}}
      BY <1>1
    <3>2. task'[t].state = "success"
      BY <1>1 DEF Types
    <3>3. OwnTaskEnds(m, t)
      BY <1>1, <1>5, <3>1, OwnEnd
    <3> QED
      BY <1>1, <3>2, <3>3 DEF k, OwnTaskEnds
  <2>2. MadeBy(m)' = {} /\ device'[bus[m]].by = Nobody
    BY <1>2, <2>1 DEF MadeBy
  <2>3. ~HasNoted(m)
    BY <2>1 DEF Noticed
  <2>4. Watched(m)'
    BY <2>1 DEF Watched
  <2>5. Filed(m)'
    BY <1>1, <2>1, <2>2 DEF Filed, Owner
  <2>6. Noticed(m)'
    BY <2>1, <2>3 DEF Noticed
  <2>7. Placed(m)'
    BY <1>1, <2>1, <2>2 DEF Placed
  <2> QED
    BY <2>4, <2>5, <2>6, <2>7
<1> QED
  BY <1>4, <1>5

LEMMA TaskFailsLife ==
    ASSUME Types, Shape, Results, NEW t \in Task, TaskFails(t), NEW m \in Node,
           Watched(m), Filed(m), Noticed(m), Placed(m)
    PROVE  Watched(m)' /\ Filed(m)' /\ Noticed(m)' /\ Placed(m)'
<1>1. /\ task[t].state = "running" /\ task[t].by \in Node
      /\ task' = [task EXCEPT ![t].state = "error"]
      /\ UNCHANGED <<store, bus, work, window, device>>
      /\ blamed \subseteq blamed'
      /\ task[t].kind = "add" => task[t].by \in blamed'
  BY DEF TaskFails, Results, Types
<1>2. /\ OfType(TypeOf[m])' = OfType(TypeOf[m])
      /\ MadeBy(m)' = MadeBy(m)
  BY <1>1 DEF OfType, MadeBy
<1>3. CASE task[t].by # m
  BY <1>1, <1>2, <1>3, OthersEnd
<1>4. CASE task[t].by = m
  <2>0. OwnTaskEnds(m, t)
    <3>1. task' \in {[task EXCEPT ![t].state = r] : r \in {"success", "error"}}
      BY <1>1
    <3> QED
      BY <1>1, <1>4, <3>1, OwnEnd
  <2>1. /\ task'[t].state = "error" /\ task'[t].by = m /\ task'[t].kind = task[t].kind
        /\ \A u \in Task : u # t => task'[u] = task[u]
        /\ Home(m)' = Home(m) /\ Shelf(m)' = Shelf(m)
        /\ HasNoted(m)' <=> HasNoted(m)
        /\ work[m].at \in {"save", "poll", "dispatch", "deferred"}
        /\ work[m].at \in {"save", "poll"} => work[m].task = t
        /\ \A u \in Task : task[u].state = "running" /\ task[u].by = m => u = t
        /\ \A i \in Owner : store[i].task # NoTask /\ task'[store[i].task].by = m =>
              i = Home(m) /\ store[i].task = t
    <3>1. task'[t].state = "error"
      BY <1>1 DEF Types
    <3> QED
      BY <1>1, <1>4, <2>0, <3>1 DEF OwnTaskEnds
  <2>2. \/ /\ task[t].kind = "add" /\ work[m].op = "attach" /\ HasNoted(m)
           /\ MadeBy(m) = {} /\ bus[m] = NoKey
        \/ /\ task[t].kind = "remove" /\ work[m].op = "detach"
           /\ MadeBy(m) = {bus[m]} /\ bus[m] # NoKey
    <3>1. task[t].kind \in {"add", "remove"}
      BY DEF Types, Reconfigure
    <3> QED
      BY <1>1, <1>4, <2>0, <3>1 DEF OwnTaskEnds
  <2>3. Watched(m)'
    BY <2>1 DEF Watched
  <2>4. Filed(m)'
    BY <1>1, <1>2, <2>1, <2>2 DEF Filed, Owner
  <2>5. Noticed(m)'
    BY <1>1, <1>2, <1>4, <2>1, <2>2 DEF Noticed
  <2>6. Placed(m)'
    BY <1>1, <1>2, <2>1, <2>2 DEF Placed
  <2> QED
    BY <2>3, <2>4, <2>5, <2>6
<1> QED
  BY <1>3, <1>4

-----------------------------------------------------------------------------
(* The invariant *)

LEMMA LifeStep ==
    ASSUME Types, Shape, Results, Life, Next
    PROVE  Life'
<1> SUFFICES ASSUME NEW m \in Node, m \notin excused'
             PROVE  Watched(m)' /\ Filed(m)' /\ Noticed(m)' /\ Placed(m)'
  BY DEF Life
<1>1. ASSUME NEW n \in Node, Worker(n)
      PROVE  Watched(m)' /\ Filed(m)' /\ Noticed(m)' /\ Placed(m)'
  <2>1. Watched(m) /\ Filed(m) /\ Noticed(m) /\ Placed(m)
    BY <1>1, WorkerFrame DEF Grows, Life
  <2>2. CASE m = n
    BY <1>1, <2>1, <2>2, OwnLife
  <2>3. CASE m # n
    BY <1>1, <2>1, <2>3, OthersLeave, LeavesLife
  <2> QED
    BY <2>2, <2>3
<1>2. ASSUME NEW t \in Task, AddEnds(t) \/ RemoveEnds(t) \/ TaskFails(t)
      PROVE  Watched(m)' /\ Filed(m)' /\ Noticed(m)' /\ Placed(m)'
  <2>1. Watched(m) /\ Filed(m) /\ Noticed(m) /\ Placed(m)
    BY <1>2, VsphereFrame DEF Vsphere, Grows, Life
  <2> QED
    BY <1>2, <2>1, AddEndsLife, RemoveEndsLife, TaskFailsLife
<1> QED
  BY <1>1, <1>2 DEF Next

\* Only NotFound tells that no device was found.
LEMMA OnlyNotFound ==
    ASSUME Types, Shape, NEW n \in Node, Worker(n), work'[n].outcome = "missing"
    PROVE  NotFound(n)
<1>1. work[n].at # "idle" => work[n].outcome = "none"
  BY DEF Shape, Fits
<1>2. CASE Begin(n)
  BY <1>1, <1>2, BeginEffect DEF Turns
<1>3. CASE Skips(n)
  BY <1>1, <1>3, SkipsEffect DEF Turns
<1>4. CASE Dispatch(n)
  BY <1>1, <1>4, DispatchEffect DEF Turns
<1>5. CASE WaitTimesOut(n)
  BY <1>1, <1>5, WaitTimesOutEffect DEF Turns
<1>6. CASE Breaks(n)
  BY <1>1, <1>6, BreaksEffect DEF Turns
<1>7. CASE DeferredReturns(n)
  BY <1>1, <1>7, DeferredReturnsEffect DEF Turns
<1>8. CASE DeferredFails(n)
  BY <1>1, <1>8, DeferredFailsEffect DEF Turns
<1>9. CASE NoNetwork(n)
  BY <1>1, <1>9, NoNetworkEffect DEF Turns
<1>10. CASE Read(n)
  BY <1>1, <1>10, ReadEffect DEF Turns
<1>11. CASE AlreadyNoted(n)
  BY <1>1, <1>11, AlreadyNotedEffect DEF Turns
<1>12. CASE Note(n)
  BY <1>1, <1>12, NoteEffect DEF Turns
<1>13. CASE Start(n)
  BY <1>1, <1>13, StartEffect DEF Turns
<1>14. CASE SaveTask(n)
  BY <1>1, <1>14, SaveTaskEffect DEF Turns
<1>15. CASE ForgetTask(n)
  BY <1>1, <1>15, ForgetTaskEffect DEF Turns
<1>16. CASE Find(n)
  BY <1>1, <1>16, FindEffect DEF Turns
<1>17. CASE Drop(n)
  BY <1>1, <1>17, DropEffect DEF Turns
<1>18. CASE Keep(n)
  BY <1>1, <1>18, KeepEffect DEF Turns
<1>19. CASE Detach(n)
  BY <1>1, <1>19, DetachEffect DEF Turns
<1>20. CASE NothingToDetach(n)
  BY <1>1, <1>20, NothingToDetachEffect DEF Turns
<1>21. CASE Unkey(n)
  BY <1>1, <1>21, UnkeyEffect DEF Turns
<1>22. CASE Crash(n)
  BY <1>1, <1>22, CrashEffect DEF Turns
<1> QED
  BY <1>2, <1>3, <1>4, <1>5, <1>6, <1>7, <1>8, <1>9, <1>10, <1>11, <1>12, <1>13,
     <1>14, <1>15, <1>16, <1>17, <1>18, <1>19, <1>20, <1>21, <1>22 DEF Worker

\* Who noted the keys and has no task that runs finds its device, unless adding it failed.
LEMMA NotFoundStep ==
    ASSUME Types, Shape, Results, Life, NotFoundHasReason, Next
    PROVE  NotFoundHasReason'
<1> SUFFICES ASSUME NEW m \in Node, work'[m].outcome = "missing"
             PROVE  m \in excused' \union blamed'
  BY DEF NotFoundHasReason
<1>1. ASSUME work[m].outcome = "missing", Grows
      PROVE  m \in excused' \union blamed'
  BY <1>1 DEF NotFoundHasReason, Grows
<1>2. CASE Vsphere
  BY <1>1, <1>2, VsphereFrame
<1>3. ASSUME NEW n \in Node, Worker(n), m # n
      PROVE  m \in excused' \union blamed'
  BY <1>1, <1>3, OthersStill, WorkerFrame DEF Still
<1>4. ASSUME Worker(m)
      PROVE  m \in excused' \union blamed'
  <2>1. NotFound(m) /\ Grows
    BY <1>4, OnlyNotFound, WorkerFrame
  <2>2. work[m].at = "find" /\ NewKeys(m) = {} /\ Fits(m)
    BY <2>1, NotFoundEffect DEF Shape
  <2>3. ASSUME m \notin excused
        PROVE  m \in blamed
    <3>1. Watched(m) /\ Noticed(m) /\ Placed(m)
      BY <2>3 DEF Life
    <3>2. HasNoted(m)
      BY <2>2, <3>1 DEF Placed, Fits
    <3>3. ~Runs(m)
      BY <2>2, <3>1 DEF Watched, Runs
    <3>4. MadeBy(m) \subseteq NewKeys(m)
      <4>1. MadeBy(m) \subseteq OfType(TypeOf[m])
        BY DEF MadeBy, OfType, Results
      <4> QED
        BY <2>2, <3>1, <3>2, <4>1 DEF Noticed, NewKeys
    <3> QED
      BY <2>2, <3>1, <3>2, <3>3, <3>4 DEF Noticed
  <2> QED
    BY <2>1, <2>3 DEF Grows
<1> QED
  BY <1>2, <1>3, <1>4 DEF Next, Vsphere

LEMMA IInvInit == Init => IInv
<1> SUFFICES ASSUME Init
             PROVE  IInv
  OBVIOUS
<1>1. Types
  BY TypeInit
<1>2. /\ \A n \in Node : work[n] = Idle("detach", "ok") /\ bus[n] = NoKey
      /\ \A i \in Owner : store[i] = NoneStored
      /\ \A t \in Task : task[t] = Unused
  BY DEF Init, Owner
<1>3. \A k \in Key : device[k].by \in {Nobody, Template}
  <2>1. Free.by = Nobody /\ \A c \in Type : [by |-> Template, type |-> c].by = Template
    BY DEF Free
  <2> QED
    BY <2>1 DEF Init
<1>4. \A n \in Node : MadeBy(n) = {}
  BY <1>3 DEF MadeBy
<1>5. NoneStored.known = Absent /\ NoneStored.task = NoTask /\ NoneStored.noted = Nobody
  BY DEF NoneStored
<1>6. Unused.state = "unused"
  BY DEF Unused
<1>7. /\ Idle("detach", "ok").op = "detach" /\ Idle("detach", "ok").at = "idle"
      /\ Idle("detach", "ok").outcome = "ok" /\ Idle("detach", "ok").copy = "none"
  BY IdleFields
<1>8. Shape
  BY <1>2, <1>5, <1>7 DEF Shape, Fits, Fresh, Kept, Owner
<1>9. Results
  BY <1>2, <1>3, <1>6 DEF Results
<1>10. ASSUME NEW n \in Node
       PROVE  Watched(n) /\ Filed(n) /\ Noticed(n) /\ Placed(n)
  <2>1. ~HasNoted(n)
    BY <1>2, <1>5 DEF HasNoted, Shelf, Owner
  <2>2. Watched(n)
    BY <1>2, <1>6 DEF Watched
  <2>3. Filed(n)
    BY <1>2, <1>5 DEF Filed, Owner
  <2>4. Noticed(n)
    BY <2>1 DEF Noticed
  <2>5. Placed(n)
    BY <1>2, <1>4, <1>7 DEF Placed
  <2> QED
    BY <2>2, <2>3, <2>4, <2>5
<1>11. NotFoundHasReason
  BY <1>2, <1>7 DEF NotFoundHasReason
<1> QED
  BY <1>1, <1>8, <1>9, <1>10, <1>11 DEF IInv, Life

LEMMA IInvStep == IInv /\ [Next]_vars => IInv'
<1> SUFFICES ASSUME IInv, [Next]_vars
             PROVE  IInv'
  OBVIOUS
<1> USE DEF IInv
<1>1. CASE UNCHANGED vars
  BY <1>1 DEF vars, Types, Shape, Fits, Fresh, Kept, Results, Life, Watched, Filed, Noticed, Placed,
     NotFoundHasReason, HasNoted, Shelf, Home, MadeBy, OfType, Runs
<1>2. CASE Next
  <2>1. Types'
    <3>1. CASE Vsphere
      BY <3>1, VsphereFrame
    <3>2. ASSUME NEW n \in Node, Worker(n)
          PROVE  Types'
      BY <3>2, WorkerTypes
    <3> QED
      BY <1>2, <3>1, <3>2 DEF Next, Vsphere
  <2> QED
    BY <1>2, <2>1, ShapeStep, ResultsStep, LifeStep, NotFoundStep
<1> QED
  BY <1>1, <1>2

\* The inductive invariant holds in every reachable state: who noted the keys of the devices
\* made at most one device since, and it is the only unknown one of its class.
THEOREM Invariance == Spec => []IInv
BY IInvInit, IInvStep, PTL DEF Spec

\* The variables stay within their types.
THEOREM TypeCorrect == Spec => []TypeOK
<1>1. IInv => TypeOK
  BY SameTypes DEF IInv
<1> QED
  BY <1>1, Invariance, PTL

\* The device that busKey names was made for this instance, or is gone: detach_controller
\* never removes the card or controller of another, for any number of instances on a server.
THEOREM DetachesItsOwn == Spec => []OwnDevice
<1>1. IInv => OwnDevice
  <2> SUFFICES ASSUME IInv, NEW n \in Node, n \notin excused, bus[n] # NoKey
               PROVE  device[bus[n]].by \in {n, Nobody}
    BY DEF OwnDevice
  <2>1. MadeBy(n) = {bus[n]} \/ device[bus[n]].by = Nobody
    BY DEF IInv, Life, Placed
  <2> QED
    BY <2>1 DEF MadeBy
<1> QED
  BY <1>1, Invariance, PTL

\* After attach_controller there is exactly one device of the instance, the one busKey names,
\* however many attempts it took; after detach_controller there is none.
THEOREM AttachedOnce == Spec => []SuccessMeansDone
<1>1. IInv => SuccessMeansDone
  <2> SUFFICES ASSUME IInv, NEW n \in Node, n \notin excused, work[n].outcome = "ok"
               PROVE  IF work[n].op = "attach" THEN MadeBy(n) = {bus[n]} ELSE MadeBy(n) = {}
    BY DEF SuccessMeansDone
  <2>1. Fits(n) /\ Placed(n) /\ work[n].op \in {"attach", "detach"}
    BY WorkTypes DEF IInv, Shape, Life, Job
  <2>2. work[n].at = "idle"
    BY <2>1 DEF Fits
  <2> QED
    BY <2>1, <2>2 DEF Placed
<1> QED
  BY <1>1, Invariance, PTL

\* 'Have not found key for new added device' is raised only if adding the device failed, or
\* a crash, a time-out for good or another instance came in between.
THEOREM FoundUnlessDisturbed == Spec => []NotFoundHasReason
<1>1. IInv => NotFoundHasReason
  BY DEF IInv
<1> QED
  BY <1>1, Invariance, PTL

=============================================================================
