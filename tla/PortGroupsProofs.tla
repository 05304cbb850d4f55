--------------------------- MODULE PortGroupsProofs ---------------------------
(***************************************************************************)
(* Theorems about PortGroups, for any instances and any hosts.             *)
(*                                                                         *)
(* What a report of success says is not inductive: it is true because of   *)
(* what the status says while the instance is installed (Complete), which  *)
(* is true because the cached networks were true when the attempt began    *)
(* (Seen); and for delete because every host is cleared or still to be     *)
(* visited (Cleared).                                                      *)
(***************************************************************************)
EXTENDS PortGroups, TLAPS

\* Where a worker can be, what it works on and what its status is there.
Placed(n) ==
    /\ work[n].at \in {"prepare", "switch", "adding", "note", "finish"} => work[n].op = "create"
    /\ work[n].at \in {"remove", "removing"} => work[n].op = "delete"
    /\ work[n].at \in {"prepare", "switch", "adding", "note", "remove",
        "removing"} => n \notin external
    /\ work[n].at = "switch" => props[n].status # "none"
    /\ work[n].at \in {"adding", "note"} => props[n].status = "creating"
    /\ work[n].at \in {"note", "removing"} => work[n].host \in work[n].todo
    /\ work[n].at = "finish" /\ n \notin external => props[n].status = "created"
    /\ work[n].op = "none" => work[n].at = "idle" /\ props[n] = NoProps
    /\ Reported(n, "create") => props[n].status = "created"
    /\ At(n, "delete", "idle") /\ work[n].outcome = "ok" => props[n] = NoProps

Complete(n) ==
    work[n].op = "create" /\ props[n].status = "created" => Host \subseteq group \union gone[n]

Seen(n) ==
    /\ work[n].at \in {"prepare", "switch", "adding", "note"} /\ props[n].status # "created" =>
          work[n].seen \subseteq group \union gone[n]
    /\ work[n].at \in {"prepare", "switch"} /\ props[n].status \in {"none", "preparing"} =>
          work[n].seen = {}

Cleared(n) ==
    /\ work[n].at \in {"remove", "removing"} => group \subseteq put[n] \union work[n].todo
    /\ Reported(n, "delete") => group \subseteq put[n]

IInv ==
    /\ TypeOK
    /\ \A n \in Net : Placed(n) /\ Complete(n) /\ Seen(n) /\ Cleared(n)

-----------------------------------------------------------------------------

USE PortGroupsAssumption DEF Inputs, SameGroups

\* The invariant holds at the start.
LEMMA InvariantInit == Init => IInv
  BY DEF Init, IInv, TypeOK, Placed, Complete, Seen, Cleared, Reported, At, Work, Place,
         Status, NoProps

\* A worker keeps its type under each of the updates the actions make.
LEMMA WorkUpdate ==
    ASSUME NEW w \in Work, NEW at \in Place, NEW todo \in SUBSET Host, NEW seen \in SUBSET Host,
           NEW host \in Host \union {NoHost}, NEW outcome \in {"none", "ok", "failed"},
               NEW op \in {"none", "create", "delete"}
    PROVE  /\ [w EXCEPT !.at = at] \in Work
           /\ [w EXCEPT !.todo = todo] \in Work
           /\ [w EXCEPT !.at = at, !.host = host] \in Work
           /\ [w EXCEPT !.at = at, !.todo = todo] \in Work
           /\ [w EXCEPT !.at = at, !.seen = seen] \in Work
           /\ [w EXCEPT !.at = at, !.todo = todo, !.host = host] \in Work
           /\ [w EXCEPT !.at = at, !.seen = seen, !.todo = todo, !.host = host] \in Work
           /\ [w EXCEPT !.op = op, !.at = at, !.outcome = outcome] \in Work
           /\ [w EXCEPT !.at = at, !.outcome = outcome, !.seen = seen, !.todo = todo, !.host = host] \in Work
  BY DEF Work

\* Every step of the system, and every stutter, preserves the invariant.
LEMMA InvariantStep == IInv /\ [Next]_vars => IInv'
<1> SUFFICES ASSUME IInv, [Next]_vars
             PROVE  IInv'
  OBVIOUS
<1> USE DEF IInv, NoProps
<1>0. \A n \in Net : work[n] \in Work /\ work[n].todo \subseteq Host /\ props[n].on \subseteq Host
  BY DEF TypeOK, Work
<1>1. CASE Outsider
  <2>1. TypeOK'
    <3>1. work' \in [Net -> Work]
      BY <1>1 DEF TypeOK, Outsider, GroupAdded, GroupRemoved
    <3> QED
      BY <1>1, <3>1 DEF TypeOK, Status, Work, At, Outsider, GroupAdded, GroupRemoved
  <2>2. \A n \in Net : Placed(n)'
    BY <1>1 DEF TypeOK, Work, Placed, Reported, At, Outsider, GroupAdded, GroupRemoved
  <2>3. \A n \in Net : (Complete(n) /\ Seen(n) /\ Cleared(n))'
    BY <1>1 DEF TypeOK, Work, Complete, Placed, Seen, Cleared, At, Reported, Outsider,
       GroupAdded, GroupRemoved
  <2> QED
    BY <2>1, <2>2, <2>3
<1>2. ASSUME NEW m \in Net, NEW name \in {"create", "delete"}, Begin(m, name)
      PROVE  IInv'
  <2>1. TypeOK'
    <3>1. work' \in [Net -> Work]
      BY <1>2, <1>0, WorkUpdate DEF TypeOK, Place, Begin, MayBegin
    <3> QED
      BY <1>2, <3>1 DEF TypeOK, Status, Work, At, Begin, MayBegin
  <2>2. \A n \in Net : Placed(n)'
    BY <1>2 DEF TypeOK, Work, Placed, Reported, At, Begin, MayBegin
  <2>3. \A n \in Net : (Complete(n) /\ Seen(n) /\ Cleared(n))'
    BY <1>2 DEF TypeOK, Work, Complete, Placed, Seen, Cleared, At, Reported, Begin, MayBegin
  <2> QED
    BY <2>1, <2>2, <2>3
<1>3. ASSUME NEW m \in Net, Interrupted(m)
      PROVE  IInv'
  <2>1. TypeOK'
    <3>1. work' \in [Net -> Work]
      BY <1>3, <1>0, WorkUpdate DEF TypeOK, Place, Interrupted, TryAgain
    <3> QED
      BY <1>3, <3>1 DEF TypeOK, Status, Work, At, Interrupted, TryAgain
  <2>2. \A n \in Net : Placed(n)'
    BY <1>3 DEF TypeOK, Work, Placed, Reported, At, Interrupted, TryAgain
  <2>3. \A n \in Net : (Complete(n) /\ Seen(n) /\ Cleared(n))'
    BY <1>3 DEF TypeOK, Work, Complete, Placed, Seen, Cleared, At, Reported, Interrupted,
       TryAgain
  <2> QED
    BY <2>1, <2>2, <2>3
<1>4. ASSUME NEW m \in Net, GivesUp(m)
      PROVE  IInv'
  <2>1. TypeOK'
    <3>1. work' \in [Net -> Work]
      BY <1>4, <1>0, WorkUpdate DEF TypeOK, Place, GivesUp, Ends
    <3> QED
      BY <1>4, <3>1 DEF TypeOK, Status, Work, At, GivesUp, Ends
  <2>2. \A n \in Net : Placed(n)'
    BY <1>4 DEF TypeOK, Work, Placed, Reported, At, GivesUp, Ends
  <2>3. \A n \in Net : (Complete(n) /\ Seen(n) /\ Cleared(n))'
    BY <1>4 DEF TypeOK, Work, Complete, Placed, Seen, Cleared, At, Reported, GivesUp, Ends
  <2> QED
    BY <2>1, <2>2, <2>3
<1>5. ASSUME NEW m \in Net, LookFails(m)
      PROVE  IInv'
  <2>1. TypeOK'
    <3>1. work' \in [Net -> Work]
      BY <1>5, <1>0, WorkUpdate DEF TypeOK, Place, LookFails, Ends, Watches, Refused
    <3> QED
      BY <1>5, <3>1 DEF TypeOK, Status, Work, At, LookFails, Ends, Watches, Refused
  <2>2. \A n \in Net : Placed(n)'
    BY <1>5 DEF TypeOK, Work, Placed, Reported, At, LookFails, Ends, Watches, Refused
  <2>3. \A n \in Net : (Complete(n) /\ Seen(n) /\ Cleared(n))'
    BY <1>5 DEF TypeOK, Work, Complete, Placed, Seen, Cleared, At, Reported, LookFails, Ends,
       Watches, Refused
  <2> QED
    BY <2>1, <2>2, <2>3
<1>6. ASSUME NEW m \in Net, Look(m)
      PROVE  IInv'
  <2>1. TypeOK'
    <3>1. work' \in [Net -> Work]
      BY <1>6, <1>0, WorkUpdate DEF TypeOK, Place, Look, Watches, Refused
    <3> QED
      BY <1>6, <3>1 DEF TypeOK, Status, Work, At, Look, Watches, Refused
  <2>2. \A n \in Net : Placed(n)'
    BY <1>6 DEF TypeOK, Work, Placed, Reported, At, Look, Watches, Refused
  <2>3. \A n \in Net : Complete(n)'
    BY <1>6 DEF TypeOK, Work, Complete, Placed, Seen, At, Reported, Look, Watches, Refused
  <2>4. \A n \in Net : Seen(n)'
    BY <1>6 DEF TypeOK, Work, Seen, Placed, At, Look, Watches, Refused
  <2>5. \A n \in Net : Cleared(n)'
    BY <1>6 DEF TypeOK, Work, Cleared, Placed, At, Reported, Look, Watches, Refused
  <2> QED
    BY <2>1, <2>2, <2>3, <2>4, <2>5
<1>7. ASSUME NEW m \in Net, Prepare(m)
      PROVE  IInv'
  <2>1. TypeOK'
    <3>1. work' \in [Net -> Work]
      BY <1>7, <1>0, WorkUpdate DEF TypeOK, Place, Prepare, Goes
    <3> QED
      BY <1>7, <3>1 DEF TypeOK, Status, Work, At, Prepare, Goes
  <2>2. \A n \in Net : Placed(n)'
    <3> SUFFICES ASSUME NEW n \in Net
                 PROVE  Placed(n)'
      OBVIOUS
    <3>1. CASE n = m
      <4>1. props'[m] = [props[m] EXCEPT !.status = IF props[m].status = "none" THEN "preparing" ELSE props[m].status]
        BY <1>7 DEF TypeOK, Status, Prepare, Goes
      <4>2. work'[m] = [work[m] EXCEPT !.at = "switch"]
        BY <1>7 DEF TypeOK, Work, Prepare, Goes
      <4>3. work[m] \in Work /\ props[m] \in [status : Status,
          on : SUBSET Host] /\ external' = external
        BY <1>7 DEF TypeOK, Prepare, Goes
      <4> QED
        BY <1>7, <3>1, <4>1, <4>2, <4>3 DEF Work, Placed, Reported, At, Prepare, Goes
    <3>2. CASE n # m
      <4>1. work'[n] = work[n] /\ props'[n] = props[n] /\ external' = external
        BY <1>7, <3>2 DEF TypeOK, Prepare, Goes
      <4> QED
        BY <4>1 DEF Placed, Reported, At
    <3> QED
      BY <3>1, <3>2
  <2>3. \A n \in Net : (Complete(n) /\ Seen(n) /\ Cleared(n))'
    BY <1>7 DEF TypeOK, Work, Complete, Placed, Seen, Cleared, At, Reported, Prepare, Goes
  <2> QED
    BY <2>1, <2>2, <2>3
<1>8. ASSUME NEW m \in Net, NoSwitch(m)
      PROVE  IInv'
  <2>1. TypeOK'
    <3>1. work' \in [Net -> Work]
      BY <1>8, <1>0, WorkUpdate DEF TypeOK, Place, NoSwitch, Ends
    <3> QED
      BY <1>8, <3>1 DEF TypeOK, Status, Work, At, NoSwitch, Ends
  <2>2. \A n \in Net : Placed(n)'
    BY <1>8 DEF TypeOK, Work, Placed, Reported, At, NoSwitch, Ends
  <2>3. \A n \in Net : (Complete(n) /\ Seen(n) /\ Cleared(n))'
    BY <1>8 DEF TypeOK, Work, Complete, Placed, Seen, Cleared, At, Reported, NoSwitch, Ends
  <2> QED
    BY <2>1, <2>2, <2>3
<1>9. ASSUME NEW m \in Net, StartAdding(m)
      PROVE  IInv'
  <2>1. TypeOK'
    <3>1. work' \in [Net -> Work]
      BY <1>9, <1>0, WorkUpdate DEF TypeOK, Place, StartAdding
    <3> QED
      BY <1>9, <3>1 DEF TypeOK, Status, Work, At, StartAdding
  <2>2. \A n \in Net : Placed(n)'
    <3> SUFFICES ASSUME NEW n \in Net
                 PROVE  Placed(n)'
      OBVIOUS
    <3>1. CASE n = m
      <4>1. props'[m] = [props[m] EXCEPT !.status = "creating"]
        BY <1>9 DEF TypeOK, Status, StartAdding
      <4>2. work'[m] = [work[m] EXCEPT !.at = "adding", !.todo = Host \ props[m].on]
        BY <1>9 DEF TypeOK, Work, StartAdding
      <4>3. work[m] \in Work /\ props[m] \in [status : Status,
          on : SUBSET Host] /\ external' = external
        BY <1>9 DEF TypeOK, StartAdding
      <4> QED
        BY <1>9, <3>1, <4>1, <4>2, <4>3 DEF Work, Placed, Reported, At, StartAdding
    <3>2. CASE n # m
      <4>1. work'[n] = work[n] /\ props'[n] = props[n] /\ external' = external
        BY <1>9, <3>2 DEF TypeOK, StartAdding
      <4> QED
        BY <4>1 DEF Placed, Reported, At
    <3> QED
      BY <3>1, <3>2
  <2>3. \A n \in Net : (Complete(n) /\ Seen(n) /\ Cleared(n))'
    BY <1>9 DEF TypeOK, Work, Complete, Placed, Seen, Cleared, At, Reported, StartAdding
  <2> QED
    BY <2>1, <2>2, <2>3
<1>10. ASSUME NEW m \in Net, NothingToAdd(m)
      PROVE  IInv'
  <2>1. TypeOK'
    <3>1. work' \in [Net -> Work]
      BY <1>10, <1>0, WorkUpdate DEF TypeOK, Place, NothingToAdd, Goes
    <3> QED
      BY <1>10, <3>1 DEF TypeOK, Status, Work, At, NothingToAdd, Goes
  <2>2. \A n \in Net : Placed(n)'
    BY <1>10 DEF TypeOK, Work, Placed, Reported, At, NothingToAdd, Goes
  <2>3. \A n \in Net : (Complete(n) /\ Seen(n) /\ Cleared(n))'
    BY <1>10 DEF TypeOK, Work, Complete, Placed, Seen, Cleared, At, Reported, NothingToAdd, Goes
  <2> QED
    BY <2>1, <2>2, <2>3
<1>11. ASSUME NEW m \in Net, NEW h \in Host, AddGroup(m, h)
      PROVE  IInv'
  <2>1. TypeOK'
    <3>1. work' \in [Net -> Work]
      BY <1>11, <1>0, WorkUpdate DEF TypeOK, Place, AddGroup, GroupAdded
    <3> QED
      BY <1>11, <3>1 DEF TypeOK, Status, Work, At, AddGroup, GroupAdded
  <2>2. \A n \in Net : Placed(n)'
    BY <1>11 DEF TypeOK, Work, Placed, Reported, At, AddGroup, GroupAdded
  <2>3. \A n \in Net : (Complete(n) /\ Seen(n) /\ Cleared(n))'
    BY <1>11 DEF TypeOK, Work, Complete, Placed, Seen, Cleared, At, Reported, AddGroup,
       GroupAdded
  <2> QED
    BY <2>1, <2>2, <2>3
<1>12. ASSUME NEW m \in Net, NoteHost(m)
      PROVE  IInv'
  <2>1. TypeOK'
    <3>1. work' \in [Net -> Work]
      BY <1>12, <1>0, WorkUpdate DEF TypeOK, Place, NoteHost
    <3>2. work[m].host \in Host /\ props[m].on \subseteq Host
      BY <1>12 DEF TypeOK, Work, Placed, NoteHost
    <3>3. props' \in [Net -> [status : Status, on : SUBSET Host]]
      BY <1>12, <3>2 DEF TypeOK, NoteHost
    <3>4. \A n \in Net : work'[n].at \in {"adding",
        "note"} => work'[n].todo = Host \ props'[n].on
      <4> SUFFICES ASSUME NEW n \in Net
                   PROVE  work'[n].at \in {"adding", "note"} =>
                             work'[n].todo = Host \ props'[n].on
        OBVIOUS
      <4>1. CASE n = m
        <5>1. work'[n].todo = work[n].todo \ {work[n].host}
          BY <1>12, <4>1 DEF TypeOK, Work, NoteHost
        <5>2. props'[n].on = props[n].on \union {work[n].host}
          BY <1>12, <4>1 DEF TypeOK, NoteHost
        <5> QED
          BY <1>12, <4>1, <5>1, <5>2 DEF TypeOK, NoteHost
      <4>2. CASE n # m
        BY <1>12, <4>2 DEF TypeOK, NoteHost
      <4> QED
        BY <4>1, <4>2
    <3> QED
      BY <1>12, <3>1, <3>3, <3>4 DEF TypeOK, NoteHost
  <2>2. \A n \in Net : Placed(n)'
    <3> SUFFICES ASSUME NEW n \in Net
                 PROVE  Placed(n)'
      OBVIOUS
    <3>1. CASE n = m
      <4>1. props'[m] = [props[m] EXCEPT !.on = props[m].on \union {work[m].host}]
        BY <1>12 DEF TypeOK, Status, NoteHost
      <4>2. work'[m] = [work[m] EXCEPT !.at = "adding",
          !.todo = work[m].todo \ {work[m].host}, !.host = NoHost]
        BY <1>12 DEF TypeOK, Work, NoteHost
      <4>3. work[m] \in Work /\ props[m] \in [status : Status,
          on : SUBSET Host] /\ external' = external
        BY <1>12 DEF TypeOK, NoteHost
      <4> QED
        BY <1>12, <3>1, <4>1, <4>2, <4>3 DEF Work, Placed, Reported, At, NoteHost
    <3>2. CASE n # m
      <4>1. work'[n] = work[n] /\ props'[n] = props[n] /\ external' = external
        BY <1>12, <3>2 DEF TypeOK, NoteHost
      <4> QED
        BY <4>1 DEF Placed, Reported, At
    <3> QED
      BY <3>1, <3>2
  <2>3. \A n \in Net : (Complete(n) /\ Seen(n) /\ Cleared(n))'
    BY <1>12 DEF TypeOK, Work, Complete, Placed, Seen, Cleared, At, Reported, NoteHost
  <2> QED
    BY <2>1, <2>2, <2>3
<1>13. ASSUME NEW m \in Net, Created(m)
      PROVE  IInv'
  <2>1. TypeOK'
    <3>1. work' \in [Net -> Work]
      BY <1>13, <1>0, WorkUpdate DEF TypeOK, Place, Created, Goes
    <3> QED
      BY <1>13, <3>1 DEF TypeOK, Status, Work, At, Created, OnAllHosts, Goes
  <2>2. \A n \in Net : Placed(n)'
    <3> SUFFICES ASSUME NEW n \in Net
                 PROVE  Placed(n)'
      OBVIOUS
    <3>1. CASE n = m
      <4>1. props'[m] = [props[m] EXCEPT !.status = "created"]
        BY <1>13 DEF TypeOK, Status, Created, OnAllHosts, Goes
      <4>2. work'[m] = [work[m] EXCEPT !.at = "finish"]
        BY <1>13 DEF TypeOK, Work, Created, OnAllHosts, Goes
      <4>3. work[m] \in Work /\ props[m] \in [status : Status,
          on : SUBSET Host] /\ external' = external
        BY <1>13 DEF TypeOK, Created, OnAllHosts, Goes
      <4> QED
        BY <1>13, <3>1, <4>1, <4>2, <4>3 DEF Work, Placed, Reported, At, Created, OnAllHosts,
           Goes
    <3>2. CASE n # m
      <4>1. work'[n] = work[n] /\ props'[n] = props[n] /\ external' = external
        BY <1>13, <3>2 DEF TypeOK, Created, OnAllHosts, Goes
      <4> QED
        BY <4>1 DEF Placed, Reported, At
    <3> QED
      BY <3>1, <3>2
  <2>3. \A n \in Net : (Complete(n) /\ Seen(n) /\ Cleared(n))'
    BY <1>13 DEF TypeOK, Work, Complete, Placed, Seen, Cleared, At, Reported, Created,
       OnAllHosts, Goes
  <2> QED
    BY <2>1, <2>2, <2>3
<1>14. ASSUME NEW m \in Net, NotYetCreated(m)
      PROVE  IInv'
  <2>1. TypeOK'
    <3>1. work' \in [Net -> Work]
      BY <1>14, <1>0, WorkUpdate DEF TypeOK, Place, NotYetCreated, TryAgain
    <3> QED
      BY <1>14, <3>1 DEF TypeOK, Status, Work, At, NotYetCreated, TryAgain
  <2>2. \A n \in Net : Placed(n)'
    BY <1>14 DEF TypeOK, Work, Placed, Reported, At, NotYetCreated, TryAgain
  <2>3. \A n \in Net : (Complete(n) /\ Seen(n) /\ Cleared(n))'
    BY <1>14 DEF TypeOK, Work, Complete, Placed, Seen, Cleared, At, Reported, NotYetCreated,
       TryAgain
  <2> QED
    BY <2>1, <2>2, <2>3
<1>15. ASSUME NEW m \in Net, CreateReturns(m)
      PROVE  IInv'
  <2>1. TypeOK'
    <3>1. work' \in [Net -> Work]
      BY <1>15, <1>0, WorkUpdate DEF TypeOK, Place, CreateReturns, Ends
    <3> QED
      BY <1>15, <3>1 DEF TypeOK, Status, Work, At, CreateReturns, Ends
  <2>2. \A n \in Net : Placed(n)'
    BY <1>15 DEF TypeOK, Work, Placed, Reported, At, CreateReturns, Ends
  <2>3. \A n \in Net : (Complete(n) /\ Seen(n) /\ Cleared(n))'
    BY <1>15 DEF TypeOK, Work, Complete, Placed, Seen, Cleared, At, Reported, CreateReturns,
       Ends
  <2> QED
    BY <2>1, <2>2, <2>3
<1>16. ASSUME NEW m \in Net, StartRemoving(m)
      PROVE  IInv'
  <2>1. TypeOK'
    <3>1. work' \in [Net -> Work]
      BY <1>16, <1>0, WorkUpdate DEF TypeOK, Place, StartRemoving, HostsToClear
    <3> QED
      BY <1>16, <3>1 DEF TypeOK, Status, Work, At, StartRemoving, HostsToClear
  <2>2. \A n \in Net : Placed(n)'
    BY <1>16 DEF TypeOK, Work, Placed, Reported, At, StartRemoving, HostsToClear
  <2>3. \A n \in Net : (Complete(n) /\ Seen(n) /\ Cleared(n))'
    BY <1>16 DEF TypeOK, Work, Complete, Placed, Seen, Cleared, At, Reported, StartRemoving,
       HostsToClear
  <2> QED
    BY <2>1, <2>2, <2>3
<1>17. ASSUME NEW m \in Net, NEW h \in Host, SkipHost(m, h)
      PROVE  IInv'
  <2>1. TypeOK'
    <3>1. work' \in [Net -> Work]
      BY <1>17, <1>0, WorkUpdate DEF TypeOK, Place, SkipHost
    <3> QED
      BY <1>17, <3>1 DEF TypeOK, Status, Work, At, SkipHost
  <2>2. \A n \in Net : Placed(n)'
    BY <1>17 DEF TypeOK, Work, Placed, Reported, At, SkipHost
  <2>3. \A n \in Net : (Complete(n) /\ Seen(n) /\ Cleared(n))'
    BY <1>17 DEF TypeOK, Work, Complete, Placed, Seen, Cleared, At, Reported, SkipHost
  <2> QED
    BY <2>1, <2>2, <2>3
<1>18. ASSUME NEW m \in Net, NEW h \in Host, SeeGroup(m, h)
      PROVE  IInv'
  <2>1. TypeOK'
    <3>1. work' \in [Net -> Work]
      BY <1>18, <1>0, WorkUpdate DEF TypeOK, Place, SeeGroup
    <3> QED
      BY <1>18, <3>1 DEF TypeOK, Status, Work, At, SeeGroup
  <2>2. \A n \in Net : Placed(n)'
    BY <1>18 DEF TypeOK, Work, Placed, Reported, At, SeeGroup
  <2>3. \A n \in Net : (Complete(n) /\ Seen(n) /\ Cleared(n))'
    BY <1>18 DEF TypeOK, Work, Complete, Placed, Seen, Cleared, At, Reported, SeeGroup
  <2> QED
    BY <2>1, <2>2, <2>3
<1>19. ASSUME NEW m \in Net, RemoveGroup(m)
      PROVE  IInv'
  <2>1. TypeOK'
    <3>1. work' \in [Net -> Work]
      BY <1>19, <1>0, WorkUpdate DEF TypeOK, Place, RemoveGroup, GroupRemoved
    <3> QED
      BY <1>19, <3>1 DEF TypeOK, Status, Work, At, RemoveGroup, GroupRemoved
  <2>2. \A n \in Net : Placed(n)'
    BY <1>19 DEF TypeOK, Work, Placed, Reported, At, RemoveGroup, GroupRemoved
  <2>3. \A n \in Net : Complete(n)'
    BY <1>19 DEF TypeOK, Work, Complete, Placed, Seen, At, Reported, RemoveGroup, GroupRemoved
  <2>4. \A n \in Net : Seen(n)'
    BY <1>19 DEF TypeOK, Work, Seen, Placed, At, RemoveGroup, GroupRemoved
  <2>5. \A n \in Net : Cleared(n)'
    <3> SUFFICES ASSUME NEW n \in Net
                 PROVE  Cleared(n)'
      OBVIOUS
    <3>1. CASE n = m
      <4>1. work'[n].todo = work[n].todo \ {work[n].host} /\ work'[n].at = "remove"
        BY <1>19, <3>1 DEF TypeOK, Work, RemoveGroup, GroupRemoved
      <4> QED
        BY <1>19, <3>1, <4>1 DEF TypeOK, Cleared, Reported, At, RemoveGroup, GroupRemoved
    <3>2. CASE n # m
      <4>1. work'[n] = work[n]
        BY <1>19, <3>2 DEF TypeOK, RemoveGroup, GroupRemoved
      <4> QED
        BY <1>19, <3>2, <4>1 DEF TypeOK, Cleared, Reported, At, RemoveGroup, GroupRemoved
    <3> QED
      BY <3>1, <3>2
  <2> QED
    BY <2>1, <2>2, <2>3, <2>4, <2>5
<1>20. ASSUME NEW m \in Net, GroupMissing(m)
      PROVE  IInv'
  <2>1. TypeOK'
    <3>1. work' \in [Net -> Work]
      BY <1>20, <1>0, WorkUpdate DEF TypeOK, Place, GroupMissing, TryAgain
    <3> QED
      BY <1>20, <3>1 DEF TypeOK, Status, Work, At, GroupMissing, TryAgain
  <2>2. \A n \in Net : Placed(n)'
    BY <1>20 DEF TypeOK, Work, Placed, Reported, At, GroupMissing, TryAgain
  <2>3. \A n \in Net : (Complete(n) /\ Seen(n) /\ Cleared(n))'
    BY <1>20 DEF TypeOK, Work, Complete, Placed, Seen, Cleared, At, Reported, GroupMissing,
       TryAgain
  <2> QED
    BY <2>1, <2>2, <2>3
<1>21. ASSUME NEW m \in Net, DeleteReturns(m)
      PROVE  IInv'
  <2>1. TypeOK'
    <3>1. work' \in [Net -> Work]
      BY <1>21, <1>0, WorkUpdate DEF TypeOK, Place, DeleteReturns, Ends
    <3> QED
      BY <1>21, <3>1 DEF TypeOK, Status, Work, At, DeleteReturns, Ends
  <2>2. \A n \in Net : Placed(n)'
    <3> SUFFICES ASSUME NEW n \in Net
                 PROVE  Placed(n)'
      OBVIOUS
    <3>1. CASE n = m
      <4>1. props'[m] = NoProps
        BY <1>21 DEF TypeOK, Status, DeleteReturns, Ends
      <4>2. work'[m] = [work[m] EXCEPT !.at = "idle", !.outcome = "ok", !.seen = {},
          !.todo = {}, !.host = NoHost]
        BY <1>21 DEF TypeOK, Work, DeleteReturns, Ends
      <4>3. work[m] \in Work /\ props[m] \in [status : Status,
          on : SUBSET Host] /\ external' = external
        BY <1>21 DEF TypeOK, DeleteReturns, Ends
      <4> QED
        BY <1>21, <3>1, <4>1, <4>2, <4>3 DEF Work, Placed, Reported, At, DeleteReturns, Ends
    <3>2. CASE n # m
      <4>1. work'[n] = work[n] /\ props'[n] = props[n] /\ external' = external
        BY <1>21, <3>2 DEF TypeOK, DeleteReturns, Ends
      <4> QED
        BY <4>1 DEF Placed, Reported, At
    <3> QED
      BY <3>1, <3>2
  <2>3. \A n \in Net : (Complete(n) /\ Seen(n) /\ Cleared(n))'
    BY <1>21 DEF TypeOK, Work, Complete, Placed, Seen, Cleared, At, Reported, DeleteReturns,
       Ends
  <2> QED
    BY <2>1, <2>2, <2>3
<1>22. CASE UNCHANGED vars
  <2>1. TypeOK'
    <3>1. work' \in [Net -> Work]
      BY <1>22 DEF TypeOK, vars
    <3> QED
      BY <1>22, <3>1 DEF TypeOK, Status, Work, At, vars
  <2>2. \A n \in Net : Placed(n)'
    BY <1>22 DEF TypeOK, Work, Placed, Reported, At, vars
  <2>3. \A n \in Net : (Complete(n) /\ Seen(n) /\ Cleared(n))'
    BY <1>22 DEF TypeOK, Work, Complete, Placed, Seen, Cleared, At, Reported, vars
  <2> QED
    BY <2>1, <2>2, <2>3
<1> QED
  BY <1>1, <1>2, <1>3, <1>4, <1>5, <1>6, <1>7, <1>8, <1>9, <1>10, <1>11,
     <1>12, <1>13, <1>14, <1>15, <1>16, <1>17, <1>18, <1>19, <1>20, <1>21, <1>22
     DEF Next, Create, Delete

-----------------------------------------------------------------------------

\* The inductive invariant, for any instances and any hosts.
THEOREM Invariance == Spec => []IInv
<1>1. Init => IInv
  BY InvariantInit
<1>2. IInv /\ [Next]_vars => IInv'
  BY InvariantStep
<1> QED
  BY <1>1, <1>2, PTL DEF Spec

\* Every variable has its type, and a worker still has to do the hosts that are
\* not stored.
THEOREM TypeCorrect == Spec => []TypeOK
<1>1. IInv => TypeOK
  BY DEF IInv
<1> QED
  BY <1>1, Invariance, PTL

\* create reports success only with its port group on every host, but for those
\* others took it from.
THEOREM CreateIsComplete == Spec => []CreatedEverywhere
<1>1. IInv => CreatedEverywhere
  BY DEF IInv, Placed, Complete, CreatedEverywhere, Reported, At
<1> QED
  BY <1>1, Invariance, PTL

\* delete reports success only with the port group on no host, but for those
\* others gave it to.
THEOREM DeleteIsComplete == Spec => []DeletedEverywhere
<1>1. IInv => DeletedEverywhere
  BY DEF IInv, Cleared, DeletedEverywhere
<1> QED
  BY <1>1, Invariance, PTL

\* A step to "creating" is taken only by an attempt, or after one, that saw no
\* port group of the name.
THEOREM NothingIsTakenOver == Spec => NoTakeover
<1>1. IInv /\ [Next]_vars =>
        [\A n \in Net : props[n].status # "creating" /\ props'[n].status = "creating"
                           => work[n].seen = {}]_vars
  <2> SUFFICES ASSUME IInv, [Next]_vars, NEW n \in Net,
                      props[n].status # "creating", props'[n].status = "creating"
               PROVE  work[n].seen = {}
    OBVIOUS
  <2>1. PICK m \in Net : Prepare(m) \/ StartAdding(m) \/ NoteHost(m) \/ Created(m) \/ DeleteReturns(m)
    BY DEF Next, Create, Delete, Outsider, Begin, Interrupted, GivesUp, LookFails, Look,
       NoSwitch,
           NothingToAdd, AddGroup, NotYetCreated, CreateReturns, StartRemoving, SkipHost,
           SeeGroup, RemoveGroup, GroupMissing, vars
  <2>2. props \in [Net -> [status : Status, on : SUBSET Host]]
    BY DEF IInv, TypeOK
  <2>3. StartAdding(m) /\ n = m
    BY <2>1, <2>2 DEF Prepare, StartAdding, NoteHost, Created, DeleteReturns, NoProps
  <2> QED
    BY <2>3, <2>2 DEF StartAdding, IInv, Seen, Placed
<1> QED
  BY <1>1, Invariance, PTL DEF Spec, NoTakeover

=============================================================================
