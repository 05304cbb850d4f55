-------------------------- MODULE ServerUpdateProofs --------------------------
(***************************************************************************)
(* Theorems about ServerUpdate, for any options, any values of the         *)
(* settings, and any number of changes and of crashes.                     *)
(*                                                                         *)
(* Why no wish is forgotten although update drops all its flags before it  *)
(* acts on any: check_drift compares wishes with what was recorded, and    *)
(* the record never runs ahead of the machine.  That is Tracked, and it    *)
(* has exceptions: what a task has changed and nobody recorded, and what   *)
(* the change of networks drops from the record.  Honest says that a wish  *)
(* which agrees with the record is fulfilled in spite of the former.  A    *)
(* record is written at the end of a change, so that Sound follows the     *)
(* change that is under way, and Resizing the one that was asked for.      *)
(***************************************************************************)
EXTENDS ServerUpdate, TLAPS

Worker == [op : Operation, at : Place, due : SUBSET Kind, asked : SUBSET Kind,
           kind : Kind, value : Value, again : BOOLEAN, outcome : Outcome]

\* Where there is a task, and who knows its id.
Tasks ==
    /\ (saved \/ work.at = "save") <=> task.state # "none"
    /\ task.state = "none" => task = NoTask
    /\ work.at \in {"deferred", "poll"} => saved
    /\ work.at \in {"save", "body", "next", "record"} => ~saved

\* What is never asked, of a server, of a storage and by resize_server.
Shape ==
    /\ \A s \in Setting \ {"spec", "disk"} : want[s] \in Value
    /\ storage => work.op # "resize" /\ work.asked \subseteq {"disk"} /\ flags = {}
    /\ storage => want.spec \in Value
    /\ work.op = "resize" => work.asked \subseteq {"spec"}
    /\ work.op = "check" => work.at = "idle"
    /\ work.at \in {"idle", "dispatch", "deferred", "body"} => work.due = {}
    /\ work.at \in {"dispatch", "deferred", "body"} /\ ~work.again => work.asked = {}
    /\ work.at \in {"save", "poll", "record"} =>
          work.due # {} /\ work.kind = First(work.due)

\* What was recorded with a wish.
Compared == Setting \ {"nets"}

\* The machine is as it was recorded, but for what a task has changed since.
TrackedAbout(s) ==
    Recorded(s) \in Value /\ s \notin unrecorded =>
        machine[s] = Recorded(s) \/ (s \in dropped /\ Recorded(s) = Empty)

Tracked == \A s \in Compared \ masked : TrackedAbout(s)

\* A wish that agrees with the record is fulfilled, and no task that runs will
\* change that.
HonestAbout(s) ==
    want[s] # Unset /\ want[s] = Recorded(s) =>
        AsWished(s) /\ (s \in Pending => task.config[s] = want[s])

Honest == \A s \in Compared \ masked : HonestAbout(s)

Applied(s) == Goal(s) \in {machine[s], Unset} \/ (s \in dropped /\ Goal(s) = Empty)

\* The task of a change sets what was asked, and has done it when it is recorded.
Sound ==
    /\ work.at \in {"save", "poll"} =>
          /\ Changed(task) \subseteq Part(work.kind)
          /\ \A s \in Changed(task) : task.config[s] = Goal(s)
          /\ \A s \in Part(work.kind) \ masked :
                task.state = "success" \/ s \notin Changed(task) => Applied(s)
    /\ work.at = "record" => \A s \in Part(work.kind) \ masked : Applied(s)

\* What update was asked for is there or still due, unless it lost its flags.
Done ==
    /\ work.op = "update"
    /\ work.at \in {"next", "save", "poll", "record"}
    /\ work.again => storage
    => \A k \in work.asked \ work.due : \A s \in Part(k) \ masked : Applied(s)

\* The difference that resize_server makes is masked until it is recorded.
Resizing ==
    work.op = "resize" /\ work.at # "idle" /\ "spec" \notin masked =>
        machine.spec = work.value /\ task.state = "none"

IInv ==
    /\ TypeOK
    /\ Tasks
    /\ Shape
    /\ Tracked
    /\ Honest
    /\ Sound
    /\ Done
    /\ Resizing

-----------------------------------------------------------------------------
(* The settings *)

LEMMA SettingFacts ==
    /\ "spec" \in Setting /\ "disk" \in Setting /\ "nets" \in Setting
    /\ Option \subseteq Setting
    /\ \A s \in Setting : s \in Option \/ s \in {"spec", "disk", "nets"}
    /\ "spec" \notin Option /\ "disk" \notin Option /\ "nets" \notin Option
    /\ \A k \in Kind : Part(k) \subseteq Setting
    /\ \A k, l \in Kind : k # l => Part(k) \cap Part(l) = {}
<1>1. \A k \in Kind : k \notin Option
  BY ServerUpdateAssumption DEF Kind
<1>2. QED
  BY <1>1 DEF Setting, Kind, Part

LEMMA NoticedKindsType == NoticedKinds \subseteq Kind
BY DEF NoticedKinds, KindOf, Setting, Kind

\* No task is given a value that is not set.
LEMMA ConfigSpecType ==
    ASSUME TypeOK, Shape, NEW k \in Kind, k \in {"spec", "disk"} => Goal(k) # Unset
    PROVE  ConfigSpec(k) \in [Setting -> Value \union {Missing}]
<1>1. ASSUME NEW s \in Part(k) PROVE Goal(s) \in Value
  <2>1. s \in Setting
    BY <1>1, SettingFacts
  <2>2. CASE work.op = "resize"
    BY <2>2 DEF Goal, TypeOK
  <2>3. CASE work.op # "resize" /\ k \in {"spec", "disk"}
    BY <1>1, <2>1, <2>3 DEF Goal, TypeOK, Part
  <2>4. CASE work.op # "resize" /\ k \in {"extra", "nets"}
    <3>1. s \notin {"spec", "disk"}
      BY <1>1, <2>4, SettingFacts DEF Part
    <3>2. QED
      BY <2>1, <2>4, <3>1 DEF Goal, Shape
  <2>5. QED
    BY <2>2, <2>3, <2>4 DEF Kind
<1>2. QED
  BY <1>1 DEF ConfigSpec

-----------------------------------------------------------------------------
(* The order of the changes *)

\* The first change that is due is due.
LEMMA FirstIsDue ==
    ASSUME NEW due \in SUBSET Kind, due # {}
    PROVE  First(due) \in due
<1> DEFINE P(i) == Stages[i] \in due /\ \A j \in 1 .. (i - 1) : Stages[j] \notin due
<1>0. Len(Stages) = 4 /\ Stages[1] = "spec" /\ Stages[2] = "disk" /\ Stages[3] = "extra"
         /\ Stages[4] = "nets"
  BY DEF Stages
<1>1. \E i \in 1 .. 4 : P(i)
  <2>1. CASE "spec" \in due
    BY <1>0, <2>1, P(1)
  <2>2. CASE "spec" \notin due /\ "disk" \in due
    <3>1. \A j \in 1 .. (2 - 1) : j = 1
      OBVIOUS
    <3>2. QED
      BY <1>0, <2>2, <3>1, P(2)
  <2>3. CASE "spec" \notin due /\ "disk" \notin due /\ "extra" \in due
    <3>1. \A j \in 1 .. (3 - 1) : j = 1 \/ j = 2
      OBVIOUS
    <3>2. QED
      BY <1>0, <2>3, <3>1, P(3)
  <2>4. CASE due = {"nets"}
    <3>1. \A j \in 1 .. (4 - 1) : j = 1 \/ j = 2 \/ j = 3
      OBVIOUS
    <3>2. QED
      BY <1>0, <2>4, <3>1, P(4)
  <2>5. QED
    BY <2>1, <2>2, <2>3, <2>4 DEF Kind
<1>2. PICK i \in 1 .. 4 : P(i) /\ First(due) = Stages[i]
  BY <1>0, <1>1 DEF First
<1>3. QED
  BY <1>2

-----------------------------------------------------------------------------
(* Effects of some actions *)

\* An attempt ends and may be repeated.
Retried ==
    /\ work' \in Worker
    /\ work'.op = work.op /\ work'.asked = work.asked /\ work'.kind = work.kind
    /\ work'.value = work.value /\ work'.due = {}
    /\ \/ work'.at = "dispatch" /\ work'.outcome = work.outcome /\ work'.again = TRUE
       \/ work'.at = "idle" /\ work'.outcome = "failed" /\ work'.again = work.again

LEMMA RetriesEffect == TypeOK /\ Retries => Retried
<1> SUFFICES ASSUME TypeOK, Retries PROVE Retried
  OBVIOUS
<1>1. CASE work' = [work EXCEPT !.at = "dispatch", !.due = {}, !.again = TRUE]
  BY <1>1 DEF Retried, TypeOK, Worker, Place
<1>2. CASE work' = [work EXCEPT !.at = "idle", !.due = {}, !.outcome = "failed"]
  BY <1>2 DEF Retried, TypeOK, Worker, Place, Outcome
<1>3. QED
  BY <1>1, <1>2 DEF Retries

WaitEnded ==
    /\ work.at \in {"deferred", "poll"}
    /\ saved' = FALSE /\ task' = NoTask
    /\ UNCHANGED <<storage, want, machine, expected, networks, flags, lost, unrecorded,
                   dropped, masked, changes, faults>>
    /\ work' \in Worker
    /\ work'.op = work.op /\ work'.asked = work.asked /\ work'.kind = work.kind
    /\ work'.value = work.value /\ work'.again = work.again
    /\ \/ /\ task.state = "error"
          /\ work'.at = "idle" /\ work'.outcome = "failed" /\ work'.due = {}
       \/ /\ task.state = "success"
          /\ work'.outcome = work.outcome /\ work'.due = work.due
          /\ \/ work.at = "deferred" /\ work'.at = "body"
             \/ work.at = "poll" /\ work'.at = "record"

LEMMA WaitEndsEffect == TypeOK /\ WaitEnds => WaitEnded
<1> SUFFICES ASSUME TypeOK, WaitEnds PROVE WaitEnded
  OBVIOUS
<1>1. CASE task.state = "error"
  BY <1>1 DEF history, WaitEnds, WaitEnded, Ends, TypeOK, Worker, Place, Outcome
<1>2. CASE task.state # "error" /\ work.at = "deferred"
  BY <1>2 DEF history, WaitEnds, WaitEnded, Goes, TypeOK, Worker, Place
<1>3. CASE task.state # "error" /\ work.at # "deferred"
  BY <1>3 DEF history, WaitEnds, WaitEnded, Goes, TypeOK, Worker, Place
<1>4. QED
  BY <1>1, <1>2, <1>3

LEMMA TypeOKStep ==
    IInv /\ [Next]_vars => TypeOK'
<1> SUFFICES ASSUME IInv, [Next]_vars PROVE TypeOK'
  OBVIOUS
<1>0. TypeOK /\ Tasks /\ Shape
  BY DEF IInv
<1>f. work.due # {} => First(work.due) \in work.due
  BY <1>0, FirstIsDue DEF TypeOK
<1>1. CASE CheckServer
  BY NoticedKindsType, ServerUpdateAssumption, <1>0, <1>1 DEF history, CheckServer,
     Checked, Idle, TypeOK, Operation, Outcome, Kind
<1>2. CASE CheckBreaks
  BY ServerUpdateAssumption, <1>0, <1>2 DEF history, CheckBreaks, Checked, Stuck, Idle,
     TypeOK, Operation, Outcome, Kind
<1>3. CASE CheckStorage
  BY ServerUpdateAssumption, <1>0, <1>3 DEF history, CheckStorage, Checked, Idle,
     TypeOK, Operation, Outcome, Kind
<1>4. CASE BeginUpdate
  BY ServerUpdateAssumption, <1>0, <1>4 DEF history, BeginUpdate, Runs, Idle, TypeOK,
     Operation, Place, Outcome, Kind
<1>5. CASE BeginResize
  <2>1. work' \in Worker
    BY <1>5 DEF BeginResize, Idle, Worker, Operation, Place, Outcome, Kind
  <2>2. changes' \in 0 .. MaxChanges
    BY ServerUpdateAssumption, <1>0, <1>5 DEF BeginResize, TypeOK
  <2>3. work'.due = {}
    BY <1>5 DEF BeginResize, Idle
  <2>4. QED
    BY SettingFacts, <1>0, <1>5, <2>1, <2>2, <2>3 DEF BeginResize, TypeOK, Worker
<1>6. CASE Dispatch
  BY <1>0, <1>6 DEF history, Dispatch, Goes, TypeOK, Place
<1>7. CASE UpdateBegins
  BY <1>0, <1>7 DEF history, UpdateBegins, TypeOK, Place, Kind
<1>8. CASE Change
  <2>1. PICK k : k = First(work.due) /\ k \in work.due
    BY <1>f, <1>8 DEF Change
  <2>2. k \in Kind
    BY <1>0, <2>1 DEF TypeOK
  <2>3. k \in {"spec", "disk"} => Goal(k) # Unset
    BY <1>8, <2>1 DEF Change, NothingToDo
  <2>4. ConfigSpec(k) \in [Setting -> Value \union {Missing}]
    BY <1>0, <2>2, <2>3, ConfigSpecType
  <2>5. task' \in Task /\ task'.state = "running"
    BY <1>8, <2>1, <2>4 DEF Change, Task
  <2>6. work' \in Worker /\ work'.due = work.due /\ work'.asked = work.asked
    BY <1>0, <1>8, <2>1, <2>2 DEF Change, TypeOK, Worker, Place
  <2>7. QED
    BY <1>0, <1>8, <2>5, <2>6 DEF history, Change, TypeOK, Worker
<1>9. CASE NoChange
  BY <1>0, <1>f, <1>9 DEF history, NoChange, TypeOK, Place
<1>10. CASE ChangeBreaks
  <2>1. Retried
    BY <1>0, <1>10, RetriesEffect DEF ChangeBreaks
  <2>2. QED
    BY <1>0, <1>10, <2>1 DEF history, ChangeBreaks, Retried, Worker, TypeOK
<1>11. CASE SaveTask
  BY <1>0, <1>11 DEF history, SaveTask, Stored, Goes, TypeOK, Place, Tasks
<1>12. CASE WaitTimesOut
  <2>1. Retried
    BY <1>0, <1>12, RetriesEffect DEF WaitTimesOut
  <2>2. QED
    BY <1>0, <1>12, <2>1 DEF history, WaitTimesOut, Retried, Worker, TypeOK
<1>13. CASE WaitEnds
  <2>1. WaitEnded
    BY <1>0, <1>13, WaitEndsEffect
  <2>2. QED
    BY <1>0, <2>1 DEF WaitEnded, NoTask, Worker, TypeOK, Task
<1>14. CASE Record
  <2>1. work' \in Worker /\ work'.due \subseteq work'.asked
    BY <1>0, <1>14 DEF Record, TypeOK, Worker, Place
  <2>2. expected' \in [Setting -> Value \union {Unset, Missing}]
    <3>1. \A s \in Setting : Goal(s) \in Value \union {Unset}
      BY <1>0 DEF Goal, TypeOK
    <3>2. QED
      BY <1>0, <1>14, <3>1 DEF Record, RecordedAfter, TypeOK
  <2>3. /\ networks' \in Value /\ flags' \in SUBSET Kind
        /\ masked' \in SUBSET Setting /\ unrecorded' \in SUBSET Setting
        /\ dropped' \in SUBSET Option
    BY <1>0, <1>14, SettingFacts DEF Record, DroppedAfter, Stored, TypeOK
  <2>4. QED
    BY <1>0, <1>14, <2>1, <2>2, <2>3 DEF Record, TypeOK, Worker
<1>15. CASE Return
  BY <1>0, <1>15 DEF history, Return, Stored, Ends, TypeOK, Place, Outcome
<1>16. CASE Crash
  <2>1. work' \in Worker /\ work'.due = {}
    BY <1>0, <1>16 DEF history, Crash, TypeOK, Worker, Place
  <2>2. faults' \in 0 .. MaxFaults
    BY ServerUpdateAssumption, <1>0, <1>16 DEF history, Crash, TypeOK
  <2>3. task' \in Task /\ lost' \in SUBSET Task
    BY <1>0, <1>16 DEF history, Crash, TypeOK, Task, NoTask
  <2>4. saved' => task'.state # "none"
    BY <1>0, <1>16 DEF history, Crash, Tasks
  <2>5. QED
    BY <1>0, <1>16, <2>1, <2>2, <2>3, <2>4 DEF history, Crash, TypeOK, Worker
<1>17. CASE TaskEnds
  <2>1. machine' \in [Setting -> Value]
    BY <1>0, <1>17 DEF TaskEnds, Reconfigured, Changed, TypeOK, Task
  <2>2. task' \in Task /\ task'.state # "none" /\ unrecorded' \in SUBSET Setting
    BY <1>0, <1>17 DEF TaskEnds, Changed, TypeOK, Task
  <2>3. QED
    BY <1>0, <1>17, <2>1, <2>2 DEF TaskEnds, TypeOK
<1>18. CASE LostTaskEnds
  <2>1. PICK t \in lost : /\ lost' = lost \ {t}
                          /\ \/ UNCHANGED <<machine, masked>>
                             \/ machine' = Reconfigured(t) /\ Mask(Changed(t))
    BY <1>18 DEF LostTaskEnds
  <2>2. machine' \in [Setting -> Value] /\ masked' \in SUBSET Setting
    BY <1>0, <2>1 DEF Reconfigured, Changed, Mask, TypeOK, Task
  <2>3. QED
    BY <1>0, <1>18, <2>1, <2>2 DEF LostTaskEnds, TypeOK
<1>19. CASE Meddle
  BY ServerUpdateAssumption, <1>0, <1>19 DEF Meddle, Mask, TypeOK
<1>20. CASE WantChanges
  <2>1. want' \in [Setting -> Value \union {Unset}] /\ masked' \in SUBSET Setting
    BY <1>0, <1>20, SettingFacts DEF WantChanges, Mask, TypeOK
  <2>2. changes' \in 0 .. MaxChanges
    BY ServerUpdateAssumption, <1>0, <1>20 DEF WantChanges, TypeOK
  <2>3. work' \in Worker /\ work'.due = work.due /\ work'.asked = work.asked
    BY <1>0, <1>20 DEF WantChanges, TypeOK, Worker, Outcome
  <2>4. QED
    BY <1>0, <1>20, <2>1, <2>2, <2>3 DEF WantChanges, TypeOK, Worker
<1>21. CASE Poststart
  <2>1. masked' \in SUBSET Setting /\ dropped' \in SUBSET Option
    BY <1>0, <1>21, SettingFacts DEF Poststart, Mask, Pending, Changed, TypeOK
  <2>2. expected' \in [Setting -> Value \union {Unset, Missing}] /\ unrecorded' = {}
    BY <1>0, <1>21 DEF Poststart, TypeOK
  <2>3. QED
    BY <1>0, <1>21, <2>1, <2>2 DEF Poststart, TypeOK
<1>22. CASE UNCHANGED vars
  BY <1>0, <1>22 DEF vars, TypeOK
<1>23. QED
  BY <1>1, <1>2, <1>3, <1>4, <1>5, <1>6, <1>7, <1>8, <1>9, <1>10, <1>11, <1>12, <1>13,
     <1>14, <1>15, <1>16, <1>17, <1>18, <1>19, <1>20, <1>21, <1>22 DEF Next, Attempt

LEMMA TasksStep ==
    IInv /\ [Next]_vars => Tasks'
<1> SUFFICES ASSUME IInv, [Next]_vars PROVE Tasks'
  OBVIOUS
<1>0. TypeOK /\ Tasks
  BY DEF IInv
<1>1. CASE CheckServer
  BY <1>0, <1>1 DEF history, CheckServer, Checked, Idle, Tasks
<1>2. CASE CheckBreaks
  BY <1>0, <1>2 DEF history, CheckBreaks, Checked, Stuck, Idle, Tasks
<1>3. CASE CheckStorage
  BY <1>0, <1>3 DEF history, CheckStorage, Checked, Idle, Tasks
<1>4. CASE BeginUpdate
  BY <1>0, <1>4 DEF history, BeginUpdate, Runs, Tasks
<1>5. CASE BeginResize
  BY <1>0, <1>5 DEF BeginResize, Tasks
<1>6. CASE Dispatch
  BY <1>0, <1>6 DEF history, Dispatch, Goes, Tasks
<1>7. CASE UpdateBegins
  BY <1>0, <1>7 DEF history, UpdateBegins, Tasks
<1>8. CASE Change
  BY <1>0, <1>8 DEF history, Change, Tasks
<1>9. CASE NoChange
  BY <1>0, <1>9 DEF history, NoChange, Tasks
<1>10. CASE ChangeBreaks
  <2>1. Retried
    BY <1>0, <1>10, RetriesEffect DEF ChangeBreaks
  <2>2. QED
    BY <1>0, <1>10, <2>1 DEF history, ChangeBreaks, Retried, Tasks
<1>11. CASE SaveTask
  BY <1>0, <1>11 DEF history, SaveTask, Goes, Tasks
<1>12. CASE WaitTimesOut
  <2>1. Retried
    BY <1>0, <1>12, RetriesEffect DEF WaitTimesOut
  <2>2. QED
    BY <1>0, <1>12, <2>1 DEF history, WaitTimesOut, Retried, Tasks
<1>13. CASE WaitEnds
  <2>1. WaitEnded
    BY <1>0, <1>13, WaitEndsEffect
  <2>2. QED
    BY <2>1 DEF WaitEnded, NoTask, Tasks
<1>14. CASE Record
  BY <1>0, <1>14 DEF Record, Tasks
<1>15. CASE Return
  BY <1>0, <1>15 DEF history, Return, Ends, Tasks
<1>16. CASE Crash
  BY <1>0, <1>16 DEF history, Crash, NoTask, Tasks
<1>17. CASE TaskEnds
  BY <1>0, <1>17 DEF TaskEnds, TypeOK, Task, Tasks
<1>18. CASE LostTaskEnds
  BY <1>0, <1>18 DEF LostTaskEnds, Tasks
<1>19. CASE Meddle
  BY <1>0, <1>19 DEF Meddle, Tasks
<1>20. CASE WantChanges
  BY <1>0, <1>20 DEF WantChanges, Tasks
<1>21. CASE Poststart
  BY <1>0, <1>21 DEF Poststart, Tasks
<1>22. CASE UNCHANGED vars
  BY <1>0, <1>22 DEF vars, Tasks
<1>23. QED
  BY <1>1, <1>2, <1>3, <1>4, <1>5, <1>6, <1>7, <1>8, <1>9, <1>10, <1>11, <1>12, <1>13,
     <1>14, <1>15, <1>16, <1>17, <1>18, <1>19, <1>20, <1>21, <1>22 DEF Next, Attempt

LEMMA ShapeStep ==
    IInv /\ [Next]_vars => Shape'
<1> SUFFICES ASSUME IInv, [Next]_vars PROVE Shape'
  OBVIOUS
<1>0. TypeOK /\ Shape
  BY DEF IInv
<1>1. CASE CheckServer
  BY <1>0, <1>1 DEF history, CheckServer, Checked, Idle, Shape
<1>2. CASE CheckBreaks
  BY <1>0, <1>2 DEF history, CheckBreaks, Checked, Stuck, Idle, Shape
<1>3. CASE CheckStorage
  BY <1>0, <1>3 DEF history, CheckStorage, Checked, Idle, Shape
<1>4. CASE BeginUpdate
  BY <1>0, <1>4 DEF history, BeginUpdate, Runs, Idle, Shape
<1>5. CASE BeginResize
  BY <1>0, <1>5 DEF BeginResize, Idle, Shape
<1>6. CASE Dispatch
  BY <1>0, <1>6 DEF history, Dispatch, Goes, Shape
<1>7. CASE UpdateBegins
  BY <1>0, <1>7 DEF history, UpdateBegins, Shape
<1>8. CASE Change
  BY <1>0, <1>8 DEF history, Change, Shape
<1>9. CASE NoChange
  BY <1>0, <1>9 DEF history, NoChange, Shape
<1>10. CASE ChangeBreaks
  <2>1. Retried
    BY <1>0, <1>10, RetriesEffect DEF ChangeBreaks
  <2>2. QED
    BY <1>0, <1>10, <2>1 DEF history, ChangeBreaks, Retried, Shape
<1>11. CASE SaveTask
  BY <1>0, <1>11 DEF history, SaveTask, Stored, Goes, Shape
<1>12. CASE WaitTimesOut
  <2>1. Retried
    BY <1>0, <1>12, RetriesEffect DEF WaitTimesOut
  <2>2. QED
    BY <1>0, <1>12, <2>1 DEF history, WaitTimesOut, Retried, Shape
<1>13. CASE WaitEnds
  <2>1. WaitEnded
    BY <1>0, <1>13, WaitEndsEffect
  <2>2. QED
    BY <1>0, <2>1 DEF WaitEnded, Shape
<1>14. CASE Record
  BY <1>0, <1>14 DEF Record, Stored, Shape
<1>15. CASE Return
  BY <1>0, <1>15 DEF history, Return, Stored, Ends, Shape
<1>16. CASE Crash
  BY <1>0, <1>16 DEF history, Crash, Shape
<1>17. CASE TaskEnds
  BY <1>0, <1>17 DEF TaskEnds, Shape
<1>18. CASE LostTaskEnds
  BY <1>0, <1>18 DEF LostTaskEnds, Shape
<1>19. CASE Meddle
  BY <1>0, <1>19 DEF Meddle, Shape
<1>20. CASE WantChanges
  BY <1>0, <1>20 DEF WantChanges, Shape
<1>21. CASE Poststart
  BY <1>0, <1>21 DEF Poststart, Shape
<1>22. CASE UNCHANGED vars
  BY <1>0, <1>22 DEF vars, Shape
<1>23. QED
  BY <1>1, <1>2, <1>3, <1>4, <1>5, <1>6, <1>7, <1>8, <1>9, <1>10, <1>11, <1>12, <1>13,
     <1>14, <1>15, <1>16, <1>17, <1>18, <1>19, <1>20, <1>21, <1>22 DEF Next, Attempt

-----------------------------------------------------------------------------
(* The record and the machine *)

\* The steps that change neither wishes nor the record, the machine, its tasks or the
\* histories.
Quiet ==
    \/ CheckServer \/ CheckBreaks \/ CheckStorage \/ BeginUpdate
    \/ Dispatch \/ UpdateBegins \/ NoChange \/ ChangeBreaks \/ SaveTask
    \/ WaitTimesOut \/ Return
    \/ UNCHANGED vars

LEMMA QuietEffect ==
    Quiet => UNCHANGED <<storage, want, machine, expected, task, lost, unrecorded,
                         dropped, masked>>
BY DEF Quiet, CheckServer, CheckBreaks, CheckStorage, BeginUpdate, Dispatch,
   UpdateBegins, NoChange, ChangeBreaks, SaveTask, WaitTimesOut, Return, vars, history

\* The steps that begin a change, or forget its task.
LEMMA TaskEffect ==
    ASSUME BeginResize \/ Change \/ WaitEnds \/ Crash
    PROVE  /\ UNCHANGED <<storage, want, machine, expected, unrecorded, dropped>>
           /\ masked \subseteq masked'
           /\ task' \in {task, NoTask} \/ Change
           /\ BeginResize => UNCHANGED task /\ masked' = masked \union {"spec"}
BY DEF BeginResize, Change, WaitEnds, Crash, history

LEMMA TrackedStep ==
    IInv /\ [Next]_vars => Tracked'
<1> SUFFICES ASSUME IInv, [Next]_vars, NEW s \in Compared, s \notin masked'
             PROVE  TrackedAbout(s)'
  BY DEF Tracked
<1>0. /\ TypeOK /\ Tasks /\ Shape /\ Sound
      /\ s \in Setting /\ s # "nets"
      /\ s \notin masked => TrackedAbout(s)
  BY DEF IInv, Tracked, Compared
<1>1. CASE Quiet
  BY <1>0, <1>1, QuietEffect DEF TrackedAbout, Recorded
<1>2. CASE BeginResize \/ Change \/ WaitEnds \/ Crash
  BY <1>0, <1>2, TaskEffect DEF TrackedAbout, Recorded
<1>3. CASE Record
  <2>1. /\ UNCHANGED <<want, machine>>
        /\ unrecorded' = unrecorded \ Part(work.kind)
        /\ dropped' = DroppedAfter(work.kind)
        /\ expected'[s] = RecordedAfter(work.kind)[s]
        /\ work.kind \in Kind
    BY <1>0, <1>3 DEF Record, TypeOK
  <2>2. CASE s \in Part(work.kind)
    <3>1. s \in Option => Goal(s) \in Value
      BY <1>0, SettingFacts DEF Goal, Shape, TypeOK
    <3>2. Recorded(s)' = Goal(s)
      BY ServerUpdateAssumption, <1>0, <2>1, <2>2, <3>1 DEF RecordedAfter, Recorded,
         Part
    <3>3. machine[s] # Goal(s) => s \notin masked /\ Applied(s)
      BY <1>0, <1>3, <2>2 DEF Record, Sound
    <3>4. s \in dropped /\ Goal(s) = Empty => s \in dropped'
      BY <2>1 DEF DroppedAfter
    <3>5. QED
      BY ServerUpdateAssumption, <2>1, <3>1, <3>2, <3>3, <3>4 DEF TrackedAbout, Applied
  <2>3. CASE s \notin Part(work.kind) /\ work.kind # "nets"
    <3>1. Recorded(s)' = Recorded(s) /\ s \notin masked
      BY <1>0, <1>3, <2>1, <2>3 DEF Record, RecordedAfter, Recorded
    <3>2. s \in dropped => s \in dropped'
      BY <1>0, <2>1, <2>3 DEF DroppedAfter, Part, TypeOK
    <3>3. QED
      BY <1>0, <2>1, <2>3, <3>1, <3>2 DEF TrackedAbout
  <2>4. CASE work.kind = "nets"
    <3>1. s \notin masked /\ TrackedAbout(s)
      BY <1>0, <1>3, <2>4 DEF Record, Part
    <3>2. CASE s = "spec"
      BY <2>1, <2>4, <3>2, SettingFacts DEF RecordedAfter, Recorded, TrackedAbout
    <3>3. CASE s = "disk"
      BY ServerUpdateAssumption, <2>1, <2>4, <3>3, <1>0 DEF RecordedAfter, Recorded,
         TrackedAbout
    <3>4. CASE s \in Option
      <4>1. Recorded(s)' = Empty
        BY <2>1, <2>4, <3>4, SettingFacts DEF RecordedAfter, Recorded
      <4>2. Recorded(s) # Empty => s \in dropped'
        BY <2>1, <2>4, <3>4 DEF DroppedAfter
      <4>3. s \in dropped => s \in dropped'
        BY <2>1, <2>4 DEF DroppedAfter
      <4>4. s \notin unrecorded' => s \notin unrecorded
        BY <1>0, <2>1, <2>4 DEF Part
      <4>5. QED
        BY <2>1, <3>1, <4>1, <4>2, <4>3, <4>4 DEF TrackedAbout
    <3>5. QED
      BY <1>0, <3>2, <3>3, <3>4, SettingFacts
  <2>5. QED
    BY <2>2, <2>3, <2>4
<1>4. CASE TaskEnds
  <2>1. UNCHANGED <<expected, dropped, masked>>
    BY <1>4 DEF TaskEnds
  <2>2. CASE UNCHANGED <<machine, unrecorded>>
    BY <1>0, <2>1, <2>2 DEF TrackedAbout, Recorded
  <2>3. CASE machine' = Reconfigured(task) /\ unrecorded' = unrecorded \union Changed(task)
    BY <1>0, <2>1, <2>3 DEF TrackedAbout, Recorded, Reconfigured
  <2>4. QED
    BY <1>4, <2>2, <2>3 DEF TaskEnds
<1>5. CASE LostTaskEnds
  <2>1. PICK t \in lost : \/ UNCHANGED <<machine, masked>>
                          \/ machine' = Reconfigured(t) /\ Mask(Changed(t))
    BY <1>5 DEF LostTaskEnds
  <2>2. machine'[s] = machine[s] /\ s \notin masked
    BY <1>0, <2>1 DEF Reconfigured, Mask
  <2>3. QED
    BY <1>0, <1>5, <2>2 DEF LostTaskEnds, TrackedAbout, Recorded
<1>6. CASE Meddle
  <2>1. machine'[s] = machine[s] /\ s \notin masked
    BY <1>6 DEF Meddle, Mask
  <2>2. QED
    BY <1>0, <1>6, <2>1 DEF Meddle, TrackedAbout, Recorded
<1>7. CASE WantChanges
  BY <1>0, <1>7 DEF WantChanges, Mask, TrackedAbout, Recorded
<1>8. CASE Poststart
  <2>1. /\ UNCHANGED machine
        /\ expected'[s] = IF s \in Option THEN want[s] ELSE machine[s]
        /\ s \in Option => machine[s] = want[s]
    BY <1>0, <1>8 DEF Poststart, Mask
  <2>2. s \in Option => want[s] # Missing
    BY ServerUpdateAssumption, <1>0, <2>1 DEF TypeOK
  <2>3. QED
    BY <2>1, <2>2 DEF TrackedAbout, Recorded
<1>9. QED
  BY <1>1, <1>2, <1>3, <1>4, <1>5, <1>6, <1>7, <1>8 DEF Next, Attempt, Quiet

LEMMA HonestStep ==
    IInv /\ [Next]_vars => Honest'
<1> SUFFICES ASSUME IInv, [Next]_vars, NEW s \in Compared, s \notin masked'
             PROVE  HonestAbout(s)'
  BY DEF Honest
<1>0. /\ TypeOK /\ Tasks /\ Shape /\ Sound /\ Resizing
      /\ s \in Setting /\ s # "nets"
      /\ s \notin masked => HonestAbout(s) /\ TrackedAbout(s)
  BY DEF IInv, Honest, Tracked, Compared
<1>1. CASE Quiet
  BY <1>0, <1>1, QuietEffect DEF HonestAbout, AsWished, LeftOver, Recorded, Pending
<1>2. CASE BeginResize \/ WaitEnds \/ Crash
  <2>1. task' \in {task, NoTask}
    BY <1>2, TaskEffect DEF BeginResize, WaitEnds, Crash
  <2>2. s \in Pending' => s \in Pending /\ task' = task
    BY <2>1 DEF Pending, NoTask
  <2>3. QED
    BY <1>0, <1>2, <2>2, TaskEffect DEF HonestAbout, AsWished, LeftOver, Recorded
<1>3. CASE Change
  <2>1. /\ UNCHANGED <<storage, want, machine, expected, unrecorded, dropped, masked>>
        /\ work.at = "next" /\ work.due # {}
        /\ ~NothingToDo(First(work.due))
        /\ task'.config = ConfigSpec(First(work.due))
    BY <1>3 DEF Change, history
  <2>2. CASE work.op = "update"
    <3>1. task'.config[s] \in {want[s], Missing}
      BY <1>0, <2>1, <2>2 DEF ConfigSpec, Goal
    <3>2. s \in Pending' => task'.config[s] # Missing
      BY DEF Pending, Changed
    <3>3. QED
      BY <1>0, <2>1, <3>1, <3>2 DEF HonestAbout, AsWished, LeftOver, Recorded
  <2>3. CASE work.op = "resize"
    <3>1. First(work.due) = "spec"
      BY <1>0, <2>1, <2>3, FirstIsDue DEF Shape, TypeOK
    <3>2. "spec" \in masked
      BY <1>0, <2>1, <2>3, <3>1 DEF Resizing, NothingToDo, Goal
    <3>3. s \notin Pending'
      BY <2>1, <3>1, <3>2 DEF Pending, Changed, ConfigSpec, Part
    <3>4. QED
      BY <1>0, <2>1, <3>3 DEF HonestAbout, AsWished, LeftOver, Recorded
  <2>4. QED
    BY <1>0, <2>1, <2>2, <2>3 DEF TypeOK, Shape, Operation
<1>4. CASE Record
  <2>1. /\ UNCHANGED <<want, machine>> /\ work.at = "record"
        /\ unrecorded' = unrecorded \ Part(work.kind)
        /\ dropped' = DroppedAfter(work.kind)
        /\ expected'[s] = RecordedAfter(work.kind)[s]
        /\ work.kind \in Kind
    BY <1>0, <1>4 DEF Record, TypeOK
  <2>2. s \notin Pending'
    BY <1>0, <1>4 DEF Record, Tasks, Pending
  <2>3. CASE s \in Part(work.kind)
    <3>1. s \in Option => Goal(s) \in Value
      BY <1>0, SettingFacts DEF Goal, Shape, TypeOK
    <3>2. Recorded(s)' = Goal(s)
      BY ServerUpdateAssumption, <1>0, <2>1, <2>3, <3>1 DEF RecordedAfter, Recorded,
         Part
    <3>3. machine[s] # Goal(s) => s \notin masked /\ Applied(s)
      BY <1>0, <1>4, <2>3 DEF Record, Sound
    <3>4. s \in dropped /\ Goal(s) = Empty => s \in dropped'
      BY <2>1 DEF DroppedAfter
    <3>5. QED
      BY <2>1, <2>2, <3>1, <3>2, <3>3, <3>4 DEF HonestAbout, AsWished, LeftOver, Applied
  <2>4. CASE s \notin Part(work.kind) /\ work.kind # "nets"
    <3>1. Recorded(s)' = Recorded(s) /\ s \notin masked
      BY <1>0, <1>4, <2>1, <2>4 DEF Record, RecordedAfter, Recorded
    <3>2. s \in dropped => s \in dropped'
      BY <1>0, <2>1, <2>4 DEF DroppedAfter, Part, TypeOK
    <3>3. QED
      BY <1>0, <2>1, <2>2, <3>1, <3>2 DEF HonestAbout, AsWished, LeftOver
  <2>5. CASE work.kind = "nets"
    <3>1. s \notin masked /\ HonestAbout(s)
      BY <1>0, <1>4, <2>5 DEF Record, Part
    <3>2. CASE s = "spec"
      BY <2>1, <2>2, <2>5, <3>2, SettingFacts DEF RecordedAfter, Recorded, HonestAbout,
         AsWished
    <3>3. CASE s = "disk"
      BY ServerUpdateAssumption, <2>1, <2>5, <3>3, <1>0 DEF RecordedAfter, Recorded,
         HonestAbout, TypeOK
    <3>4. CASE s \in Option
      <4>1. Recorded(s)' = Empty
        BY <2>1, <2>5, <3>4, SettingFacts DEF RecordedAfter, Recorded
      <4>2. Recorded(s) # Empty => s \in dropped'
        BY <2>1, <2>5, <3>4 DEF DroppedAfter
      <4>3. s \in dropped => s \in dropped'
        BY <2>1, <2>5 DEF DroppedAfter
      <4>4. QED
        BY <2>1, <2>2, <3>1, <4>1, <4>2, <4>3 DEF HonestAbout, AsWished, LeftOver
    <3>5. QED
      BY <1>0, <3>2, <3>3, <3>4, SettingFacts
  <2>6. QED
    BY <2>3, <2>4, <2>5
<1>5. CASE TaskEnds
  <2>1. UNCHANGED <<want, expected, dropped, masked>> /\ task.state = "running"
    BY <1>5 DEF TaskEnds
  <2>2. task'.state # "running"
    BY <1>0, <1>5 DEF TaskEnds, TypeOK, Task
  <2>3. CASE UNCHANGED machine
    BY <1>0, <2>1, <2>2, <2>3 DEF HonestAbout, AsWished, LeftOver, Recorded, Pending
  <2>4. CASE machine' = Reconfigured(task)
    <3>1. machine'[s] = IF s \in Pending THEN task.config[s] ELSE machine[s]
      BY <1>0, <2>1, <2>4 DEF Reconfigured, Pending
    <3>2. s \notin Pending'
      BY <2>2 DEF Pending
    <3>3. QED
      BY <1>0, <2>1, <3>1, <3>2 DEF HonestAbout, AsWished, LeftOver, Recorded
  <2>5. QED
    BY <1>5, <2>3, <2>4 DEF TaskEnds
<1>6. CASE LostTaskEnds
  <2>1. PICK t \in lost : \/ UNCHANGED <<machine, masked>>
                          \/ machine' = Reconfigured(t) /\ Mask(Changed(t))
    BY <1>6 DEF LostTaskEnds
  <2>2. machine'[s] = machine[s] /\ s \notin masked
    BY <1>0, <2>1 DEF Reconfigured, Mask
  <2>3. QED
    BY <1>0, <1>6, <2>2 DEF LostTaskEnds, HonestAbout, AsWished, LeftOver, Recorded,
       Pending
<1>7. CASE Meddle
  <2>1. machine'[s] = machine[s] /\ s \notin masked
    BY <1>7 DEF Meddle, Mask
  <2>2. QED
    BY <1>0, <1>7, <2>1 DEF Meddle, HonestAbout, AsWished, LeftOver, Recorded, Pending
<1>8. CASE WantChanges
  <2>1. PICK r \in Setting, v \in Value \union {Unset} :
           /\ want' = [want EXCEPT ![r] = v]
           /\ Mask(IF v = Recorded(r) THEN {r} \cap (unrecorded \union Pending) ELSE {})
    BY <1>8, SettingFacts DEF WantChanges
  <2>2. /\ UNCHANGED <<machine, expected, task, unrecorded, dropped>>
        /\ s \notin masked
    BY <1>8, <2>1 DEF WantChanges, Mask
  <2>3. Recorded(s)' = Recorded(s) /\ (s \in Pending' <=> s \in Pending)
    BY <2>2 DEF Recorded, Pending
  <2>4. CASE r # s
    <3>1. want'[s] = want[s]
      BY <2>1, <2>4
    <3>2. QED
      BY <1>0, <2>2, <2>3, <3>1 DEF HonestAbout, AsWished, LeftOver
  <2>5. CASE r = s /\ v = Recorded(s) /\ v # Unset
    <3>1. want'[s] = v /\ s \notin unrecorded /\ s \notin Pending
      BY <1>0, <2>1, <2>5 DEF TypeOK, Mask
    <3>2. machine[s] = v \/ (s \in dropped /\ v = Empty)
      BY <1>0, <2>1, <2>2, <2>5, <3>1 DEF TrackedAbout
    <3>3. QED
      BY <2>2, <2>3, <3>1, <3>2 DEF HonestAbout, AsWished, LeftOver
  <2>6. CASE r = s /\ (v # Recorded(s) \/ v = Unset)
    BY <1>0, <2>1, <2>3, <2>6 DEF HonestAbout, TypeOK
  <2>7. QED
    BY <2>4, <2>5, <2>6
<1>9. CASE Poststart
  <2>1. /\ UNCHANGED <<want, machine, task>>
        /\ expected'[s] = IF s \in Option THEN want[s] ELSE machine[s]
        /\ s \notin Pending /\ (s \in Option => machine[s] = want[s])
    BY <1>0, <1>9 DEF Poststart, Mask
  <2>2. s \notin Pending'
    BY <2>1 DEF Pending
  <2>3. QED
    BY <2>1, <2>2 DEF HonestAbout, AsWished, Recorded
<1>10. QED
  BY <1>1, <1>2, <1>3, <1>4, <1>5, <1>6, <1>7, <1>8, <1>9 DEF Next, Attempt, Quiet

-----------------------------------------------------------------------------
(* The change under way *)

\* An attempt, or a crash, goes on with the operation that runs.
LEMMA SameOperation ==
    ASSUME TypeOK, Attempt \/ Crash
    PROVE  /\ work.at # "idle" /\ work'.op = work.op /\ work'.value = work.value
           /\ UNCHANGED want
<1>1. CASE ChangeBreaks \/ WaitTimesOut
  BY <1>1, RetriesEffect DEF ChangeBreaks, WaitTimesOut, Retried
<1>2. CASE WaitEnds
  BY <1>2, WaitEndsEffect DEF WaitEnded
<1>3. CASE Dispatch \/ UpdateBegins \/ NoChange \/ SaveTask \/ Crash
  BY <1>3 DEF Dispatch, UpdateBegins, NoChange, SaveTask, Crash, Goes, TypeOK
<1>4. CASE Change \/ Record \/ Return
  BY <1>4 DEF Change, Record, Return, Ends, TypeOK
<1>5. QED
  BY <1>1, <1>2, <1>3, <1>4 DEF Attempt

\* The steps after which no change is under way.
Away ==
    \/ CheckServer \/ CheckBreaks \/ CheckStorage \/ BeginUpdate \/ BeginResize
    \/ Dispatch \/ ChangeBreaks \/ WaitTimesOut \/ Return \/ Crash
    \/ WantChanges \/ Poststart

LEMMA AwayEffect ==
    ASSUME TypeOK, Away PROVE work'.at \in {"idle", "dispatch", "deferred", "body"}
<1>1. CASE ChangeBreaks \/ WaitTimesOut
  BY <1>1, RetriesEffect DEF ChangeBreaks, WaitTimesOut, Retried
<1>2. CASE CheckServer \/ CheckBreaks \/ CheckStorage \/ BeginUpdate \/ BeginResize
  BY <1>2 DEF CheckServer, CheckBreaks, CheckStorage, BeginUpdate, BeginResize, Checked,
     Runs, Idle
<1>3. CASE Dispatch \/ Return \/ Crash
  BY <1>3 DEF Dispatch, Return, Crash, Goes, Ends, TypeOK
<1>4. CASE WantChanges \/ Poststart
  BY <1>4 DEF WantChanges, Poststart, TypeOK
<1>5. QED
  BY <1>1, <1>2, <1>3, <1>4 DEF Away

\* What the world does to a setting while an attempt goes on.
LEMMA WorldEffect ==
    ASSUME TypeOK, LostTaskEnds \/ Meddle \/ UNCHANGED vars
    PROVE  /\ UNCHANGED <<storage, want, expected, task, work, dropped>>
           /\ masked \subseteq masked'
           /\ \A s \in Setting \ masked' : machine'[s] = machine[s]
<1>1. CASE LostTaskEnds
  <2>1. PICK t \in lost : \/ UNCHANGED <<machine, masked>>
                          \/ machine' = Reconfigured(t) /\ Mask(Changed(t))
    BY <1>1 DEF LostTaskEnds
  <2>2. QED
    BY <1>1, <2>1 DEF LostTaskEnds, Reconfigured, Mask
<1>2. CASE Meddle
  BY <1>2 DEF Meddle, Mask
<1>3. CASE UNCHANGED vars
  BY <1>3 DEF vars
<1>4. QED
  BY <1>1, <1>2, <1>3

\* What was found to need no change is as it was asked for.
LEMMA NothingToDoIsApplied ==
    ASSUME IInv, work.at = "next", NEW k \in work.due, NothingToDo(k),
           NEW s \in Part(k)
    PROVE  Applied(s)
<1>0. TypeOK /\ Shape /\ k \in Kind /\ k \in work.asked
  BY DEF IInv, TypeOK
<1>1. CASE k \in {"spec", "disk"}
  BY <1>1 DEF NothingToDo, Part, Applied
<1>2. CASE k = "nets"
  BY <1>0, <1>2 DEF NothingToDo, Part, Applied, Noticed, Goal, Shape
<1>3. QED
  BY <1>0, <1>1, <1>2 DEF NothingToDo, Kind

\* The task of a change sets what is not as it was asked for already.
LEMMA ConfigSpecIsSound ==
    ASSUME IInv, work.at = "next", NEW k \in work.due, ~NothingToDo(k)
    PROVE  \A s \in Part(k) \ masked : ConfigSpec(k)[s] = Missing => Applied(s)
<1> SUFFICES ASSUME NEW s \in Part(k), s \notin masked, ConfigSpec(k)[s] = Missing
             PROVE  Applied(s)
  OBVIOUS
<1>0. /\ TypeOK /\ Shape /\ Honest /\ s \in Setting
      /\ k \in Kind /\ k \in work.asked
  BY SettingFacts DEF IInv, TypeOK
<1>1. CASE s \in Option /\ Goal(s) = Empty /\ ~Blanked(s)
  <2>1. k = "extra"
    BY ServerUpdateAssumption, <1>0, <1>1 DEF Part, Kind
  <2>2. work.op = "update"
    <3>1. work.op # "check"
      BY <1>0 DEF Shape
    <3>2. work.op # "resize"
      <4>1. "extra" \in work.asked
        BY <1>0, <2>1
      <4>2. QED
        BY <1>0, <4>1 DEF Shape
    <3>3. QED
      BY <1>0, <3>1, <3>2 DEF TypeOK, Operation
  <2>3. CASE machine[s] = Empty
    BY <1>1, <2>3 DEF Applied
  <2>4. CASE Recorded(s) = Empty
    <3>1. HonestAbout(s) /\ want[s] = Empty /\ want[s] \in Value
      BY <1>0, <1>1, <2>2, SettingFacts DEF Honest, Compared, Goal, Shape
    <3>2. QED
      BY <1>1, <2>2, <2>4, <3>1 DEF HonestAbout, AsWished, LeftOver, Applied
  <2>5. QED
    BY <1>1, <2>3, <2>4 DEF Blanked
<1>2. CASE ~(s \in Option /\ Goal(s) = Empty /\ ~Blanked(s))
  <2>1. Goal(s) = Missing
    BY <1>0, <1>2 DEF ConfigSpec
  <2>2. Goal(s) \in Value \union {Unset}
    BY <1>0 DEF Goal, TypeOK
  <2>3. QED
    BY ServerUpdateAssumption, <2>1, <2>2 DEF Applied
<1>3. QED
  BY <1>1, <1>2

LEMMA SoundStep ==
    IInv /\ [Next]_vars => Sound'
<1> SUFFICES ASSUME IInv, [Next]_vars PROVE Sound'
  OBVIOUS
<1>0. TypeOK /\ Tasks /\ Shape /\ Sound /\ work \in Worker
  BY DEF IInv, TypeOK, Worker
<1>1. CASE Away
  BY <1>0, <1>1, AwayEffect DEF Sound
<1>2. CASE UpdateBegins
  BY <1>2 DEF UpdateBegins, Sound
<1>3. CASE Change
  <2> DEFINE k == First(work.due)
  <2>1. /\ k \in work.due /\ ~NothingToDo(k) /\ work.at = "next"
        /\ task'.state = "running" /\ task'.config = ConfigSpec(k)
        /\ work'.at = "save" /\ work'.kind = k /\ work'.op = work.op
        /\ work'.value = work.value
        /\ UNCHANGED <<want, machine, dropped, masked>>
    BY <1>0, <1>3, FirstIsDue DEF Change, Worker, history
  <2>2. \A s \in Part(k) \ masked : ConfigSpec(k)[s] = Missing => Applied(s)
    BY <2>1, ConfigSpecIsSound
  <2>3. \A s \in Setting : ConfigSpec(k)[s] # Missing =>
            s \in Part(k) /\ ConfigSpec(k)[s] = Goal(s)
    BY DEF ConfigSpec
  <2>4. k \in Kind
    BY <1>0, <2>1 DEF Worker
  <2>5. Part(k) \subseteq Setting
    BY <2>4, SettingFacts
  <2>6. \A s \in Setting : Goal(s)' = Goal(s) /\ (Applied(s)' <=> Applied(s))
    BY <2>1 DEF Goal, Applied
  <2> HIDE DEF k
  <2>7. /\ Changed(task)' \subseteq Part(k)
        /\ \A s \in Changed(task)' : task'.config[s] = Goal(s)'
    BY <2>1, <2>3, <2>6 DEF Changed
  <2>8. \A s \in Part(k) \ masked' : s \notin Changed(task)' => Applied(s)'
    BY <2>1, <2>2, <2>5, <2>6 DEF Changed
  <2>9. QED
    BY <2>1, <2>7, <2>8 DEF Sound
<1>4. CASE NoChange
  <2>1. /\ work.at = "next" /\ First(work.due) \in work.due
        /\ NothingToDo(First(work.due))
        /\ work'.at = "record" /\ work'.kind = First(work.due) /\ work'.op = work.op
        /\ work'.value = work.value
        /\ UNCHANGED <<want, machine, dropped, masked>>
    BY <1>0, <1>4, FirstIsDue DEF NoChange, Worker, history
  <2>2. \A s \in Part(First(work.due)) : Applied(s)
    BY <2>1, NothingToDoIsApplied
  <2>3. QED
    BY <2>1, <2>2 DEF Sound, Applied, Goal
<1>5. CASE SaveTask
  <2>1. /\ work.at = "save" /\ work'.at = "poll" /\ work'.kind = work.kind
        /\ work'.op = work.op /\ work'.value = work.value
        /\ UNCHANGED <<want, machine, task, dropped, masked>>
    BY <1>5 DEF SaveTask, Goes, history
  <2>2. QED
    BY <1>0, <2>1 DEF Sound, Applied, Goal
<1>6. CASE WaitEnds
  <2>1. WaitEnded
    BY <1>0, <1>6, WaitEndsEffect
  <2>2. QED
    BY <1>0, <2>1 DEF WaitEnded, Sound, Applied, Goal
<1>7. CASE Record
  BY <1>7 DEF Record, Sound
<1>8. CASE TaskEnds
  <2>1. /\ UNCHANGED <<want, work, dropped, masked>>
        /\ task.state = "running" /\ task'.config = task.config
        /\ \/ task'.state = "success" /\ machine' = Reconfigured(task)
           \/ task'.state = "error" /\ UNCHANGED machine
    BY <1>0, <1>8 DEF TaskEnds, TypeOK, Task
  <2>2. work.at # "record"
    BY <1>0, <2>1 DEF Tasks
  <2>3. Changed(task)' = Changed(task) /\ \A s \in Setting : Goal(s)' = Goal(s)
    BY <2>1 DEF Changed, Goal
  <2>4. ASSUME work.at \in {"save", "poll"}, NEW s \in Part(work.kind), s \notin masked,
               task'.state = "success" \/ s \notin Changed(task)
        PROVE  Applied(s)'
    <3>1. s \in Setting
      BY <1>0, <2>4, SettingFacts DEF Worker
    <3>2. CASE s \in Changed(task)
      BY <1>0, <2>1, <2>3, <2>4, <3>1, <3>2 DEF Sound, Applied, Reconfigured
    <3>3. CASE s \notin Changed(task)
      BY <1>0, <2>1, <2>3, <2>4, <3>1, <3>3 DEF Sound, Applied, Reconfigured
    <3>4. QED
      BY <3>2, <3>3
  <2>5. work.at \in {"save", "poll"} => Changed(task)' \subseteq Part(work.kind)
            /\ \A s \in Changed(task)' : task'.config[s] = Goal(s)'
    BY <1>0, <2>1, <2>3 DEF Sound, Changed
  <2>6. QED
    BY <2>1, <2>2, <2>3, <2>4, <2>5 DEF Sound
<1>9. CASE LostTaskEnds \/ Meddle \/ UNCHANGED vars
  <2>1. /\ UNCHANGED <<want, task, work, dropped>>
        /\ masked \subseteq masked'
        /\ \A s \in Setting \ masked' : machine'[s] = machine[s]
    BY <1>0, <1>9, WorldEffect
  <2>2. Part(work.kind) \subseteq Setting
    BY <1>0, SettingFacts DEF Worker
  <2>3. \A s \in Part(work.kind) \ masked' : Applied(s)' <=> Applied(s)
    BY <2>1, <2>2 DEF Applied, Goal
  <2>4. QED
    BY <1>0, <2>1, <2>3 DEF Sound, Goal
<1>10. QED
  BY <1>1, <1>2, <1>3, <1>4, <1>5, <1>6, <1>7, <1>8, <1>9 DEF Next, Attempt, Away

LEMMA DoneStep ==
    IInv /\ [Next]_vars => Done'
<1> SUFFICES ASSUME IInv, [Next]_vars PROVE Done'
  OBVIOUS
<1>0. TypeOK /\ Tasks /\ Shape /\ Sound /\ Done /\ work \in Worker
  BY DEF IInv, TypeOK, Worker
<1>1. CASE Away
  BY <1>0, <1>1, AwayEffect DEF Done
<1>2. CASE UpdateBegins
  <2>1. work'.op = "update" /\ (work'.again => storage) => work'.asked \subseteq work'.due
    BY <1>0, <1>2 DEF UpdateBegins, Shape
  <2>2. QED
    BY <1>2, <2>1 DEF Done, UpdateBegins
<1>3. CASE Change \/ NoChange \/ SaveTask
  <2>1. /\ work'.asked = work.asked /\ work'.due = work.due /\ work'.op = work.op
        /\ work'.value = work.value /\ work'.again = work.again
        /\ work.at \in {"next", "save"}
        /\ UNCHANGED <<storage, want, machine, dropped, masked>>
    BY <1>0, <1>3 DEF Change, NoChange, SaveTask, Goes, Worker, history
  <2>2. QED
    BY <1>0, <2>1 DEF Done, Applied, Goal
<1>4. CASE WaitEnds
  <2>1. WaitEnded
    BY <1>0, <1>4, WaitEndsEffect
  <2>2. QED
    BY <1>0, <2>1 DEF WaitEnded, Done, Applied, Goal
<1>5. CASE Record
  <2>1. /\ work.at = "record" /\ work'.asked = work.asked
        /\ work'.due = work.due \ {work.kind}
        /\ work'.op = work.op /\ work'.value = work.value /\ work'.again = work.again
        /\ UNCHANGED <<storage, want, machine>>
        /\ dropped' = DroppedAfter(work.kind)
        /\ masked' = masked \ {s \in Part(work.kind) : machine[s] = Goal(s)}
    BY <1>5 DEF Record
  <2>2. \A s \in Setting : Goal(s)' = Goal(s) /\ (Applied(s) => Applied(s)')
    <3> SUFFICES ASSUME NEW s \in Setting, Applied(s) PROVE Applied(s)'
      BY <2>1 DEF Goal
    <3>1. s \in dropped /\ Goal(s) = Empty => s \in dropped'
      BY <2>1 DEF DroppedAfter
    <3>2. QED
      BY <2>1, <3>1 DEF Applied, Goal
  <2>3. SUFFICES ASSUME work.op = "update", work.again => storage,
                        NEW k \in work.asked, k \notin work.due \ {work.kind},
                        NEW s \in Part(k), s \notin masked'
                 PROVE  Applied(s)
    BY <1>0, <2>1, <2>2, SettingFacts DEF Done, Worker
  <2>4. k \in Kind /\ work.kind \in Kind
    BY <1>0 DEF Worker
  <2>5. CASE s \in masked
    BY <2>1, <2>3, <2>5 DEF Applied
  <2>6. CASE s \notin masked /\ k = work.kind
    BY <1>0, <2>1, <2>6 DEF Sound
  <2>7. CASE s \notin masked /\ k # work.kind
    BY <1>0, <2>1, <2>3, <2>7 DEF Done
  <2>8. QED
    BY <2>5, <2>6, <2>7
<1>6. CASE TaskEnds
  <2>1. /\ UNCHANGED <<storage, want, work, dropped, masked>>
        /\ task.state = "running"
        /\ machine' = Reconfigured(task) \/ UNCHANGED machine
    BY <1>6 DEF TaskEnds
  <2>2. SUFFICES ASSUME work.op = "update", work.at \in {"next", "save", "poll", "record"},
                        work.again => storage, NEW k \in work.asked, k \notin work.due,
                        NEW s \in Part(k), s \notin masked
                 PROVE  Applied(s)'
    BY <2>1 DEF Done
  <2>3. work.at \in {"save", "poll"} /\ Changed(task) \subseteq Part(work.kind)
    BY <1>0, <2>1, <2>2 DEF Tasks, Sound
  <2>4. work.kind \in work.due
    BY <1>0, <2>3, FirstIsDue DEF Shape, Worker
  <2>5. k # work.kind /\ k \in Kind /\ work.kind \in Kind
    BY <1>0, <2>2, <2>4 DEF Worker
  <2>6. s \in Setting /\ s \notin Changed(task)
    BY <2>3, <2>5, SettingFacts
  <2>7. machine'[s] = machine[s]
    BY <2>1, <2>6 DEF Reconfigured
  <2>8. Applied(s)
    BY <1>0, <2>2 DEF Done
  <2>9. QED
    BY <2>1, <2>7, <2>8 DEF Applied, Goal
<1>7. CASE LostTaskEnds \/ Meddle \/ UNCHANGED vars
  <2>1. /\ UNCHANGED <<storage, want, work, dropped>>
        /\ masked \subseteq masked'
        /\ \A s \in Setting \ masked' : machine'[s] = machine[s]
    BY <1>0, <1>7, WorldEffect
  <2>2. \A k \in work.asked : Part(k) \subseteq Setting
    BY <1>0, SettingFacts DEF Worker
  <2>3. \A k \in work.asked : \A s \in Part(k) \ masked' : Applied(s)' <=> Applied(s)
    BY <2>1, <2>2 DEF Applied, Goal
  <2>4. QED
    BY <1>0, <2>1, <2>3 DEF Done
<1>8. QED
  BY <1>1, <1>2, <1>3, <1>4, <1>5, <1>6, <1>7 DEF Next, Attempt, Away

LEMMA ResizingStep ==
    IInv /\ [Next]_vars => Resizing'
<1> SUFFICES ASSUME IInv, [Next]_vars, work'.op = "resize", work'.at # "idle",
                    "spec" \notin masked'
             PROVE  machine'["spec"] = work'.value /\ task'.state = "none"
  BY DEF Resizing
<1>0. TypeOK /\ Tasks /\ Shape /\ Sound /\ Resizing /\ work \in Worker
  BY DEF IInv, TypeOK, Worker
<1>1. CASE CheckServer \/ CheckBreaks \/ CheckStorage \/ BeginUpdate
  BY <1>1 DEF CheckServer, CheckBreaks, CheckStorage, BeginUpdate, Checked, Runs, Idle
<1>2. CASE BeginResize
  BY <1>2 DEF BeginResize
<1>3. CASE WantChanges \/ Poststart
  BY <1>0, <1>3 DEF WantChanges, Poststart, Worker
<1>4. CASE (Attempt /\ Quiet) \/ WaitEnds \/ Crash
  <2>1. work.at # "idle" /\ work'.op = work.op /\ work'.value = work.value
    BY <1>0, <1>4, SameOperation DEF Attempt
  <2>2. UNCHANGED machine /\ "spec" \notin masked /\ task' \in {task, NoTask}
    BY <1>4, QuietEffect, TaskEffect DEF Quiet, Crash, WaitEnds
  <2>3. QED
    BY <1>0, <2>1, <2>2 DEF Resizing, NoTask
<1>5. CASE Change
  <2>1. work.at = "next" /\ work'.op = work.op /\ work.due # {} /\ UNCHANGED masked
        /\ ~NothingToDo(First(work.due))
    BY <1>5 DEF Change, history
  <2>2. First(work.due) = "spec"
    BY <1>0, <2>1, FirstIsDue DEF Shape, TypeOK
  <2>3. machine["spec"] = work.value
    BY <1>0, <2>1 DEF Resizing
  <2>4. QED
    BY <2>1, <2>2, <2>3 DEF NothingToDo, Goal
<1>6. CASE Record
  <2>1. /\ work.at = "record" /\ work'.op = work.op /\ work'.value = work.value
        /\ UNCHANGED <<machine, task>>
        /\ masked' = masked \ {s \in Part(work.kind) : machine[s] = Goal(s)}
    BY <1>6 DEF Record
  <2>2. task.state = "none"
    BY <1>0, <2>1 DEF Tasks
  <2>3. CASE "spec" \in masked
    BY <2>1, <2>2, <2>3 DEF Goal
  <2>4. CASE "spec" \notin masked
    BY <1>0, <2>1, <2>2, <2>4 DEF Resizing
  <2>5. QED
    BY <2>3, <2>4
<1>7. CASE TaskEnds
  BY <1>0, <1>7 DEF TaskEnds, Resizing
<1>8. CASE LostTaskEnds \/ Meddle \/ UNCHANGED vars
  <2>1. machine'["spec"] = machine["spec"] /\ UNCHANGED <<task, work>>
        /\ "spec" \notin masked
    BY <1>0, <1>8, WorldEffect, SettingFacts
  <2>2. QED
    BY <1>0, <2>1 DEF Resizing
<1>9. QED
  BY <1>1, <1>2, <1>3, <1>4, <1>5, <1>6, <1>7, <1>8 DEF Next, Attempt, Quiet

-----------------------------------------------------------------------------
(* The theorems *)

LEMMA InitIInv == Init => IInv
<1> SUFFICES ASSUME Init PROVE IInv
  OBVIOUS
<1>1. PICK d \in {Empty} \union (IF storage THEN {} ELSE {Unset}),
           r \in {Empty} \union (IF storage THEN {} ELSE {Unset}) :
        want = [machine EXCEPT !.disk = d, !.spec = r]
  BY Zenon DEF Init
<1>2. /\ machine \in [Setting -> Value] /\ expected = machine
      /\ machine["disk"] = Empty /\ machine["spec"] = Empty
  BY SettingFacts DEF Init
<1>3. d \in Value \union {Unset} /\ r \in Value \union {Unset} /\ (storage => r = Empty)
  BY ServerUpdateAssumption
<1>4. /\ want["disk"] = d /\ want["spec"] = r
      /\ want \in [Setting -> Value \union {Unset}]
      /\ \A s \in Setting \ {"spec", "disk"} : want[s] = machine[s]
  BY <1>1, <1>2, <1>3, SettingFacts
<1>5. TypeOK
  <2>1. expected \in [Setting -> Value \union {Unset, Missing}] /\ networks \in Value
    BY <1>2, SettingFacts DEF Init
  <2>2. task \in Task
    BY DEF Init, Task, NoTask
  <2>3. work \in Worker /\ work.due = {}
    BY ServerUpdateAssumption DEF Init, Idle, Worker, Operation, Place, Outcome, Kind
  <2>4. changes \in 0 .. MaxChanges /\ faults \in 0 .. MaxFaults
    BY ServerUpdateAssumption DEF Init
  <2>5. QED
    BY <1>2, <1>4, <2>1, <2>2, <2>3, <2>4 DEF Init, TypeOK, Worker
<1>6. Tasks /\ Sound /\ Done /\ Resizing
  BY DEF Init, Tasks, Sound, Done, Resizing, Idle, NoTask
<1>7. Shape
  BY ServerUpdateAssumption, <1>2, <1>3, <1>4 DEF Init, Shape, Idle
<1>8. \A s \in Setting : Recorded(s) = machine[s]
  BY ServerUpdateAssumption, <1>2 DEF Recorded
<1>9. Tracked
  BY <1>8 DEF Tracked, TrackedAbout, Compared
<1>10. Honest
  <2>1. Pending = {}
    BY DEF Init, Pending, NoTask
  <2>2. QED
    BY <1>8, <2>1 DEF Honest, HonestAbout, AsWished, Compared
<1>11. QED
  BY <1>5, <1>6, <1>7, <1>9, <1>10 DEF IInv

\* The record never runs ahead of the machine but for what a task has changed since
\* and for the options that a change of networks dropped from it, whatever the order
\* of changes of wishes and of the machine, attempts of update, crashes and the ends
\* of tasks.
THEOREM Invariance == Spec => []IInv
<1>1. IInv /\ [Next]_vars => IInv'
  <2> SUFFICES ASSUME IInv, [Next]_vars PROVE IInv'
    OBVIOUS
  <2>1. TypeOK' /\ Tasks' /\ Shape' /\ Tracked'
    BY TypeOKStep, TasksStep, ShapeStep, TrackedStep
  <2>2. Honest' /\ Sound' /\ Done' /\ Resizing'
    BY HonestStep, SoundStep, DoneStep, ResizingStep
  <2>3. QED
    BY <2>1, <2>2 DEF IInv
<1>2. QED
  BY InitIInv, <1>1, PTL DEF Spec

\* The variables stay within their types: no Reconfigure task is ever given a
\* setting that is not set.
THEOREM TypeCorrect == Spec => []TypeOK
<1>1. IInv => TypeOK
  BY DEF IInv
<1>2. QED
  BY Invariance, <1>1, PTL

\* What update did not do, although it dropped the flag, the next check_drift
\* notices: there is no wish that differs from the machine and agrees with the
\* record, but for the differences that masked names, and for options nobody wishes
\* any more that a change of networks dropped from the record.
THEOREM NoWishIsForgotten == Spec => []NothingForgotten
<1>1. IInv => NothingForgotten
  <2> SUFFICES ASSUME IInv, NEW s \in (Setting \ masked) \union {"nets"}, ~AsWished(s)
               PROVE  Noticed(s)
    BY DEF NothingForgotten
  <2>1. CASE s = "nets"
    BY <2>1 DEF AsWished, Noticed
  <2>2. CASE s # "nets"
    <3>1. HonestAbout(s)
      BY <2>2 DEF IInv, Honest, Compared
    <3>2. QED
      BY <2>2, <3>1 DEF HonestAbout, AsWished, Noticed
  <2>3. QED
    BY <2>1, <2>2
<1>2. QED
  BY Invariance, <1>1, PTL

\* An update that succeeds at its first attempt (that of a storage: at any) made
\* all the changes it was asked for, each option of extra_config included, with the
\* same exceptions.
THEOREM SuccessIsWhole == Spec => SuccessApplies
<1> DEFINE Whole == Return /\ work.op = "update" /\ (work.again => storage) =>
                      \A k \in work.asked : \A s \in Part(k) \ masked : AsWished(s)
<1>1. IInv /\ [Next]_vars => [Whole]_vars
  <2> SUFFICES ASSUME IInv, Return, work.op = "update", work.again => storage,
                      NEW k \in work.asked, NEW s \in Part(k) \ masked
               PROVE  AsWished(s)
    OBVIOUS
  <2>1. Applied(s)
    BY DEF IInv, Done, Return
  <2>2. QED
    BY <2>1 DEF Applied, Goal, AsWished, LeftOver
<1>2. QED
  BY Invariance, <1>1, PTL DEF Spec, SuccessApplies

=============================================================================
