---------------------------- MODULE SingleFlight ----------------------------
(***************************************************************************)
(* What the saved task id promises, without saying how: at most one task   *)
(* of an instance is in flight, and an instance lets go of its task only   *)
(* when the task has ended.  The one exception is a crash between starting *)
(* the task and filing its id, which loses the task.                       *)
(***************************************************************************)
CONSTANTS Task, NoTask

VARIABLES
    flight,     \* the task in flight, or NoTask
    filed,      \* its id is stored
    landed,     \* tasks that have ended
    lost        \* tasks lost before they were filed

vars == <<flight, filed, landed, lost>>

Init ==
    /\ flight = NoTask
    /\ filed = FALSE
    /\ landed = {}
    /\ lost = {}

TakeOff(t) ==
    /\ flight = NoTask
    /\ t \notin landed \union lost
    /\ flight' = t
    /\ UNCHANGED <<filed, landed, lost>>

File ==
    /\ flight # NoTask
    /\ filed' = TRUE
    /\ UNCHANGED <<flight, landed, lost>>

Land(t) ==
    /\ t = flight \/ t \in lost
    /\ landed' = landed \union {t}
    /\ UNCHANGED <<flight, filed, lost>>

Release ==
    /\ filed
    /\ flight \in landed
    /\ flight' = NoTask
    /\ filed' = FALSE
    /\ UNCHANGED <<landed, lost>>

Lose ==
    /\ flight # NoTask
    /\ ~filed
    /\ flight' = NoTask
    /\ lost' = lost \union {flight}
    /\ UNCHANGED <<filed, landed>>

Next ==
    \/ \E t \in Task : TakeOff(t) \/ Land(t)
    \/ File
    \/ Release
    \/ Lose

Spec == Init /\ [][Next]_vars

=============================================================================
