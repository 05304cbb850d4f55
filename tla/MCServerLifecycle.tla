-------------------------- MODULE MCServerLifecycle --------------------------
(* ServerLifecycle for a few kinds of nodes. *)
EXTENDS ServerLifecycle, TLC

MCKey == {"vsphere_server_id"}

\* A server with template adapters and extra configuration; an external one,
\* with and without force; one that start does not power on.
MCNodes ==
    {[external |-> FALSE, force |-> FALSE, startVm |-> TRUE,
      extra |-> FALSE, postpone |-> TRUE],
     [external |-> TRUE, force |-> FALSE, startVm |-> TRUE,
      extra |-> FALSE, postpone |-> FALSE],
     [external |-> TRUE, force |-> TRUE, startVm |-> FALSE,
      extra |-> TRUE, postpone |-> FALSE]}

\* The nodes whose server every operation works on, for the liveness run.
MCWorkedOn == {n \in MCNodes : n.external => n.force}

\* The operations of the liveness run: create, which makes the server, and those
\* whose stages drive its power state to and fro.  power_on does as resume does;
\* OperationsEnd says nothing of start and reset.
MCLiveOps == {"create", "stop", "suspend", "resume", "power_off",
              "delete"}

\* Tasks are interchangeable (the run checks no liveness).
TaskSymmetry == Permutations(Task)

=============================================================================
