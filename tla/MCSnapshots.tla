----------------------------- MODULE MCSnapshots -----------------------------
(* Snapshots with two names and one snapshot taken by hand. *)
EXTENDS Snapshots, TLC

MCKey == {"vsphere_snapshot_id"}
MCOpName == SnapshotOps \union {"delete"}

\* Tasks, and names, are interchangeable (the runs check no liveness).
Symmetry == Permutations(Task) \union Permutations(Name)

=============================================================================
