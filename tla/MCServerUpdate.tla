---------------------------- MODULE MCServerUpdate ----------------------------
(* A server with two options of extra_config, or a storage, drifts and is *)
(* updated.                                                               *)
EXTENDS ServerUpdate, TLC

\* Options are interchangeable (the run checks no liveness).
Symmetry == Permutations(Option)

=============================================================================
