----------------------------- MODULE MCPortGroups -----------------------------
(* PortGroups for interchangeable instances and hosts. *)
EXTENDS PortGroups, TLC

NetSymmetry == Permutations(Net) \union Permutations(Host)

=============================================================================
