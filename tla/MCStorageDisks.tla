---------------------------- MODULE MCStorageDisks ----------------------------
(* StorageDisks for interchangeable storages. *)
EXTENDS StorageDisks, TLC

StorageSymmetry == Permutations(Storage)

=============================================================================
