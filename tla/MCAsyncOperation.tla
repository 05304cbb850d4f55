--------------------------- MODULE MCAsyncOperation ---------------------------
(* AsyncOperation with one operation of each kind. *)
EXTENDS AsyncOperation

MCOpName == {"restore", "backup", "delete"}
MCFresh == {"restore"}
MCGuarded == {"backup"}
MCKey == {"vsphere_snapshot_id"}

=============================================================================
