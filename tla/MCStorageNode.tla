---------------------------- MODULE MCStorageNode ----------------------------
(* An instance of StorageNode: two databases with a table of the same name. *)
EXTENDS StorageNode

CONSTANTS d1, d2, t1

TwoDatabases == {<<d1, t1>>, <<d2, t1>>}
=============================================================================
