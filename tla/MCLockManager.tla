--------------------------- MODULE MCLockManager ---------------------------
(* A small instance of LockManager for TLC: its constants are in LockManager.cfg. *)
EXTENDS LockManager
=============================================================================
