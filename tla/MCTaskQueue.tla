---------------------------- MODULE MCTaskQueue ----------------------------
(* Small instances of TaskQueue for TLC. *)
EXTENDS TaskQueue

NoneOrOneFault == {{}, {"io"}, {"compaction"}}
NoFaults == {{}}
=============================================================================
