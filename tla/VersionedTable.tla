--------------------------- MODULE VersionedTable ---------------------------
(***************************************************************************)
(* One table of a storage node as StorageNodeEngine maintains it: the heap *)
(* rows, the B*-tree indexes over them, the version log, and RevertService *)
(* which undoes logged changes record by record.                           *)
(*                                                                         *)
(* A tuple is its indexed columns.  A statement is one call of the engine  *)
(* and changes heap, indexes and log in that order, stopping at the first  *)
(* error without undoing anything.  Revert is a step per undone record.    *)
(* Timestamps are the wall clock's milliseconds, assumed not to go back.   *)
(***************************************************************************)
EXTENDS IndexedHeap

CONSTANTS Keys,
          MaxRows,         \* bound: rows ever inserted
          MaxLog,          \* bound: version records
          MaxTime,         \* bound: milliseconds
          MaxFailed,       \* bound: statements that fail midway
          MaxBeyond        \* bound: reverts to before an earlier one

ASSUME VersionedTableAssumption ==
    /\ {MaxRows, MaxLog, MaxTime, MaxFailed, MaxBeyond} \subseteq Nat
    /\ Null \notin Keys

VARIABLES log,      \* the version log
          now,      \* the clock
          status,   \* did the last engine call return Ok
          revert,   \* the revert in progress: its timestamp, how much of the log is left and,
                    \* for the properties, whether the log has all changes since the timestamp
          past,     \* history: the table at the end of each millisecond
          since,    \* history: no change is missing from the log after this moment
          failed,   \* history: statements that failed midway
          beyond    \* history: reverts that have gone back beyond since

vars == <<heap, index, log, now, status, revert, past, since, failed, beyond>>

Tuples == [Indexes -> Keys \cup {Null}]
NoTuple == <<>>
NoRevert == [active |-> FALSE, to |-> 0, left |-> 0, whole |-> FALSE]

\* The engine's state after an operation, and the history of the table.
Apply(res) ==
    /\ heap' = res.heap
    /\ index' = res.index
    /\ status' = res.ok
    /\ past' = [past EXCEPT ![now] = Table(res.heap)]

-----------------------------------------------------------------------------
Init ==
    /\ heap = [r \in {} |-> NoTuple]
    /\ index = [c \in Indexes |-> [k \in {} |-> 0]]
    /\ log = <<>>
    /\ now = 0
    /\ status = TRUE
    /\ revert = NoRevert
    /\ past = [s \in {0} |-> [r \in {} |-> NoTuple]]
    /\ since = 0
    /\ failed = 0
    /\ beyond = 0

Tick ==
    /\ now < MaxTime
    /\ ~revert.active
    /\ now' = now + 1
    /\ past' = Put(past, now + 1, Table(heap))
    /\ UNCHANGED <<heap, index, log, status, revert, since, failed, beyond>>

\* a version record; its after-image, which nothing reads, is left out
Record(op, r, before) == [ts |-> now, op |-> op, rid |-> r, before |-> before]

\* AppendInsertVersion and its like: only what has succeeded is recorded
Statement(res, record) ==
    /\ Apply(res)
    /\ log' = IF res.ok THEN Append(log, record) ELSE log
    /\ IF res.ok \/ res = Failed THEN UNCHANGED <<since, failed>>
       ELSE failed < MaxFailed /\ failed' = failed + 1 /\ since' = now
    /\ UNCHANGED <<now, revert, beyond>>

MayWrite == ~revert.active /\ Len(log) < MaxLog

Insert(t) ==
    /\ MayWrite /\ NextRid < MaxRows
    /\ Statement(InsertInternal(t), Record("Insert", NextRid, NoTuple))

Update(r, t) ==
    /\ MayWrite
    /\ Statement(UpdateInternal(r, t), Record("Update", r, heap[r].tuple))

Delete(r) ==
    /\ MayWrite
    /\ Statement(DeleteInternal(r), Record("Delete", r, heap[r].tuple))

-----------------------------------------------------------------------------
(* RevertService.                                                          *)

RevertBegin(to) ==
    /\ ~revert.active
    /\ revert' = [active |-> TRUE, to |-> to, left |-> Len(log), whole |-> to >= since]
    /\ IF to >= since THEN UNCHANGED beyond
       ELSE beyond < MaxBeyond /\ beyond' = beyond + 1
    /\ UNCHANGED <<heap, index, log, now, status, past, since, failed>>

\* mutant: changes made in the very millisecond are undone as well
IsAfterOrAt(record, to) == record.ts >= to

\* CollectRollbackRecords
IsAfter(record, to) == record.ts > to

ApplyInverseRecord(record) ==
    CASE record.op = "Insert" -> DeleteInternal(record.rid)
      [] record.op = "Delete" -> RestoreInternal(record.rid, record.before)
      [] record.op = "Update" -> UpdateInternal(record.rid, record.before)

\* The latest record left is undone if it is of the time to undo.  The undoing
\* is not logged itself.
RevertRecord ==
    /\ revert.active /\ revert.left > 0
    /\ LET record == log[revert.left]
       IN  IF IsAfter(record, revert.to)
           THEN LET res == ApplyInverseRecord(record)
                IN  /\ Apply(res)
                    /\ since' = now
                    /\ revert' = IF res.ok THEN [revert EXCEPT !.left = @ - 1] ELSE NoRevert
           ELSE revert' = [revert EXCEPT !.left = @ - 1]
                /\ UNCHANGED <<heap, index, status, past, since>>
    /\ UNCHANGED <<log, now, failed, beyond>>

RevertEnd ==
    /\ revert.active /\ revert.left = 0
    /\ revert' = NoRevert
    /\ status' = TRUE
    /\ UNCHANGED <<heap, index, log, now, past, since, failed, beyond>>

-----------------------------------------------------------------------------
Next ==
    \/ Tick
    \/ \E t \in Tuples : Insert(t)
    \/ \E r \in DOMAIN heap, t \in Tuples : Update(r, t)
    \/ \E r \in DOMAIN heap : Delete(r)
    \/ \E to \in 0..now : RevertBegin(to)
    \/ RevertRecord
    \/ RevertEnd

Spec == Init /\ [][Next]_vars

-----------------------------------------------------------------------------
TypeOK ==
    /\ DOMAIN heap = 0..(NextRid - 1) /\ NextRid <= MaxRows
    /\ heap \in [DOMAIN heap -> [tuple : Tuples, deleted : BOOLEAN]]
    /\ \A c \in Indexes : /\ DOMAIN index[c] \subseteq Keys
                          /\ \A k \in DOMAIN index[c] : index[c][k] \in DOMAIN heap
    /\ Len(log) <= MaxLog
    /\ \A i \in DOMAIN log : log[i].rid \in DOMAIN heap /\ log[i].ts \in 0..now
    /\ status \in BOOLEAN
    /\ revert.to \in 0..now /\ revert.left \in 0..Len(log) /\ revert.active \in BOOLEAN
    /\ DOMAIN past = 0..now /\ since \in 0..now
    /\ failed \in 0..MaxFailed /\ beyond \in 0..MaxBeyond

\* The index never leads from key k to a row without it.
Sound(c) ==
    \A k \in DOMAIN index[c] : IsLive(heap, index[c][k]) /\ heap[index[c][k]].tuple[c] = k

\* Every index has exactly the rows of the table.
Matching ==
    \A c \in Indexes :
        /\ Sound(c)
        /\ \A r \in LiveRows(heap) :
              LET k == heap[r].tuple[c]
              IN  k # Null => k \in DOMAIN index[c] /\ index[c][k] = r

\* The first index never leads to a wrong row, whatever statements have failed
\* midway with their changes half made and whatever reverts were applied to the
\* outcome.  (The loops stop at the first error, so later indexes have no such
\* guarantee.)
FirstIndexSound == TypeOK /\ (NumIndexes > 0 => Sound(1))

\* The indexes have exactly the rows of the table, also between the steps of a
\* revert, as long as no statement has failed midway and no revert has gone
\* back beyond an earlier one.
IndexesMatchHeap == failed + beyond = 0 => Matching

\* Reverting undoes exactly the changes since the timestamp: where every change
\* since then is in the log it succeeds, and the table is the one of that moment
\* with the same row ids, for any mixture of changes to the same rows and even
\* where a statement that failed earlier has left the indexes wrong.
RevertRestores ==
    [][revert.whole /\ ~revert'.active
           => status' /\ Table(heap') = past[revert.to]]_vars
=============================================================================
