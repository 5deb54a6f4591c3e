------------------------------ MODULE HeapRows ------------------------------
(***************************************************************************)
(* What a row store promises to the layers above it: a map from row ids to *)
(* tuples with tombstones.  An id once given out is never given out again, *)
(* an operation touches one row, and closing and reopening is invisible.   *)
(*                                                                         *)
(* RowStore implements this on pages.  VersionedTable keeps its rows the   *)
(* same way, as a map from row ids to tuples.                              *)
(***************************************************************************)
EXTENDS Naturals

CONSTANT Tuples

VARIABLES rows,  \* row id -> [tuple, deleted]
          next   \* the next id to give out

Init ==
    /\ rows = [r \in {} |-> 0]
    /\ next = 0

Row(t, gone) == [tuple |-> t, deleted |-> gone]

\* rows with row r set to v
With(r, v) == [q \in DOMAIN rows \cup {r} |-> IF q = r THEN v ELSE rows[q]]

Insert(t) ==
    /\ rows' = With(next, Row(t, FALSE))
    /\ next' = next + 1

Update(r, t) ==
    /\ ~rows[r].deleted
    /\ rows' = With(r, Row(t, FALSE))
    /\ next' = next

Delete(r) ==
    /\ ~rows[r].deleted
    /\ rows' = With(r, Row(rows[r].tuple, TRUE))
    /\ next' = next

\* A row comes back under its own id; later ids stay beyond it.
Restore(r, t) ==
    /\ rows' = With(r, Row(t, FALSE))
    /\ next' = IF r < next THEN next ELSE r + 1

Next ==
    \/ \E t \in Tuples : Insert(t)
    \/ \E r \in DOMAIN rows, t \in Tuples : Update(r, t)
    \/ \E r \in DOMAIN rows : Delete(r)
    \/ \E r \in DOMAIN rows' : Restore(r, rows'[r].tuple)

Spec == Init /\ [][Next]_<<rows, next>>
=============================================================================
