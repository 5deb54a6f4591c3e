---------------------------- MODULE IndexedHeap ----------------------------
(***************************************************************************)
(* The rows of one table with the B*-tree indexes over them, and how the   *)
(* four changes of StorageNodeEngine (InsertInternal, UpdateInternal,      *)
(* DeleteInternal, RestoreInternal) keep the two in step, up to the        *)
(* version record.                                                         *)
(*                                                                         *)
(* A tuple is a sequence of column values, of which the first NumIndexes   *)
(* are indexed; an index is the map from keys to row ids that BStarTree    *)
(* implements.  A change writes heap and indexes in a fixed order and      *)
(* stops at the first error without undoing anything.                      *)
(***************************************************************************)
EXTENDS Integers, Sequences, FiniteSets

CONSTANTS NumIndexes,      \* indexes are maintained in the descriptor's order
          Null             \* the NULL value, which no index has

ASSUME IndexedHeapAssumption == NumIndexes \in Nat

VARIABLES heap,     \* row id -> tuple and tombstone, deleted rows included
          index     \* per index: key -> row id

Indexes == 1..NumIndexes

IsLive(h, r) == r \in DOMAIN h /\ ~h[r].deleted
LiveRows(h) == {r \in DOMAIN h : IsLive(h, r)}

\* what ScanTable returns
Table(h) == [r \in LiveRows(h) |-> h[r].tuple]

Put(f, x, v) == [y \in DOMAIN f \cup {x} |-> IF y = x THEN v ELSE f[y]]
Remove(f, x) == [y \in DOMAIN f \ {x} |-> f[y]]

-----------------------------------------------------------------------------
(* Index maintenance.  Each loop runs over the indexes in order and        *)
(* returns at the first error; the indexes before it stay changed.         *)

\* the first index at which a loop stops, if any
FirstOf(S) == IF S = {} THEN NumIndexes + 1 ELSE CHOOSE c \in S : \A d \in S : c <= d

HasKey(ix, t, c) == t[c] \in DOMAIN ix[c]

\* mutant: a key that is there already is given the new row
InsertOrReplace(ix, t, r) ==
    [ok |-> TRUE, index |-> [c \in Indexes |-> IF t[c] # Null THEN Put(ix[c], t[c], r) ELSE ix[c]]]

\* A key that is there already: BStarTree::Insert refuses it.
InsertIntoIndexes(ix, t, r) ==
    LET stop == FirstOf({c \in Indexes : t[c] # Null /\ HasKey(ix, t, c)})
    IN  [ok |-> stop > NumIndexes,
         index |-> [c \in Indexes |-> IF c < stop /\ t[c] # Null THEN Put(ix[c], t[c], r)
                                      ELSE ix[c]]]

\* mutant: the entries of all indexes but the first stay
DeleteFromFirstIndex(ix, t) ==
    [ok |-> TRUE, index |-> [c \in Indexes |-> IF c = 1 THEN Remove(ix[c], t[c]) ELSE ix[c]]]

\* A key that is not there: BStarTree::Delete returns kNotFound.  It looks at
\* the key only, not at the row id.
DeleteFromIndexes(ix, t) ==
    LET stop == FirstOf({c \in Indexes : t[c] # Null /\ ~HasKey(ix, t, c)})
    IN  [ok |-> stop > NumIndexes,
         index |-> [c \in Indexes |-> IF c < stop /\ t[c] # Null THEN Remove(ix[c], t[c])
                                      ELSE ix[c]]]

\* mutant: the new key goes in while the old one stays
InsertNewKeyOnly(ix, old, new, r) == InsertIntoIndexes(ix, new, r)

\* Per index the old key goes before the new one comes; unchanged keys are skipped.
UpdateIndexes(ix, old, new, r) ==
    LET Changed == {c \in Indexes : old[c] # new[c]}
        CannotDelete == {c \in Changed : old[c] # Null /\ ~HasKey(ix, old, c)}
        CannotInsert == {c \in Changed : new[c] # Null /\ HasKey(ix, new, c)}
        stop == FirstOf(CannotDelete \cup CannotInsert)
        Without(c) == IF old[c] = Null THEN ix[c] ELSE Remove(ix[c], old[c])
        With(c) == IF new[c] = Null THEN Without(c) ELSE Put(Without(c), new[c], r)
    IN  [ok |-> stop > NumIndexes,
         index |-> [c \in Indexes |->
                      IF c \notin Changed \/ c > stop THEN ix[c]
                      ELSE IF c < stop THEN With(c)
                      ELSE IF c \in CannotDelete THEN ix[c] ELSE Without(c)]]

-----------------------------------------------------------------------------
(* InsertInternal, UpdateInternal, DeleteInternal and RestoreInternal up   *)
(* to the version record.                                                  *)

\* row ids are never given out twice: deleted rows stay in the heap
NextRid == Cardinality(DOMAIN heap)

\* TableStorage
StoreInsert(t) == Put(heap, NextRid, [tuple |-> t, deleted |-> FALSE])
StoreUpdate(r, t) == [heap EXCEPT ![r].tuple = t]
StoreDelete(r) == [heap EXCEPT ![r].deleted = TRUE]
StoreRestore(r, t) == Put(heap, r, [tuple |-> t, deleted |-> FALSE])

\* an early return: nothing has changed yet
Failed == [ok |-> FALSE, heap |-> heap, index |-> index]

InsertInternal(t) ==
    LET i == InsertIntoIndexes(index, t, NextRid)
    IN  [ok |-> i.ok, index |-> i.index, heap |-> StoreInsert(t)]

UpdateInternal(r, t) ==
    IF ~IsLive(heap, r) THEN Failed
    ELSE LET i == UpdateIndexes(index, heap[r].tuple, t, r)
         IN  [ok |-> i.ok, index |-> i.index, heap |-> StoreUpdate(r, t)]

\* here the indexes come first
DeleteInternal(r) ==
    IF ~IsLive(heap, r) THEN Failed
    ELSE LET i == DeleteFromIndexes(index, heap[r].tuple)
         IN  [ok |-> i.ok, index |-> i.index, heap |-> IF i.ok THEN StoreDelete(r) ELSE heap]

RestoreInternal(r, t) ==
    IF IsLive(heap, r) THEN Failed
    ELSE LET i == InsertIntoIndexes(index, t, r)
         IN  [ok |-> i.ok, index |-> i.index, heap |-> StoreRestore(r, t)]
=============================================================================
