------------------------------- MODULE KeySet -------------------------------
(***************************************************************************)
(* What a unique index promises: a set of keys, each with its entry, that  *)
(* grows and shrinks by the key addressed and by no other.                 *)
(*                                                                         *)
(* BStarTree implements it.  The keys of an index in VersionedTable and    *)
(* StorageNode are such a set.                                             *)
(***************************************************************************)
CONSTANT Keys

VARIABLE keys

Init == keys = {}

Insert(k) == k \in Keys \ keys /\ keys' = keys \cup {k}

Delete(k) == k \in keys /\ keys' = keys \ {k}

\* the key that came, or the one that went
Next ==
    \/ \E k \in keys' \ keys : Insert(k)
    \/ \E k \in keys \ keys' : Delete(k)

Spec == Init /\ [][Next]_keys
=============================================================================
