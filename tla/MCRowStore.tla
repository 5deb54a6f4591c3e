----------------------------- MODULE MCRowStore -----------------------------
(* Instances of RowStore for TLC: rows of three sizes and one too large for a page. *)
EXTENDS RowStore

MCTuples == {"small", "half", "page", "huge"}
MCSizeOf == [small |-> 1, half |-> 2, page |-> 3, huge |-> 4]
=============================================================================
