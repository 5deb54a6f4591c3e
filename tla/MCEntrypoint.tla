---------------------------- MODULE MCEntrypoint ----------------------------
(* Three storage nodes with interleaved virtual nodes on a ring of eight    *)
(* positions, and statements on one database that name it or do not.        *)
EXTENDS Entrypoint, TLC

MCNodes == 1..3
MCPositions == 0..7
MCSlots == (1 :> {0, 3}) @@ (2 :> {2, 6}) @@ (3 :> {4, 5})

\* every node may fail and one may hang
MCNodeStates == [n \in MCNodes |-> IF n = 1 THEN {"up", "down", "hung"} ELSE {"up", "down"}]

Text(i) == IF i = 1 THEN "t1" ELSE "t2"
MCHash == [k \in {"d", "t1", "t2"} |-> CASE k = "d" -> 1 [] k = "t1" -> 3 [] k = "t2" -> 5]
On(named, i) == [db |-> "d", named |-> named, text |-> Text(i)]
AnyStatements == {On(TRUE, 1), On(FALSE, 1), On(FALSE, 2)}
=============================================================================
