------------------------------ MODULE HashRing ------------------------------
(***************************************************************************)
(* ConsistentHashRing: an ordered map from positions on the ring to node   *)
(* ids.  The hash function is given by where it puts things: Slots[n] are  *)
(* the positions of node n's virtual nodes.  Node ids are numbers, ordered *)
(* as the id strings are.                                                  *)
(***************************************************************************)
EXTENDS Naturals, FiniteSets, Functions

CONSTANTS Nodes, Positions, Slots

ASSUME HashRingAssumption ==
    Nodes \subseteq Nat \ {0} /\ Positions \subseteq Nat /\ Slots \in [Nodes -> SUBSET Positions]

\* no two nodes hash a virtual node to the same position
SlotsDisjoint == \A m, n \in Nodes : m # n => Slots[m] \cap Slots[n] = {}

NoNode == 0
EmptyRing == <<>>
Least(S) == CHOOSE x \in S : \A y \in S : x <= y

RingAdd(r, n) == [h \in DOMAIN r \cup Slots[n] |-> IF h \in Slots[n] THEN n ELSE r[h]]

RingRemove(r, n) == [h \in DOMAIN r \ Slots[n] |-> r[h]]

AllNodes(r) == Range(r)

\* the first position at or after h, the first of all when there is none
LowerBound(r, h) == LET after == {x \in DOMAIN r : h <= x}
                    IN Least(IF after = {} THEN DOMAIN r ELSE after)

NodeByRemainder(r, h) ==
    IF DOMAIN r = {} THEN NoNode
    ELSE CHOOSE n \in AllNodes(r) :
            Cardinality({m \in AllNodes(r) : m < n}) = h % Cardinality(AllNodes(r))
GetNode(r, h) == IF DOMAIN r = {} THEN NoNode ELSE r[LowerBound(r, h)]
=============================================================================
