------------------------------ MODULE BStarTree ------------------------------
(***************************************************************************)
(* BStarTree: the paged index with redistribution to the right sibling     *)
(* before a split, and redistribution or merging after a deletion.         *)
(*                                                                         *)
(* A leaf entry is its key: every line that moves an entry moves the row   *)
(* id with it.  Child indexes count from 1.  parent_page_id is left out:   *)
(* it is written and never read.  Pages the tree lets go are never read    *)
(* again, so their ids are taken anew here while the file only grows.      *)
(***************************************************************************)
EXTENDS Integers, SequencesExt

CONSTANTS Keys,       \* a set of integers
          MinDegrees, \* the values min_degree may have
          MaxPages    \* bound: node pages of a tree

ASSUME BStarTreeAssumption ==
    Keys \subseteq Int /\ MinDegrees \subseteq Nat \ {0, 1} /\ MaxPages \in Nat

VARIABLE tree  \* the metadata (min_degree, root, first leaf, height) and the node of each page

Invalid == 0   \* InvalidPageId()

Empty(degree) ==
    [degree |-> degree, root |-> Invalid, first |-> Invalid, height |-> 0, node |-> [p \in {} |-> 0]]

Leaf(keys, next, isRoot) ==
    [leaf |-> TRUE, keys |-> keys, kids |-> <<>>, next |-> next, root |-> isRoot]
Internal(keys, kids, isRoot) ==
    [leaf |-> FALSE, keys |-> keys, kids |-> kids, next |-> Invalid, root |-> isRoot]

Write(T, p, n) == [T EXCEPT !.node = [q \in DOMAIN T.node \cup {p} |-> IF q = p THEN n ELSE T.node[q]]]
Free(T, p) == [T EXCEPT !.node = [q \in DOMAIN T.node \ {p} |-> T.node[q]]]

\* AllocateNodePage
NewPage(T) == Min((1..MaxPages) \ DOMAIN T.node)

MaxKeysPerNode(T) == 2 * T.degree - 1
MinKeysPerNonRootNode(T) == T.degree - 1
Underfull(T, p) == ~T.node[p].root /\ Len(T.node[p].keys) < MinKeysPerNonRootNode(T)

From(s, i) == SubSeq(s, i, Len(s))
UpTo(s, i) == SubSeq(s, 1, i)

-----------------------------------------------------------------------------
(* Searching.                                                              *)

\* separators are the least keys of the subtree to their right
ChooseChildIndex(keys, k) == Len(SelectSeq(keys, LAMBDA x : x <= k)) + 1

FindEntryPosition(keys, k) == Len(SelectSeq(keys, LAMBDA x : x < k)) + 1

\* the way from p down to the leaf for k; each link is a page and the child taken
RECURSIVE PathFrom(_, _, _)
PathFrom(T, p, k) ==
    IF T.node[p].leaf THEN <<>>
    ELSE LET c == ChooseChildIndex(T.node[p].keys, k)
         IN  <<[page |-> p, child |-> c]>> \o PathFrom(T, T.node[p].kids[c], k)

ChildAt(T, link) == T.node[link.page].kids[link.child]

FindPathToLeaf(T, k) == PathFrom(T, T.root, k)
LeafFor(T, path) == IF path = <<>> THEN T.root ELSE ChildAt(T, Last(path))

Find(T, k) == /\ T.root # Invalid
              /\ Contains(T.node[LeafFor(T, FindPathToLeaf(T, k))].keys, k)

\* the keys of the leaves from p on
RECURSIVE LeavesFrom(_, _)
LeavesFrom(T, p) == IF p = Invalid THEN <<>> ELSE T.node[p].keys \o LeavesFrom(T, T.node[p].next)

\* A KeyRange; a bound is the set of its key, empty if the range has no such bound.
Ranges ==
    LET Bounds == {{}} \cup {{k} : k \in Keys}
    IN  {r \in [low : Bounds, high : Bounds, includeLow : BOOLEAN, includeHigh : BOOLEAN] :
            \A l \in r.low, h \in r.high : l <= h}

FitsBelow(k, range) == \A h \in range.high : IF range.includeHigh THEN k <= h ELSE k < h
FitsInRange(k, range) ==
    /\ \A l \in range.low : IF range.includeLow THEN k >= l ELSE k > l
    /\ FitsBelow(k, range)

\* From the leaf for the low bound, or the first leaf, along the chain up to the
\* first key beyond the high bound.
RangeSearch(T, range) ==
    LET start == IF range.low = {} THEN T.first
                 ELSE LeafFor(T, FindPathToLeaf(T, CHOOSE l \in range.low : TRUE))
        seen == LeavesFrom(T, start)
        beyond == SelectInSeq(seen, LAMBDA k : ~FitsBelow(k, range))
        read == IF beyond = 0 THEN seen ELSE UpTo(seen, beyond - 1)
    IN  IF T.root = Invalid THEN <<>>
        ELSE SelectSeq(read, LAMBDA k : FitsInRange(k, range))

-----------------------------------------------------------------------------
(* Separators and redistribution.                                          *)

\* The separator to the left of the subtree: of the nearest link that is not leftmost.
UpdateParentSeparatorAfterChildChange(T, path, k) ==
    LET i == SelectLastInSeq(path, LAMBDA link : link.child > 1)
    IN  IF i = 0 THEN T
        ELSE [T EXCEPT !.node[path[i].page].keys[path[i].child - 1] = k]

HasRight(T, path) ==
    path # <<>> /\ Last(path).child < Len(T.node[Last(path).page].kids)
RightSibling(T, path) == T.node[Last(path).page].kids[Last(path).child + 1]

Splits(T, total) ==
    LET Allowed == MinKeysPerNonRootNode(T)..MaxKeysPerNode(T)
    IN  {s \in Allowed : total - s \in Allowed}

\* the most balanced split, the first among equals
ChooseBalancedSplit(T, total) ==
    LET Distance(s) == IF 2 * s > total THEN 2 * s - total ELSE total - 2 * s
    IN  CHOOSE s \in Splits(T, total) : \A r \in Splits(T, total) :
            Distance(s) < Distance(r) \/ (Distance(s) = Distance(r) /\ s <= r)

\* A leaf with entries keys shares them with its right sibling.
RedistributeLeafWithRightSibling(T, p, path, keys) ==
    LET up == Last(path)
        right == RightSibling(T, path)
        all == keys \o T.node[right].keys
        s == ChooseBalancedSplit(T, Len(all))
        T1 == [T EXCEPT !.node[p].keys = UpTo(all, s),
                        !.node[p].next = right,
                        !.node[right].keys = From(all, s + 1),
                        !.node[up.page].keys[up.child] = all[s + 1]]
    IN  IF up.child = 1 THEN UpdateParentSeparatorAfterChildChange(T1, path, all[1]) ELSE T1

CanRedistributeLeaf(T, path, keys) ==
    HasRight(T, path) /\ Splits(T, Len(keys) + Len(T.node[RightSibling(T, path)].keys)) # {}

\* the keys of two internal nodes with the parent's separator between them
Joined(keys, separator, right) == keys \o <<separator>> \o right

\* The same for internal nodes: the keys rotate through the parent's separator.
RedistributeInternalWithRightSibling(T, p, path, keys, kids) ==
    LET up == Last(path)
        right == RightSibling(T, path)
        all == Joined(keys, T.node[up.page].keys[up.child], T.node[right].keys)
        children == kids \o T.node[right].kids
        m == ChooseBalancedSplit(T, Len(all) - 1)
    IN  [T EXCEPT !.node[p].keys = UpTo(all, m),
                  !.node[p].kids = UpTo(children, m + 1),
                  !.node[right].keys = From(all, m + 2),
                  !.node[right].kids = From(children, m + 2),
                  !.node[up.page].keys[up.child] = all[m + 1]]

CanRedistributeInternal(T, path, keys) ==
    HasRight(T, path) /\ Splits(T, Len(keys) + Len(T.node[RightSibling(T, path)].keys)) # {}

-----------------------------------------------------------------------------
(* Insertion.                                                              *)

\* a root split: the metadata follows
GrowRoot(T, left, key, right) ==
    LET p == NewPage(T)
    IN  [Write(T, p, Internal(<<key>>, <<left, right>>, TRUE))
            EXCEPT !.root = p, !.height = @ + 1]

RECURSIVE InsertIntoInternal(_, _, _, _, _, _)

\* Of the 2t - 1 + 1 separators the middle one moves up.
SplitInternal(T, p, path, keys, kids) ==
    LET middle == T.degree
        right == NewPage(T)
        T1 == Write(Write(T, p, Internal(UpTo(keys, middle - 1), UpTo(kids, middle), FALSE)),
                    right, Internal(From(keys, middle + 1), From(kids, middle + 1), FALSE))
    IN  IF path = <<>> THEN GrowRoot(T1, p, keys[middle], right)
        ELSE InsertIntoInternal(T1, Last(path).page, Front(path), Last(path).child, keys[middle], right)

InsertIntoInternal(T, p, path, left, key, right) ==
    LET keys == InsertAt(T.node[p].keys, left, key)
        kids == InsertAt(T.node[p].kids, left + 1, right)
    IN  IF Len(keys) <= MaxKeysPerNode(T)
        THEN [T EXCEPT !.node[p].keys = keys, !.node[p].kids = kids]
        ELSE IF CanRedistributeInternal(T, path, keys)
        THEN RedistributeInternalWithRightSibling(T, p, path, keys, kids)
        ELSE SplitInternal(T, p, path, keys, kids)

\* mutant: the new leaf ends the chain
EndOfChain(n) == Invalid

\* where the chain goes on after the new leaf
NextLeaf(n) == n.next

\* what the new leaf gets; its first key becomes the separator
RightHalf(T, keys) == From(keys, T.degree + 1)

SplitLeaf(T, p, path, keys) ==
    LET right == NewPage(T)
        T1 == Write(Write(T, p, Leaf(UpTo(keys, T.degree), right, FALSE)),
                    right, Leaf(RightHalf(T, keys), NextLeaf(T.node[p]), FALSE))
    IN  IF path = <<>> THEN GrowRoot(T1, p, keys[T.degree + 1], right)
        ELSE InsertIntoInternal(T1, Last(path).page, Front(path), Last(path).child,
                                keys[T.degree + 1], right)

InsertIntoLeaf(T, p, path, k) ==
    LET pos == FindEntryPosition(T.node[p].keys, k)
        keys == InsertAt(T.node[p].keys, pos, k)
        T1 == [T EXCEPT !.node[p].keys = keys]
    IN  IF Len(keys) <= MaxKeysPerNode(T)
        THEN IF pos = 1 THEN UpdateParentSeparatorAfterChildChange(T1, path, k) ELSE T1
        ELSE IF CanRedistributeLeaf(T, path, keys)
        THEN RedistributeLeafWithRightSibling(T, p, path, keys)
        ELSE SplitLeaf(T, p, path, keys)

Inserted(T, k) ==
    IF T.root = Invalid
    THEN LET p == NewPage(T)
         IN  [Write(T, p, Leaf(<<k>>, Invalid, TRUE)) EXCEPT !.root = p, !.first = p, !.height = 1]
    ELSE LET path == FindPathToLeaf(T, k)
         IN  InsertIntoLeaf(T, LeafFor(T, path), path, k)

-----------------------------------------------------------------------------
(* Deletion.  A merge always fits its page: it comes only where the two    *)
(* nodes have too few keys to share.                                       *)

RECURSIVE RebalanceAfterDelete(_, _, _)

\* mutant: the parent is not looked at after it has lost a child
LoseChildOnly(T, path) ==
    LET up == Last(path)
    IN  [T EXCEPT !.node[up.page].keys = RemoveAt(@, up.child),
                  !.node[up.page].kids = RemoveAt(@, up.child + 1)]

\* The parent gives up the separator and the merged child, and may be underfull itself.
LoseChild(T, path) ==
    LET up == Last(path)
        T1 == [T EXCEPT !.node[up.page].keys = RemoveAt(@, up.child),
                        !.node[up.page].kids = RemoveAt(@, up.child + 1)]
    IN  IF Underfull(T1, up.page) THEN RebalanceAfterDelete(T1, up.page, Front(path)) ELSE T1

\* the root is left with one child, which takes its place
IsLastOfRoot(T, path) ==
    LET parent == T.node[Last(path).page]
    IN  parent.root /\ Len(parent.keys) = 1

MergeLeafWithRightSibling(T, p, path) ==
    LET right == RightSibling(T, path)
        T1 == [T EXCEPT !.node[p].keys = @ \o T.node[right].keys,
                        !.node[p].next = T.node[right].next]
    IN  IF IsLastOfRoot(T, path)
        THEN [Free(Free(T1, right), Last(path).page) EXCEPT
                  !.node[p].root = TRUE, !.root = p, !.first = p, !.height = 1]
        ELSE LoseChild(Free(T1, right), path)

MergeInternalWithRightSibling(T, p, path) ==
    LET up == Last(path)
        right == RightSibling(T, path)
        T1 == [T EXCEPT !.node[p].keys = Joined(@, T.node[up.page].keys[up.child], T.node[right].keys),
                        !.node[p].kids = @ \o T.node[right].kids]
    IN  IF IsLastOfRoot(T, path)
        THEN [Free(Free(T1, right), up.page) EXCEPT
                  !.node[p].root = TRUE, !.root = p, !.height = @ - 1]
        ELSE LoseChild(Free(T1, right), path)

\* p and its right sibling share what they have, or else become one node
ShareOrMerge(T, p, path) ==
    LET n == T.node[p]
    IN  IF n.leaf
        THEN IF CanRedistributeLeaf(T, path, n.keys)
             THEN RedistributeLeafWithRightSibling(T, p, path, n.keys)
             ELSE MergeLeafWithRightSibling(T, p, path)
        ELSE IF CanRedistributeInternal(T, path, n.keys)
             THEN RedistributeInternalWithRightSibling(T, p, path, n.keys, n.kids)
             ELSE MergeInternalWithRightSibling(T, p, path)

\* with the right sibling if there is one, else with the left one
RebalanceAfterDelete(T, p, path) ==
    LET up == Last(path)
        leftPath == Append(Front(path), [up EXCEPT !.child = @ - 1])
    IN  IF path = <<>> \/ ~Underfull(T, p) THEN T
        ELSE IF HasRight(T, path) THEN ShareOrMerge(T, p, path)
        ELSE IF up.child = 1 THEN T
        ELSE ShareOrMerge(T, ChildAt(T, Last(leftPath)), leftPath)

\* mutant: the entry after the one with the key
DeletePositionNext(keys, k) == Min({FindEntryPosition(keys, k) + 1, Len(keys)})

\* where the entry to delete is
DeletePosition(keys, k) == FindEntryPosition(keys, k)

DeleteFromLeaf(T, p, path, k) ==
    LET pos == DeletePosition(T.node[p].keys, k)
        keys == RemoveAt(T.node[p].keys, pos)
        T1 == [T EXCEPT !.node[p].keys = keys]
        T2 == IF pos = 1 /\ keys # <<>> THEN UpdateParentSeparatorAfterChildChange(T1, path, keys[1])
              ELSE T1
    IN  IF T.node[p].root /\ keys = <<>> THEN Empty(T.degree)
        ELSE IF Underfull(T1, p) THEN RebalanceAfterDelete(T2, p, path)
        ELSE T2

Deleted(T, k) ==
    LET path == FindPathToLeaf(T, k)
    IN  DeleteFromLeaf(T, LeafFor(T, path), path, k)

-----------------------------------------------------------------------------
Init == \E degree \in MinDegrees : tree = Empty(degree)

\* an existing key is refused
Insert(k) ==
    /\ ~Find(tree, k)
    /\ tree' = Inserted(tree, k)

\* a missing one is an error
Delete(k) ==
    /\ Find(tree, k)
    /\ tree' = Deleted(tree, k)

Next == \E k \in Keys : Insert(k) \/ Delete(k)

Spec == Init /\ [][Next]_tree

-----------------------------------------------------------------------------
Pages == DOMAIN tree.node
Contents == {k \in Keys : Find(tree, k)}

\* the elements of S in ascending order
IsSortedSeqOf(s, S) == ToSet(s) = S /\ \A i \in 1..(Len(s) - 1) : s[i] < s[i + 1]

TypeOK ==
    /\ Pages \subseteq 1..MaxPages
    /\ \A p \in Pages :
           LET n == tree.node[p]
           IN  /\ ToSet(n.keys) \subseteq Keys
               /\ Len(n.kids) = (IF n.leaf THEN 0 ELSE Len(n.keys) + 1)
               /\ ToSet(n.kids) \cup ({n.next} \ {Invalid}) \subseteq Pages
    /\ {tree.root, tree.first} \subseteq Pages \cup {Invalid}

\* Splitting, sharing and merging keep every node but the root between its
\* limits, and the root is the one node marked as such: a node that grew beyond
\* MaxKeysPerNode would not fit its page, and one that shrank to nothing would
\* make the next split or search fail.  All leaves are at the depth the metadata
\* page says.
WellFormed ==
    /\ TypeOK
    /\ \A p \in Pages :
          LET n == tree.node[p]
          IN  /\ n.root <=> p = tree.root
              /\ Len(n.keys) <= MaxKeysPerNode(tree)
              /\ Len(n.keys) >= (IF n.root THEN 1 ELSE MinKeysPerNonRootNode(tree))
    /\ \A k \in Keys : tree.root # Invalid => Len(FindPathToLeaf(tree, k)) = tree.height - 1

\* Every range search, with any bounds or none, finds exactly the keys a point
\* search finds, each once and in order: the chain of leaves agrees with the
\* separators on the way down after any history of splits and merges.
RangesMatchLookups ==
    LET found == Contents
    IN  \A range \in Ranges :
            IsSortedSeqOf(RangeSearch(tree, range), {k \in found : FitsInRange(k, range)})

\* The tree is the set of keys of KeySet: a step changes the membership of the key
\* the caller has named, and never hides or brings back another one, however far
\* it goes up the tree.
KS == INSTANCE KeySet WITH keys <- Contents
ImplementsKeySet ==
    /\ KS!Spec
    /\ [][\A k \in Keys : (Insert(k) => KS!Insert(k)) /\ (Delete(k) => KS!Delete(k))]_tree
=============================================================================
