-------------------------- MODULE StatementProofs --------------------------
(***************************************************************************)
(* Proofs about the executors, for every schema, every statement and every *)
(* number of rows, and for every language of conditions that               *)
(* ConditionsAssumption admits: the stored rows obey the schema, a         *)
(* statement changes the rows it is about and no others, and a SELECT      *)
(* returns them.                                                           *)
(***************************************************************************)
EXTENDS Statements, TLAPS, WellFoundedInduction, FiniteSetTheorems

-----------------------------------------------------------------------------
(* The order of row ids.                                                   *)

\* The rank of a member lies between 1 and the size, and grows with it.
LEMMA RankFacts ==
    ASSUME NEW S, IsFiniteSet(S), \A p \in S : p \in Nat
    PROVE  /\ Cardinality(S) \in Nat
           /\ \A r \in S : Rank(S, r) \in 1..Cardinality(S)
           /\ \A r, q \in S : r < q => Rank(S, r) < Rank(S, q)
<1> DEFINE Upto(r) == {q \in S : q <= r}
<1>1. Cardinality(S) \in Nat
  BY FS_CardinalityType
<1>2. ASSUME NEW r \in S
      PROVE  /\ Upto(r) \in SUBSET S /\ IsFiniteSet(Upto(r)) /\ Cardinality(Upto(r)) \in Nat
             /\ Cardinality(Upto(r)) <= Cardinality(S) /\ Cardinality(Upto(r)) # 0
  <2>1. Upto(r) \in SUBSET S /\ r \in Upto(r)
    OBVIOUS
  <2> HIDE DEF Upto
  <2>2. IsFiniteSet(Upto(r)) /\ Cardinality(Upto(r)) <= Cardinality(S)
    BY <2>1, FS_Subset
  <2>3. Cardinality(Upto(r)) \in Nat /\ Cardinality(Upto(r)) # 0
    BY <2>1, <2>2, FS_CardinalityType, FS_EmptySet
  <2>4. QED
    BY <2>1, <2>2, <2>3
<1>3. ASSUME NEW r \in S, NEW q \in S, r < q PROVE Cardinality(Upto(r)) < Cardinality(Upto(q))
  <2>1. r \in Nat /\ q \in Nat
    OBVIOUS
  <2>2. \A p \in S : p \in Nat /\ (p <= r => p <= q)
    BY <1>3, <2>1
  <2>3. q <= q /\ ~(q <= r)
    BY <1>3, <2>1
  <2>4. Upto(r) \in SUBSET Upto(q) /\ q \in Upto(q) /\ q \notin Upto(r)
    BY <2>2, <2>3, Zenon
  <2> HIDE DEF Upto
  <2>5. Cardinality(Upto(r)) <= Cardinality(Upto(q)) /\ Cardinality(Upto(r)) # Cardinality(Upto(q))
    BY <2>4, <1>2, FS_Subset
  <2>6. QED
    BY <2>5, <1>2
<1> HIDE DEF Upto
<1>4. \A r : Rank(S, r) = Cardinality(Upto(r))
  BY DEF Rank, Upto
<1>5. QED
  BY <1>1, <1>2, <1>3, <1>4

\* Every position has its member: the ranks are as many as the members.
LEMMA RankOnto ==
    ASSUME NEW S, IsFiniteSet(S), \A p \in S : p \in Nat, NEW i \in 1..Cardinality(S)
    PROVE  \E r \in S : Rank(S, r) = i
<1> DEFINE f == [r \in S |-> Rank(S, r)]
           n == Cardinality(S)
<1>1. n \in Nat /\ f \in [S -> 1..n] /\ \A r, q \in S : r < q => f[r] < f[q]
  BY RankFacts
<1>2. f \in Injection(S, 1..n)
  <2>1. ASSUME NEW r \in S, NEW q \in S, f[r] = f[q] PROVE r = q
    BY <2>1, <1>1
  <2>2. QED
    BY <1>1, <2>1 DEF Injection, IsInjective
<1>3. IsFiniteSet(1..n) /\ Cardinality(1..n) = n
  BY <1>1, FS_Interval
<1> HIDE DEF n, f
<1>4. f \in Surjection(S, 1..n)
  BY <1>2, <1>3, FS_Injection DEF n
<1>5. QED
  BY <1>4, Zenon DEF Surjection, f, n

\* InOrder lists the members of a set, each at its rank.
LEMMA InOrderFacts ==
    ASSUME NEW S, IsFiniteSet(S), \A p \in S : p \in Nat
    PROVE  /\ Cardinality(S) \in Nat
           /\ DOMAIN InOrder(S) = 1..Cardinality(S)
           /\ \A i \in 1..Cardinality(S) : InOrder(S)[i] \in S /\ Rank(S, InOrder(S)[i]) = i
           /\ \A r \in S : Rank(S, r) \in 1..Cardinality(S) /\ InOrder(S)[Rank(S, r)] = r
           /\ \A i, j \in 1..Cardinality(S) : i < j => InOrder(S)[i] < InOrder(S)[j]
<1>1. Cardinality(S) \in Nat /\ DOMAIN InOrder(S) = 1..Cardinality(S)
  BY FS_CardinalityType DEF InOrder
<1>2. \A i \in 1..Cardinality(S) : InOrder(S)[i] \in S /\ Rank(S, InOrder(S)[i]) = i
  BY RankOnto DEF InOrder
<1>3. ASSUME NEW r \in S, NEW q \in S, Rank(S, r) = Rank(S, q) PROVE r = q
  <2>1. r \in Nat /\ q \in Nat /\ Rank(S, r) \in Nat
    BY RankFacts
  <2>2. ~(Rank(S, r) < Rank(S, q)) /\ ~(Rank(S, q) < Rank(S, r))
    BY <1>3, <2>1
  <2>3. ~(r < q) /\ ~(q < r)
    BY <2>2, RankFacts, Zenon
  <2>4. QED
    BY <2>1, <2>3
<1>4. \A r \in S : Rank(S, r) \in 1..Cardinality(S) /\ InOrder(S)[Rank(S, r)] = r
  BY <1>2, <1>3, RankFacts
<1>5. ASSUME NEW i \in 1..Cardinality(S), NEW j \in 1..Cardinality(S), i < j
      PROVE  InOrder(S)[i] < InOrder(S)[j]
  <2>1. InOrder(S)[i] \in S /\ InOrder(S)[j] \in S /\ Rank(S, InOrder(S)[i]) < Rank(S, InOrder(S)[j])
    BY <1>2, <1>5
  <2>2. InOrder(S)[i] \in Nat /\ InOrder(S)[j] \in Nat
    BY <2>1
  <2>3. Rank(S, InOrder(S)[i]) \in Nat /\ Rank(S, InOrder(S)[j]) \in Nat
    BY <2>1, RankFacts
  <2>4. InOrder(S)[i] # InOrder(S)[j] /\ ~(InOrder(S)[j] < InOrder(S)[i])
    BY <2>1, <2>2, <2>3, RankFacts
  <2>5. QED
    BY <2>2, <2>4
<1>6. QED
  BY <1>1, <1>2, <1>4, <1>5, Zenon

\* A larger number comes last.
LEMMA InOrderLast ==
    ASSUME NEW S, IsFiniteSet(S), \A p \in S : p \in Nat, NEW x \in Nat, \A r \in S : r < x
    PROVE  /\ IsFiniteSet(S \cup {x}) /\ Cardinality(S \cup {x}) = Cardinality(S) + 1
           /\ \A i \in 1..Cardinality(S) : InOrder(S \cup {x})[i] = InOrder(S)[i]
           /\ InOrder(S \cup {x})[Cardinality(S) + 1] = x
<1> DEFINE T == S \cup {x}
<1>1. Cardinality(S) \in Nat /\ x \notin S
  BY FS_CardinalityType
<1>2. IsFiniteSet(T) /\ Cardinality(T) = Cardinality(S) + 1 /\ \A p \in T : p \in Nat
  BY <1>1, FS_AddElement
<1>3. \A r \in S : Rank(T, r) = Rank(S, r)
  <2> SUFFICES ASSUME NEW r \in S PROVE {q \in T : q <= r} = {q \in S : q <= r}
    BY DEF Rank
  <2>1. ~(x <= r)
    OBVIOUS
  <2>2. QED
    BY <2>1
<1>4. Rank(T, x) = Cardinality(T)
  <2>1. \A q \in T : q \in Nat /\ q <= x
    BY <1>2
  <2>2. {q \in T : q <= x} = T
    BY <2>1
  <2>3. QED
    BY <2>2 DEF Rank
<1> HIDE DEF T
<1>5. x \in T /\ S \subseteq T
  BY DEF T
<1>6. \A i \in 1..Cardinality(S) : InOrder(T)[i] = InOrder(S)[i]
  BY <1>2, <1>3, <1>5, InOrderFacts, Zenon
<1>7. InOrder(T)[Cardinality(S) + 1] = x
  BY <1>2, <1>4, <1>5, InOrderFacts, Zenon
<1>8. QED
  BY <1>2, <1>6, <1>7, Zenon DEF T
-----------------------------------------------------------------------------
(* Lists given by their entries.                                           *)

\* A function on 1..n with values in S is a list of n members.
LEMMA IsList ==
    ASSUME NEW n \in Nat, NEW f, f = [i \in 1..n |-> f[i]], NEW S, \A i \in 1..n : f[i] \in S
    PROVE  f \in Seq(S) /\ Len(f) = n /\ DOMAIN f = 1..n
<1>1. f \in [1..n -> S] /\ DOMAIN f = 1..n
  OBVIOUS
<1>2. f \in Seq(S)
  BY <1>1
<1>3. QED
  BY <1>1, <1>2

\* A list is its first part with its last member appended.
LEMMA ExtendList ==
    ASSUME NEW S, NEW f \in Seq(S), NEW g \in Seq(S), Len(g) = Len(f) + 1,
           \A i \in 1..Len(f) : f[i] = g[i]
    PROVE  Append(f, g[Len(f) + 1]) = g
<1> DEFINE n == Len(f)
           h == Append(f, g[n + 1])
<1>1. n \in Nat /\ g[n + 1] \in S
  OBVIOUS
<1>2. h \in Seq(S) /\ Len(h) = n + 1
  BY <1>1
<1>3. ASSUME NEW i \in 1..(n + 1) PROVE h[i] = g[i]
  <2>1. CASE i = n + 1
    BY <1>1, <2>1
  <2>2. CASE i \in 1..n
    <3>1. \A x \in S : Append(f, x)[i] = f[i]
      BY <2>2
    <3>2. QED
      BY <1>1, <2>2, <3>1
  <2>3. QED
    BY <1>1, <2>1, <2>2
<1> HIDE DEF h
<1>4. QED
  BY <1>1, <1>2, <1>3 DEF h
-----------------------------------------------------------------------------
(* What a change of the engine does to heap and indexes.                   *)

\* Row ids are given out in turn, so that the next one is the number of rows.
HeapTypes(h) ==
    /\ Cardinality(DOMAIN h) \in Nat /\ DOMAIN h = 0..(Cardinality(DOMAIN h) - 1)
    /\ h \in [DOMAIN h -> [tuple : Tuple, deleted : BOOLEAN]]

\* What TableStorage has stored passed its checks.
StoredIsValid(h) == \A r \in DOMAIN h : ValidateTuple(h[r].tuple)

\* Every index finds every row by its key.
IndexesAreComplete(h, ix) ==
    \A r \in LiveRows(h), c \in Indexes :
        h[r].tuple[c] \in DOMAIN ix[c] /\ ix[c][h[r].tuple[c]] = r

\* What a heap's rows are.
LEMMA RowFacts ==
    ASSUME NEW h, HeapTypes(h)
    PROVE  /\ \A r \in DOMAIN h : /\ r \in Nat /\ r < Cardinality(DOMAIN h)
                                  /\ h[r] = [tuple |-> h[r].tuple, deleted |-> h[r].deleted]
                                  /\ h[r].tuple \in Tuple /\ h[r].deleted \in BOOLEAN
           /\ \A r : r \in LiveRows(h) <=> r \in DOMAIN h /\ ~h[r].deleted
           /\ \A r : IsLive(h, r) <=> r \in LiveRows(h)
           /\ IsFiniteSet(LiveRows(h)) /\ \A r \in LiveRows(h) : r \in Nat
<1>1. \A r : r \in LiveRows(h) <=> r \in DOMAIN h /\ ~h[r].deleted
  BY DEF LiveRows, IsLive
<1>2. \A r \in DOMAIN h : h[r] \in [tuple : Tuple, deleted : BOOLEAN]
  BY DEF HeapTypes
<1>3. \A r \in DOMAIN h : r \in Nat /\ r < Cardinality(DOMAIN h)
  BY DEF HeapTypes
<1>4. IsFiniteSet(DOMAIN h)
  BY FS_Interval DEF HeapTypes
<1>5. IsFiniteSet(LiveRows(h))
  BY <1>4, FS_Subset DEF LiveRows
<1>6. \A r : IsLive(h, r) <=> r \in LiveRows(h)
  BY DEF LiveRows, IsLive
<1>7. \A r \in DOMAIN h : /\ h[r] = [tuple |-> h[r].tuple, deleted |-> h[r].deleted]
                          /\ h[r].tuple \in Tuple /\ h[r].deleted \in BOOLEAN
  BY <1>2
<1>8. QED
  BY <1>1, <1>3, <1>5, <1>6, <1>7, Zenon

\* TableStorage::Insert adds one row.
LEMMA StoreInsertFacts ==
    ASSUME HeapTypes(heap), NEW t \in Tuple, ValidateTuple(t)
    PROVE  LET h == StoreInsert(t)
           IN  /\ HeapTypes(h) /\ Cardinality(DOMAIN h) = NextRid + 1
               /\ LiveRows(h) = LiveRows(heap) \cup {NextRid}
               /\ NextRid \notin DOMAIN heap /\ h[NextRid].tuple = t
               /\ \A r \in DOMAIN heap : h[r] = heap[r]
               /\ StoredIsValid(heap) => StoredIsValid(h)
<1> DEFINE h == StoreInsert(t)
           row == [tuple |-> t, deleted |-> FALSE]
<1>1. NextRid \in Nat /\ DOMAIN heap = 0..(NextRid - 1) /\ NextRid \notin DOMAIN heap
  BY DEF HeapTypes, NextRid
<1>2. DOMAIN h = DOMAIN heap \cup {NextRid} /\ h[NextRid] = row /\ \A r \in DOMAIN heap : h[r] = heap[r]
  <2>1. h = Put(heap, NextRid, row)
    BY DEF StoreInsert
  <2>2. \A r \in DOMAIN heap : r # NextRid
    BY <1>1
  <2> HIDE DEF h, row
  <2>3. QED
    BY <2>1, <2>2 DEF Put
<1>3. h = [r \in DOMAIN heap \cup {NextRid} |-> h[r]]
  BY DEF StoreInsert, Put
<1> HIDE DEF h
<1>4. DOMAIN h = 0..NextRid
  BY <1>1, <1>2
<1>5. Cardinality(DOMAIN h) = NextRid + 1
  BY <1>1, <1>4, FS_Interval
<1>6. \A r \in DOMAIN h : h[r] \in [tuple : Tuple, deleted : BOOLEAN]
  <2>1. row \in [tuple : Tuple, deleted : BOOLEAN]
    OBVIOUS
  <2>2. QED
    BY <1>2, <2>1, Zenon DEF HeapTypes
<1>7. HeapTypes(h)
  <2>1. h \in [DOMAIN h -> [tuple : Tuple, deleted : BOOLEAN]]
    BY <1>2, <1>3, <1>6
  <2>2. Cardinality(DOMAIN h) \in Nat /\ DOMAIN h = 0..(Cardinality(DOMAIN h) - 1)
    BY <1>1, <1>4, <1>5
  <2>3. QED
    BY <2>1, <2>2 DEF HeapTypes
<1>8. LiveRows(h) = LiveRows(heap) \cup {NextRid}
  BY <1>2 DEF LiveRows, IsLive
<1>9. ASSUME StoredIsValid(heap) PROVE StoredIsValid(h)
  <2>1. \A r \in DOMAIN h : r = NextRid \/ (r \in DOMAIN heap /\ h[r] = heap[r])
    BY <1>2
  <2>2. h[NextRid].tuple = t
    BY <1>2
  <2>3. QED
    BY <1>9, <2>1, <2>2, Zenon DEF StoredIsValid
<1>10. h[NextRid].tuple = t
  BY <1>2
<1>11. QED
  BY <1>1, <1>2, <1>5, <1>7, <1>8, <1>9, <1>10 DEF h

\* TableStorage::Update and Delete change one row.
LEMMA StoreChangeFacts ==
    ASSUME HeapTypes(heap), NEW r \in LiveRows(heap), NEW t \in Tuple, ValidateTuple(t)
    PROVE  /\ HeapTypes(StoreUpdate(r, t)) /\ DOMAIN StoreUpdate(r, t) = DOMAIN heap
           /\ LiveRows(StoreUpdate(r, t)) = LiveRows(heap)
           /\ StoreUpdate(r, t)[r].tuple = t
           /\ \A q \in DOMAIN heap : q # r => StoreUpdate(r, t)[q] = heap[q]
           /\ StoredIsValid(heap) => StoredIsValid(StoreUpdate(r, t))
<1> DEFINE u == StoreUpdate(r, t)
<1>1. r \in DOMAIN heap /\ \A q \in DOMAIN heap : heap[q] \in [tuple : Tuple, deleted : BOOLEAN]
  BY DEF HeapTypes, LiveRows
<1>2. /\ DOMAIN u = DOMAIN heap /\ u[r] = [heap[r] EXCEPT !.tuple = t]
      /\ \A q \in DOMAIN heap : q # r => u[q] = heap[q]
  BY <1>1 DEF StoreUpdate, HeapTypes
<1>3. u = [q \in DOMAIN heap |-> u[q]]
  BY <1>1 DEF StoreUpdate, HeapTypes
<1> HIDE DEF u
<1>4. u[r] \in [tuple : Tuple, deleted : BOOLEAN] /\ u[r].tuple = t /\ u[r].deleted = heap[r].deleted
  BY <1>1, <1>2
<1>5. u \in [DOMAIN heap -> [tuple : Tuple, deleted : BOOLEAN]]
  BY <1>1, <1>2, <1>3, <1>4
<1>6. HeapTypes(u)
  BY <1>2, <1>5 DEF HeapTypes
<1>7. LiveRows(u) = LiveRows(heap)
  BY <1>2, <1>4 DEF LiveRows, IsLive
<1>8. StoredIsValid(heap) => StoredIsValid(u)
  BY <1>2, <1>4 DEF StoredIsValid
<1>9. QED
  BY <1>2, <1>4, <1>6, <1>7, <1>8 DEF u

\* TableStorage::Delete marks one row and keeps its values.
LEMMA StoreDeleteFacts ==
    ASSUME HeapTypes(heap), NEW r \in LiveRows(heap)
    PROVE  /\ HeapTypes(StoreDelete(r)) /\ DOMAIN StoreDelete(r) = DOMAIN heap
           /\ LiveRows(StoreDelete(r)) = LiveRows(heap) \ {r}
           /\ \A q \in DOMAIN heap : StoreDelete(r)[q].tuple = heap[q].tuple
           /\ StoredIsValid(heap) => StoredIsValid(StoreDelete(r))
<1> DEFINE u == StoreDelete(r)
<1>1. r \in DOMAIN heap /\ \A q \in DOMAIN heap : heap[q] \in [tuple : Tuple, deleted : BOOLEAN]
  BY DEF HeapTypes, LiveRows
<1>2. /\ DOMAIN u = DOMAIN heap /\ u[r] = [heap[r] EXCEPT !.deleted = TRUE]
      /\ \A q \in DOMAIN heap : q # r => u[q] = heap[q]
  BY <1>1 DEF StoreDelete, HeapTypes
<1>3. u = [q \in DOMAIN heap |-> u[q]]
  BY <1>1, Zenon DEF StoreDelete, HeapTypes
<1> HIDE DEF u
<1>4. u[r] \in [tuple : Tuple, deleted : BOOLEAN] /\ u[r].tuple = heap[r].tuple /\ u[r].deleted = TRUE
  BY <1>1, <1>2, Zenon
<1>5. u \in [DOMAIN heap -> [tuple : Tuple, deleted : BOOLEAN]]
  BY <1>1, <1>2, <1>3, <1>4, Zenon
<1>6. HeapTypes(u)
  BY <1>2, <1>5 DEF HeapTypes
<1>7. LiveRows(u) = LiveRows(heap) \ {r}
  BY <1>2, <1>4 DEF LiveRows, IsLive
<1>8. \A q \in DOMAIN heap : u[q].tuple = heap[q].tuple
  BY <1>2, <1>4
<1>9. StoredIsValid(heap) => StoredIsValid(u)
  BY <1>2, <1>8, Zenon DEF StoredIsValid
<1>10. QED
  BY <1>2, <1>6, <1>7, <1>8, <1>9 DEF u

\* A non-empty set of natural numbers has a least member.
LEMMA LeastNat ==
    ASSUME NEW T, T \subseteq Nat, T # {}
    PROVE  \E x \in T : \A y \in T : x <= y
<1>1. PICK x \in T : \A y \in T : ~(<<y, x>> \in OpToRel(<, Nat))
  BY NatLessThanWellFounded, WFMin, Zenon
<1>2. \A y \in T : ~(y < x)
  BY <1>1, Zenon DEF OpToRel
<1>3. QED
  BY <1>2

\* A loop over the indexes that meets no error runs to the end.
LEMMA FirstOfFacts ==
    ASSUME NEW S \in SUBSET Indexes, FirstOf(S) > NumIndexes
    PROVE  S = {} /\ \A c \in Indexes : c < FirstOf(S)
<1>1. S = {}
  <2> SUFFICES ASSUME S # {} PROVE FALSE
    OBVIOUS
  <2>1. \A c \in S : c \in Nat /\ c <= NumIndexes
    BY IndexedHeapAssumption DEF Indexes
  <2>2. \E c \in S : \A d \in S : c <= d
    BY <2>1, LeastNat
  <2>3. FirstOf(S) \in S
    BY <2>2, Zenon DEF FirstOf
  <2>4. QED
    BY <2>1, <2>3, IndexedHeapAssumption
<1>2. FirstOf({}) = NumIndexes + 1
  BY DEF FirstOf
<1>3. QED
  BY <1>1, <1>2, IndexedHeapAssumption DEF Indexes

\* Indexed columns are not NULL in rows that the engine accepts.
LEMMA KeysAreNotNull ==
    ASSUME NEW t \in Tuple, ValidateTuple(t), NEW c \in Indexes
    PROVE  t[c] # Null
  BY SchemaAssumption DEF ValidateTuple

\* An INSERT that returns ok has put the row into every index.
LEMMA InsertCompletes ==
    ASSUME HeapTypes(heap), IndexesAreComplete(heap, index), NEW t \in Tuple, ValidateTuple(t),
           InsertIntoIndexes(index, t, NextRid).ok
    PROVE  IndexesAreComplete(StoreInsert(t), InsertIntoIndexes(index, t, NextRid).index)
<1> DEFINE ix == InsertIntoIndexes(index, t, NextRid).index
           S == {c \in Indexes : t[c] # Null /\ HasKey(index, t, c)}
           h == StoreInsert(t)
<1>1. FirstOf(S) > NumIndexes
  BY Zenon DEF InsertIntoIndexes
<1>2. S = {} /\ \A c \in Indexes : c < FirstOf(S)
  BY <1>1, FirstOfFacts
<1>3. \A c \in Indexes : t[c] \notin DOMAIN index[c]
  BY <1>2, KeysAreNotNull, Zenon DEF HasKey
<1>4. \A c \in Indexes : ix[c] = Put(index[c], t[c], NextRid)
  BY <1>2, KeysAreNotNull DEF InsertIntoIndexes
<1>5. /\ LiveRows(h) = LiveRows(heap) \cup {NextRid} /\ h[NextRid].tuple = t
      /\ \A r \in LiveRows(heap) : h[r] = heap[r]
  BY StoreInsertFacts DEF LiveRows
<1> HIDE DEF ix, S, h
<1>6. ASSUME NEW r \in LiveRows(h), NEW c \in Indexes
      PROVE  h[r].tuple[c] \in DOMAIN ix[c] /\ ix[c][h[r].tuple[c]] = r
  <2>1. CASE r = NextRid
    <3>1. h[r].tuple[c] = t[c] /\ ix[c] = Put(index[c], t[c], NextRid)
      BY <1>4, <1>5, <2>1
    <3>2. QED
      BY <2>1, <3>1 DEF Put
  <2>2. CASE r \in LiveRows(heap)
    <3>1. h[r] = heap[r]
      BY <1>5, <2>2, Zenon
    <3>2. h[r].tuple[c] \in DOMAIN index[c] /\ index[c][h[r].tuple[c]] = r
      <4>1. heap[r].tuple[c] \in DOMAIN index[c] /\ index[c][heap[r].tuple[c]] = r
        BY <2>2, Zenon DEF IndexesAreComplete
      <4>2. QED
        BY <3>1, <4>1
    <3>3. h[r].tuple[c] # t[c] /\ ix[c] = Put(index[c], t[c], NextRid)
      BY <1>3, <1>4, <3>2
    <3>4. QED
      BY <3>2, <3>3 DEF Put
  <2>3. QED
    BY <1>5, <2>1, <2>2
<1>7. QED
  BY <1>6, Zenon DEF IndexesAreComplete, ix, h

\* A DELETE that returns ok has taken no other row out of an index.
LEMMA DeleteCompletes ==
    ASSUME HeapTypes(heap), StoredIsValid(heap), IndexesAreComplete(heap, index),
           NEW r \in LiveRows(heap), DeleteFromIndexes(index, heap[r].tuple).ok
    PROVE  IndexesAreComplete(StoreDelete(r), DeleteFromIndexes(index, heap[r].tuple).index)
<1> DEFINE t == heap[r].tuple
           ix == DeleteFromIndexes(index, t).index
           S == {c \in Indexes : t[c] # Null /\ ~HasKey(index, t, c)}
           h == StoreDelete(r)
<1>1. FirstOf(S) > NumIndexes
  BY Zenon DEF DeleteFromIndexes
<1>2. \A c \in Indexes : c < FirstOf(S)
  BY <1>1, FirstOfFacts
<1>3. t \in Tuple /\ ValidateTuple(t)
  BY RowFacts DEF StoredIsValid
<1>4. \A c \in Indexes : ix[c] = Remove(index[c], t[c])
  <2> HIDE DEF S
  <2>1. \A c \in Indexes : t[c] # Null
    BY <1>3, KeysAreNotNull
  <2>2. ix = [c \in Indexes |-> IF c < FirstOf(S) /\ t[c] # Null THEN Remove(index[c], t[c]) ELSE index[c]]
    BY DEF DeleteFromIndexes, S
  <2>3. QED
    BY <1>2, <2>1, <2>2
<1>5. /\ LiveRows(h) = LiveRows(heap) \ {r}
      /\ \A q \in LiveRows(heap) : h[q].tuple = heap[q].tuple
  BY StoreDeleteFacts DEF LiveRows
<1>6. ASSUME NEW q \in LiveRows(h), NEW c \in Indexes
      PROVE  h[q].tuple[c] \in DOMAIN ix[c] /\ ix[c][h[q].tuple[c]] = q
  <2> HIDE DEF ix, S, h
  <2>1. q \in LiveRows(heap) /\ q # r /\ h[q].tuple = heap[q].tuple
    BY <1>5
  <2>2. /\ heap[q].tuple[c] \in DOMAIN index[c] /\ index[c][heap[q].tuple[c]] = q
        /\ index[c][t[c]] = r
    BY <2>1, Zenon DEF IndexesAreComplete
  <2>3. heap[q].tuple[c] # t[c] /\ ix[c] = Remove(index[c], t[c])
    BY <1>4, <2>1, <2>2
  <2> HIDE DEF t
  <2>4. QED
    BY <2>1, <2>2, <2>3 DEF Remove
<1> HIDE DEF ix, h
<1>7. QED
  BY <1>6, Zenon DEF IndexesAreComplete, ix, h, t

\* An UPDATE that returns ok has moved the row, and no other, to its new keys.
LEMMA UpdateCompletes ==
    ASSUME HeapTypes(heap), StoredIsValid(heap), IndexesAreComplete(heap, index),
           NEW r \in LiveRows(heap), NEW t \in Tuple, ValidateTuple(t),
           UpdateIndexes(index, heap[r].tuple, t, r).ok
    PROVE  IndexesAreComplete(StoreUpdate(r, t), UpdateIndexes(index, heap[r].tuple, t, r).index)
<1> DEFINE old == heap[r].tuple
           ix == UpdateIndexes(index, old, t, r).index
           Changed == {c \in Indexes : old[c] # t[c]}
           CannotDelete == {c \in Changed : old[c] # Null /\ ~HasKey(index, old, c)}
           CannotInsert == {c \in Changed : t[c] # Null /\ HasKey(index, t, c)}
           S == CannotDelete \cup CannotInsert
           h == StoreUpdate(r, t)
<1>1. old \in Tuple /\ ValidateTuple(old)
  BY RowFacts DEF StoredIsValid
<1>2. \A c \in Indexes : old[c] # Null /\ t[c] # Null
  BY <1>1, KeysAreNotNull
<1>3. FirstOf(S) > NumIndexes
  BY Zenon DEF UpdateIndexes
<1>4. S = {} /\ \A c \in Indexes : c < FirstOf(S) /\ ~(c > FirstOf(S))
  <2>1. S \in SUBSET Indexes
    OBVIOUS
  <2> HIDE DEF S
  <2>2. S = {} /\ \A c \in Indexes : c < FirstOf(S)
    BY <1>3, <2>1, FirstOfFacts
  <2>3. FirstOf(S) = NumIndexes + 1
    BY <2>2 DEF FirstOf
  <2>4. QED
    BY <2>2, <2>3, IndexedHeapAssumption DEF Indexes
<1>5. \A c \in Changed : t[c] \notin DOMAIN index[c]
  BY <1>2, <1>4, Zenon DEF HasKey
<1>6. \A c \in Indexes : ix[c] = IF c \in Changed THEN Put(Remove(index[c], old[c]), t[c], r) ELSE index[c]
  <2>1. ix = [c \in Indexes |->
                IF c \notin Changed \/ c > FirstOf(S) THEN index[c]
                ELSE IF c < FirstOf(S)
                     THEN IF t[c] = Null THEN IF old[c] = Null THEN index[c] ELSE Remove(index[c], old[c])
                          ELSE Put(IF old[c] = Null THEN index[c] ELSE Remove(index[c], old[c]), t[c], r)
                ELSE IF c \in CannotDelete THEN index[c]
                     ELSE IF old[c] = Null THEN index[c] ELSE Remove(index[c], old[c])]
    BY Zenon DEF UpdateIndexes
  <2> HIDE DEF ix, S, Changed, CannotDelete, old
  <2>2. QED
    BY <1>2, <1>4, <2>1
<1>7. /\ LiveRows(h) = LiveRows(heap) /\ h[r].tuple = t
      /\ \A q \in LiveRows(heap) : q # r => h[q].tuple = heap[q].tuple
  BY StoreChangeFacts DEF LiveRows
<1>8. ASSUME NEW q \in LiveRows(h), NEW c \in Indexes
      PROVE  h[q].tuple[c] \in DOMAIN ix[c] /\ ix[c][h[q].tuple[c]] = q
  <2> HIDE DEF ix, S, h
  <2>1. /\ q \in LiveRows(heap)
        /\ heap[q].tuple[c] \in DOMAIN index[c] /\ index[c][heap[q].tuple[c]] = q
        /\ old[c] \in DOMAIN index[c] /\ index[c][old[c]] = r
    BY <1>7, Zenon DEF IndexesAreComplete
  <2>2. CASE c \notin Changed
    <3>1. ix[c] = index[c] /\ old[c] = t[c]
      BY <1>6, <2>2
    <3>2. h[q].tuple[c] = heap[q].tuple[c]
      BY <1>7, <2>1, <3>1
    <3>3. QED
      BY <2>1, <3>1, <3>2
  <2>3. CASE c \in Changed
    <3>1. ix[c] = Put(Remove(index[c], old[c]), t[c], r) /\ t[c] \notin DOMAIN index[c]
      BY <1>5, <1>6, <2>3, Zenon
    <3>2. CASE q = r
      BY <1>7, <3>1, <3>2 DEF Put, Remove
    <3>3. CASE q # r
      <4>1. h[q].tuple[c] = heap[q].tuple[c] /\ heap[q].tuple[c] # t[c] /\ heap[q].tuple[c] # old[c]
        BY <1>7, <2>1, <3>1, <3>3
      <4> HIDE DEF old, Changed
      <4>2. QED
        BY <2>1, <3>1, <4>1 DEF Put, Remove
    <3>4. QED
      BY <3>2, <3>3
  <2>4. QED
    BY <2>2, <2>3
<1> HIDE DEF ix, h
<1>9. QED
  BY <1>8, Zenon DEF IndexesAreComplete, ix, h, old

\* A non-empty set of numbers up to n has a greatest member.
LEMMA GreatestNat ==
    ASSUME NEW n \in Nat, NEW T \in SUBSET (1..n), T # {}
    PROVE  \E x \in T : \A y \in T : y <= x
<1> DEFINE U == {n - x : x \in T}
<1>1. \A x \in T : x \in Nat /\ n - x \in Nat
  OBVIOUS
<1>2. U \subseteq Nat /\ U # {}
  BY <1>1, Zenon
<1> HIDE DEF U
<1>3. PICK z \in U : \A y \in U : z <= y
  BY <1>2, LeastNat, Zenon
<1>4. PICK x \in T : z = n - x
  BY DEF U
<1>5. \A y \in T : n - x <= n - y
  BY <1>3, <1>4, Zenon DEF U
<1>6. QED
  BY <1>1, <1>5

\* The binder and BuildTuple make tuples.
LEMMA BuildTupleType ==
    ASSUME NEW s \in Statements, BindInsert(s), NEW i \in DOMAIN s.rows
    PROVE  BuildTuple(s.columns, s.rows[i]) \in Tuple
<1> DEFINE values == s.rows[i]
<1>1. s.rows \in Seq(Seq(Values \cup {Null})) /\ s.columns \in Seq(STRING)
  BY StatementsAssumption
<1>2. values \in Seq(Values \cup {Null}) /\ Len(values) = Len(s.columns)
  BY <1>1 DEF BindInsert
<1>3. DOMAIN s.columns = 1..Len(s.columns) /\ \A j \in 1..Len(s.columns) : values[j] \in Values \cup {Null}
  <2> DEFINE V == Values \cup {Null}
             cols == s.columns
  <2> HIDE DEF V, values, cols
  <2>1. ASSUME NEW q \in Seq(V), Len(q) = Len(cols) PROVE \A j \in 1..Len(cols) : q[j] \in V
    BY <2>1
  <2>2. ASSUME NEW q \in Seq(STRING) PROVE DOMAIN q = 1..Len(q)
    OBVIOUS
  <2>3. values \in Seq(V) /\ Len(values) = Len(cols) /\ cols \in Seq(STRING)
    BY <1>1, <1>2, Zenon DEF V, cols
  <2>4. DOMAIN cols = 1..Len(cols) /\ \A j \in 1..Len(cols) : values[j] \in V
    BY <2>1, <2>2, <2>3, Zenon
  <2>5. QED
    BY <2>4, Zenon DEF V, cols
<1>4. ASSUME NEW c \in Column
      PROVE  BuildTuple(s.columns, values)[c] \in Values \cup {Null}
  <2> DEFINE given == {j \in PositionsOf(s.columns, c) : values[j] # Null}
  <2>1. given \subseteq 1..Len(s.columns)
    BY <1>3 DEF PositionsOf
  <2>2. BuildTuple(s.columns, values)[c] = IF given = {} THEN Schema[c].default ELSE values[CHOOSE j \in given : TRUE]
    BY Zenon DEF BuildTuple
  <2> HIDE DEF given
  <2>3. CASE given = {}
    BY <2>2, <2>3, SchemaAssumption
  <2>4. CASE given # {}
    <3>1. (CHOOSE j \in given : TRUE) \in given
      BY <2>4
    <3>2. (CHOOSE j \in given : TRUE) \in 1..Len(s.columns)
      BY <2>1, <3>1, Zenon
    <3>3. QED
      BY <1>3, <2>2, <2>4, <3>2
  <2>5. QED
    BY <2>3, <2>4
<1>5. BuildTuple(s.columns, values) = [c \in Column |-> BuildTuple(s.columns, values)[c]]
  BY DEF BuildTuple
<1> HIDE DEF values
<1>6. BuildTuple(s.columns, values) \in Tuple
  BY <1>4, <1>5 DEF Tuple
<1>7. QED
  BY <1>6 DEF values

\* So do the assignments of an UPDATE.
LEMMA AssignedType ==
    ASSUME stmt \in Statements, NEW t \in Tuple
    PROVE  Assigned(t) \in Tuple
<1> DEFINE Assignment == [name : STRING, value : Values \cup {Null}]
           set == stmt.set
<1>1. set \in Seq(Assignment) /\ \A a \in Assignment : a.value \in Values \cup {Null}
  BY StatementsAssumption, Zenon
<1> HIDE DEF Assignment, set
<1>2. DOMAIN set = 1..Len(set) /\ Len(set) \in Nat /\ \A i \in 1..Len(set) : set[i] \in Assignment
  BY <1>1
<1>3. ASSUME NEW c \in Column PROVE Assigned(t)[c] \in Values \cup {Null}
  <2> DEFINE to == {i \in DOMAIN set : FindColumn(set[i].name) = c}
             last == CHOOSE i \in to : \A j \in to : j <= i
  <2>1. Assigned(t)[c] = IF to = {} THEN t[c] ELSE set[last].value
    BY Zenon DEF Assigned, set
  <2>2. to \in SUBSET (1..Len(set))
    BY <1>2
  <2> HIDE DEF to
  <2>3. CASE to = {}
    BY <2>1, <2>3 DEF Tuple
  <2>4. CASE to # {}
    <3>1. \E i \in to : \A j \in to : j <= i
      BY <1>2, <2>2, <2>4, GreatestNat, Zenon
    <3>2. last \in to
      BY <3>1, Zenon
    <3> HIDE DEF last
    <3>3. QED
      BY <1>1, <1>2, <2>1, <2>2, <2>4, <3>2
  <2>5. QED
    BY <2>3, <2>4
<1>4. Assigned(t) = [c \in Column |-> Assigned(t)[c]]
  BY DEF Assigned
<1>5. QED
  BY <1>3, <1>4 DEF Tuple

-----------------------------------------------------------------------------
(* What one call of the engine keeps.                                      *)

\* Until a change has failed halfway, heap and indexes agree.
Consistent ==
    /\ HeapTypes(heap) /\ StoredIsValid(heap) /\ torn \in BOOLEAN
    /\ ~torn => IndexesAreComplete(heap, index)

\* What the executor can rely on, whether the call of the engine failed or not.
IsResult(res) ==
    /\ HeapTypes(res.heap) /\ StoredIsValid(res.heap)
    /\ res.ok /\ ~torn => IndexesAreComplete(res.heap, res.index)

\* A call with such a result keeps the table consistent: when it fails halfway, torn says so.
LEMMA EngineCallKeeps ==
    ASSUME Consistent, NEW res, IsResult(res), EngineCall(res)
    PROVE  Consistent'
<1>1. heap' = res.heap /\ index' = res.index /\ torn' = (torn \/ (~res.ok /\ res # Failed))
  BY DEF EngineCall
<1>2. HeapTypes(heap') /\ StoredIsValid(heap')
  BY <1>1, Zenon DEF IsResult
<1>3. ASSUME ~torn' PROVE IndexesAreComplete(heap', index')
  <2>1. CASE res.ok
    BY <1>1, <1>3, <2>1, Zenon DEF IsResult
  <2>2. CASE ~res.ok
    <3>1. res = Failed /\ ~torn
      BY <1>1, <1>3, <2>2, Zenon
    <3>2. heap' = heap /\ index' = index
      BY <1>1, <3>1 DEF Failed
    <3>3. QED
      BY <3>1, <3>2, Zenon DEF Consistent
  <2>3. QED
    BY <2>1, <2>2, Zenon
<1>4. torn' \in BOOLEAN
  BY <1>1 DEF Consistent
<1>5. QED
  BY <1>2, <1>3, <1>4, Zenon DEF Consistent, HeapTypes, StoredIsValid, IndexesAreComplete

\* The result of a call that was refused before it changed anything.
LEMMA FailedIsResult == Consistent => IsResult(Failed) /\ ~Failed.ok /\ Failed.heap = heap
  BY DEF Consistent, IsResult, Failed

\* InsertInternal, behind TableStorage's checks
LEMMA InsertIsResult ==
    ASSUME Consistent, NEW t \in Tuple
    PROVE  LET res == Validated(t, InsertInternal(t))
           IN  /\ IsResult(res) /\ res.heap \in {heap, StoreInsert(t)}
               /\ (res.ok \/ res.heap # heap) => ValidateTuple(t) /\ res.heap = StoreInsert(t)
<1> DEFINE res == Validated(t, InsertInternal(t))
<1>1. CASE ~ValidateTuple(t)
  <2>1. res = Failed
    BY <1>1, Zenon DEF Validated
  <2> HIDE DEF res
  <2>2. QED
    BY <2>1, FailedIsResult DEF res
<1>2. CASE ValidateTuple(t)
  <2> DEFINE i == InsertIntoIndexes(index, t, NextRid)
  <2>1. res = [ok |-> i.ok, index |-> i.index, heap |-> StoreInsert(t)]
    BY <1>2, Zenon DEF Validated, InsertInternal
  <2>2. HeapTypes(StoreInsert(t)) /\ StoredIsValid(StoreInsert(t))
    BY <1>2, StoreInsertFacts DEF Consistent
  <2>3. i.ok /\ ~torn => IndexesAreComplete(StoreInsert(t), i.index)
    BY <1>2, InsertCompletes, Zenon DEF Consistent
  <2> HIDE DEF res, i
  <2>4. res.ok = i.ok /\ res.index = i.index /\ res.heap = StoreInsert(t)
    BY <2>1
  <2>5. IsResult(res)
    BY <2>2, <2>3, <2>4, Zenon DEF IsResult
  <2>6. QED
    BY <1>2, <2>4, <2>5 DEF res
<1>3. QED
  BY <1>1, <1>2, Zenon

\* UpdateInternal, behind TableStorage's checks
LEMMA UpdateIsResult ==
    ASSUME Consistent, NEW t \in Tuple, NEW r
    PROVE  LET res == Validated(t, UpdateInternal(r, t))
           IN  /\ IsResult(res)
               /\ (res.ok \/ res.heap # heap) =>
                     ValidateTuple(t) /\ r \in LiveRows(heap) /\ res.heap = StoreUpdate(r, t)
<1> DEFINE res == Validated(t, UpdateInternal(r, t))
<1>1. IsLive(heap, r) <=> r \in LiveRows(heap)
  BY DEF LiveRows, IsLive
<1>2. CASE ~ValidateTuple(t) \/ ~IsLive(heap, r)
  <2>1. res = Failed
    BY <1>2, Zenon DEF Validated, UpdateInternal
  <2> HIDE DEF res
  <2>2. QED
    BY <2>1, FailedIsResult DEF res
<1>3. CASE ValidateTuple(t) /\ r \in LiveRows(heap)
  <2> DEFINE i == UpdateIndexes(index, heap[r].tuple, t, r)
  <2>1. res = [ok |-> i.ok, index |-> i.index, heap |-> StoreUpdate(r, t)]
    BY <1>1, <1>3, Zenon DEF Validated, UpdateInternal
  <2>2. HeapTypes(StoreUpdate(r, t)) /\ StoredIsValid(StoreUpdate(r, t))
    BY <1>3, StoreChangeFacts DEF Consistent
  <2>3. i.ok /\ ~torn => IndexesAreComplete(StoreUpdate(r, t), i.index)
    BY <1>3, UpdateCompletes, Zenon DEF Consistent
  <2> HIDE DEF res, i
  <2>4. res.ok = i.ok /\ res.index = i.index /\ res.heap = StoreUpdate(r, t)
    BY <2>1
  <2>5. IsResult(res)
    BY <2>2, <2>3, <2>4, Zenon DEF IsResult
  <2>6. QED
    BY <1>3, <2>4, <2>5 DEF res
<1>4. QED
  BY <1>1, <1>2, <1>3, Zenon

\* DeleteInternal
LEMMA DeleteIsResult ==
    ASSUME Consistent, NEW r
    PROVE  LET res == DeleteInternal(r)
           IN  /\ IsResult(res)
               /\ (res.ok \/ res.heap # heap) => r \in LiveRows(heap) /\ res.heap = StoreDelete(r)
<1> DEFINE res == DeleteInternal(r)
<1>1. IsLive(heap, r) <=> r \in LiveRows(heap)
  BY DEF LiveRows, IsLive
<1>2. CASE ~IsLive(heap, r)
  <2>1. res = Failed
    BY <1>2, Zenon DEF DeleteInternal
  <2> HIDE DEF res
  <2>2. QED
    BY <2>1, FailedIsResult DEF res
<1>3. CASE r \in LiveRows(heap)
  <2> DEFINE i == DeleteFromIndexes(index, heap[r].tuple)
  <2>1. res = [ok |-> i.ok, index |-> i.index, heap |-> IF i.ok THEN StoreDelete(r) ELSE heap]
    BY <1>1, <1>3, Zenon DEF DeleteInternal
  <2>2. HeapTypes(StoreDelete(r)) /\ StoredIsValid(StoreDelete(r)) /\ HeapTypes(heap) /\ StoredIsValid(heap)
    BY <1>3, StoreDeleteFacts DEF Consistent
  <2>3. i.ok /\ ~torn => IndexesAreComplete(StoreDelete(r), i.index)
    BY <1>3, DeleteCompletes, Zenon DEF Consistent
  <2> HIDE DEF res, i
  <2>4. res.ok = i.ok /\ res.index = i.index /\ res.heap = IF i.ok THEN StoreDelete(r) ELSE heap
    BY <2>1
  <2>5. IsResult(res)
    BY <2>2, <2>3, <2>4, Zenon DEF IsResult
  <2>6. QED
    BY <1>3, <2>4, <2>5 DEF res
<1>4. QED
  BY <1>1, <1>2, <1>3, Zenon

-----------------------------------------------------------------------------
(* The invariant.                                                          *)

\* Where a statement is.
StatementTypes ==
    /\ phase \in {"idle", "run", "answered"}
    /\ phase = "idle" => answer = NoAnswer
    /\ phase # "idle" => stmt \in Statements

\* The table as it was when the statement came.
BeforeTypes ==
    /\ before = [r \in DOMAIN before |-> before[r]] /\ IsFiniteSet(DOMAIN before)
    /\ \A r \in DOMAIN before : r \in Nat /\ before[r] \in Tuple

\* What the executor loops over: rows of the table as it was when the statement
\* came, in their order, and all of them unless an index has been asked.  The
\* index leaves out no row that satisfies the condition, if it is complete and
\* was asked for the right key.
LoopRows ==
    /\ Len(rows) \in Nat /\ DOMAIN rows = 1..Len(rows)
    /\ IF stmt.kind = "insert" THEN rows = stmt.rows /\ BindInsert(stmt)
       ELSE /\ \A i \in 1..Len(rows) : /\ rows[i].rid \in DOMAIN before
                                       /\ rows[i].tuple = before[rows[i].rid]
            /\ \A i, j \in 1..Len(rows) : i < j => rows[i].rid < rows[j].rid
            /\ IF UsesIndex(stmt, where)
               THEN /\ Len(rows) <= 1
                    /\ ~torn /\ KeyFits(where) =>
                          \A r \in DOMAIN before :
                              Match(before[r]) = "yes" => \E i \in 1..Len(rows) : rows[i].rid = r
               ELSE \A r \in DOMAIN before : \E i \in 1..Len(rows) : rows[i].rid = r

\* The table once the statement has acted on the first n rows, entry by entry.
HasActedOn(n) ==
    /\ LiveRows(heap) \cap DOMAIN before
         = IF stmt.kind = "delete" THEN DOMAIN before \ Acted(n) ELSE DOMAIN before
    /\ \A r \in LiveRows(heap) \cap DOMAIN before :
          heap[r].tuple = IF stmt.kind = "update" /\ r \in Acted(n) THEN Assigned(before[r]) ELSE before[r]
    /\ LiveRows(heap) \ DOMAIN before
         = IF stmt.kind = "insert" THEN (NextRid - n)..(NextRid - 1) ELSE {}
    /\ stmt.kind = "insert" =>
          \A r \in LiveRows(heap) \ DOMAIN before :
              heap[r].tuple = BuildTuple(stmt.columns, rows[r - (NextRid - n) + 1])

\* The answer once it has seen the first n rows.
HasCollected(n) ==
    /\ answer.ok = FALSE
    /\ answer = [ok |-> answer.ok, rows |-> answer.rows, affected |-> answer.affected]
    /\ answer.affected \in Nat
    /\ stmt.kind # "insert" => answer.affected = Cardinality(Acted(n))
    /\ stmt.kind = "select" =>
          answer.rows = [i \in 1..Cardinality(Acted(n)) |->
                           ProjectRow(stmt, before[InOrder(Acted(n))[i]])]

\* A statement whose loop is at row next has acted on the rows before it.
InLoop ==
    phase = "run" =>
        /\ BeforeTypes /\ LoopRows
        /\ next \in 1..(Len(rows) + 1)
        /\ HasActedOn(next - 1) /\ HasCollected(next - 1)

\* The inductive invariant.  StatementEffect and SelectAnswers speak of statements that
\* have their answer; InLoop carries what they need through the loop.
StatementInv == StatementTypes /\ Consistent /\ InLoop /\ StatementEffect /\ SelectAnswers

\* The statement and what it loops over are the same.
Same == stmt' = stmt /\ where' = where /\ rows' = rows /\ before' = before
USE DEF Same

-----------------------------------------------------------------------------
(* The rows a loop has acted on.                                           *)

\* They are rows of the table at the start that satisfy the condition.
LEMMA ActedFacts ==
    ASSUME BeforeTypes, LoopRows, stmt.kind # "insert", NEW n \in 0..Len(rows)
    PROVE  /\ Acted(n) \subseteq DOMAIN before /\ IsFiniteSet(Acted(n))
           /\ \A r \in Acted(n) : r \in Nat /\ Match(before[r]) = "yes"
<1>1. \A r \in Acted(n) : r \in DOMAIN before /\ Match(before[r]) = "yes"
  <2> SUFFICES ASSUME NEW i \in 1..n, Match(rows[i].tuple) = "yes"
               PROVE  rows[i].rid \in DOMAIN before /\ Match(before[rows[i].rid]) = "yes"
    BY Zenon DEF Acted
  <2>1. i \in 1..Len(rows)
    BY DEF LoopRows
  <2>2. rows[i].rid \in DOMAIN before /\ rows[i].tuple = before[rows[i].rid]
    BY <2>1, Zenon DEF LoopRows
  <2>3. QED
    BY <2>2
<1>2. Acted(n) \in SUBSET DOMAIN before
  BY <1>1
<1>3. IsFiniteSet(Acted(n))
  BY <1>2, FS_Subset DEF BeforeTypes
<1>4. QED
  BY <1>1, <1>2, <1>3, Zenon DEF BeforeTypes

\* Before the first row nothing was acted on.
LEMMA ActedNone == Acted(0) = {}
  BY DEF Acted

\* One more row of the loop is one more row acted on, after all others, or none.
LEMMA ActedNext ==
    ASSUME BeforeTypes, LoopRows, stmt.kind # "insert", NEW n \in Nat, n + 1 <= Len(rows)
    PROVE  /\ rows[n + 1].rid \in DOMAIN before /\ rows[n + 1].rid \in Nat
           /\ rows[n + 1].tuple = before[rows[n + 1].rid] /\ rows[n + 1].tuple \in Tuple
           /\ \A r \in Acted(n) : r < rows[n + 1].rid
           /\ Match(rows[n + 1].tuple) # "yes" => Acted(n + 1) = Acted(n)
           /\ Match(rows[n + 1].tuple) = "yes" => Acted(n + 1) = Acted(n) \cup {rows[n + 1].rid}
<1> DEFINE Hits(m) == {j \in 1..m : Match(rows[j].tuple) = "yes"}
<1>1. n + 1 \in 1..Len(rows) /\ \A i \in 1..n : i \in 1..Len(rows) /\ i < n + 1
  BY DEF LoopRows
<1>2. rows[n + 1].rid \in DOMAIN before /\ rows[n + 1].tuple = before[rows[n + 1].rid]
  BY <1>1, Zenon DEF LoopRows
<1>3. rows[n + 1].rid \in Nat /\ rows[n + 1].tuple \in Tuple
  BY <1>2, Zenon DEF BeforeTypes
<1>4. \A r \in Acted(n) : r < rows[n + 1].rid
  <2>1. \A i \in 1..n : rows[i].rid < rows[n + 1].rid
    BY <1>1, Zenon DEF LoopRows
  <2>2. QED
    BY <2>1, Zenon DEF Acted
<1>5. Hits(n + 1) = IF Match(rows[n + 1].tuple) = "yes" THEN Hits(n) \cup {n + 1} ELSE Hits(n)
  <2>1. 1..(n + 1) = (1..n) \cup {n + 1}
    OBVIOUS
  <2>2. QED
    BY <2>1, Zenon
<1>6. \A m : Acted(m) = {rows[i].rid : i \in Hits(m)}
  BY Zenon DEF Acted
<1> HIDE DEF Hits
<1>7. /\ Match(rows[n + 1].tuple) # "yes" => Acted(n + 1) = Acted(n)
      /\ Match(rows[n + 1].tuple) = "yes" => Acted(n + 1) = Acted(n) \cup {rows[n + 1].rid}
  BY <1>5, <1>6, Zenon
<1>8. QED
  BY <1>2, <1>3, <1>4, <1>7

-----------------------------------------------------------------------------
(* How a loop goes on and how it ends.                                     *)

\* What HasActedOn says entry by entry is what StatementEffect says.
LEMMA EffectFollows ==
    ASSUME BeforeTypes', NEW n, HasActedOn(n)'
    PROVE  /\ [r \in LiveRows(heap') \cap DOMAIN before' |-> heap'[r].tuple] = Effect(n)'
           /\ IF stmt'.kind # "insert" THEN DOMAIN Added' = {}
              ELSE Added' = [r \in (NextRid' - n)..(NextRid' - 1) |->
                               BuildTuple(stmt'.columns, rows'[r - (NextRid' - n) + 1])]
<1> DEFINE L == LiveRows(heap')
           D == DOMAIN before'
           A == Acted(n)'
           k == stmt'.kind
<1>1. /\ L \cap D = IF k = "delete" THEN D \ A ELSE D
      /\ \A r \in L \cap D :
            heap'[r].tuple = IF k = "update" /\ r \in A THEN Assigned(before[r])' ELSE before'[r]
  BY Zenon DEF HasActedOn
<1>2. /\ L \ D = IF k = "insert" THEN (NextRid' - n)..(NextRid' - 1) ELSE {}
      /\ k = "insert" =>
            \A r \in L \ D : heap'[r].tuple = BuildTuple(stmt'.columns, rows'[r - (NextRid' - n) + 1])
  BY Zenon DEF HasActedOn
<1>3. before' = [r \in D |-> before'[r]]
  BY Zenon DEF BeforeTypes
<1>4. Effect(n)' = CASE k = "update" -> [r \in D |-> IF r \in A THEN Assigned(before[r])' ELSE before'[r]]
                     [] k = "delete" -> [r \in D \ A |-> before'[r]]
                     [] OTHER -> before'
  BY DEF Effect
<1>5. Added' = [r \in L \ D |-> heap'[r].tuple]
  BY DEF Added
<1> HIDE DEF L, D, A, k
<1>6. [r \in L \cap D |-> heap'[r].tuple] = Effect(n)'
  <2>1. CASE k = "update"
    BY <1>1, <1>4, <2>1
  <2>2. CASE k = "delete"
    BY <1>1, <1>4, <2>2
  <2>3. CASE k # "update" /\ k # "delete"
    BY <1>1, <1>3, <1>4, <2>3
  <2>4. QED
    BY <2>1, <2>2, <2>3
<1>7. CASE k # "insert"
  BY <1>2, <1>5, <1>6, <1>7 DEF L, D, k
<1>8. CASE k = "insert"
  <2>1. Added' = [r \in (NextRid' - n)..(NextRid' - 1) |->
                    BuildTuple(stmt'.columns, rows'[r - (NextRid' - n) + 1])]
    BY <1>2, <1>5, <1>8
  <2>2. QED
    BY <1>6, <1>8, <2>1 DEF L, D, k
<1>9. QED
  BY <1>7, <1>8

\* A loop that meets an error has acted on a first part of the rows.
LEMMA Aborts ==
    ASSUME StatementTypes, BeforeTypes, phase # "idle", Answer(FALSE), Same,
           Consistent', NEW n \in 0..Len(rows), HasActedOn(n)'
    PROVE  StatementInv'
<1>1. phase' = "answered" /\ answer' = NoAnswer /\ ~answer'.ok
  BY DEF Answer, NoAnswer
<1>2. BeforeTypes'
  BY DEF BeforeTypes
<1>3. StatementEffect'
  <2>1. n \in 0..Len(rows')
    OBVIOUS
  <2>2. QED
    BY <1>1, <1>2, <2>1, EffectFollows, Zenon DEF StatementEffect
<1>4. SelectAnswers'
  BY <1>1 DEF SelectAnswers
<1>5. StatementTypes' /\ InLoop'
  BY <1>1 DEF StatementTypes, InLoop
<1>6. QED
  BY <1>3, <1>4, <1>5 DEF StatementInv

\* Otherwise it goes on to the next row.
LEMMA Advances ==
    ASSUME StatementInv, phase = "run", next <= Len(rows), next' = next + 1, phase' = phase,
           Same, stmt.kind = "select" => torn' = torn,
           Consistent', NEW n \in Nat, n = next, HasActedOn(n)', HasCollected(n)'
    PROVE  StatementInv'
<1>1. BeforeTypes /\ LoopRows /\ next \in 1..(Len(rows) + 1)
  BY DEF StatementInv, InLoop
<1>2. BeforeTypes'
  BY <1>1 DEF BeforeTypes
<1>3. LoopRows'
  <2>1. CASE stmt.kind = "select"
    <3>1. torn' = torn /\ rows' = rows /\ before' = before /\ where' = where /\ stmt' = stmt
      BY <2>1
    <3>2. (\A t : Match(t)' = Match(t)) /\ UsesIndex(stmt, where)' = UsesIndex(stmt, where)
      BY <3>1 DEF Match, UsesIndex
    <3>3. QED
      BY <1>1, <2>1, <3>1, <3>2, Zenon DEF LoopRows
  <2>2. CASE stmt.kind # "select"
    BY <1>1, <2>2 DEF LoopRows, UsesIndex, BindInsert
  <2>3. QED
    BY <2>1, <2>2
<1>4. next' \in 1..(Len(rows) + 1) /\ next' - 1 = n
  BY <1>1 DEF LoopRows
<1>5. HasActedOn(next - 1)'
  BY <1>4, Zenon DEF HasActedOn, Acted, Match, Assigned
<1>6. HasCollected(next - 1)'
  BY <1>4, Zenon DEF HasCollected, Acted, Match
<1>7. InLoop'
  BY <1>2, <1>3, <1>4, <1>5, <1>6 DEF InLoop
<1>8. StatementTypes' /\ StatementEffect' /\ SelectAnswers'
  BY DEF StatementInv, StatementTypes, StatementEffect, SelectAnswers, Answered
<1>9. QED
  BY <1>7, <1>8 DEF StatementInv

-----------------------------------------------------------------------------
(* What acting on a row does to the table and to the answer.               *)

\* The rows acted on depend on the rows read and on the condition only.
LEMMA SameActed ==
    ASSUME rows' = rows, where' = where, NEW n
    PROVE  Acted(n)' = Acted(n)
  BY DEF Acted, Match

\* What an UPDATE assigns depends on the statement only.
LEMMA SameAssigned ==
    ASSUME stmt' = stmt, NEW t
    PROVE  Assigned(t)' = Assigned(t)
  BY DEF Assigned

\* A row that is not acted on, and a call that fails at once, leave the table.
LEMMA TableStays ==
    ASSUME heap' = heap, Same, NEW m, HasActedOn(m),
           NEW n, Acted(n) = Acted(m), stmt.kind = "insert" => n = m
    PROVE  HasActedOn(n)'
<1>1. Acted(n)' = Acted(m)
  BY SameActed
<1>2. \A t : Assigned(t)' = Assigned(t)
  BY SameAssigned, Zenon
<1>3. NextRid' = NextRid
  BY DEF NextRid
<1>4. CASE stmt.kind = "insert"
  BY <1>1, <1>2, <1>3, <1>4, Zenon DEF HasActedOn
<1>5. CASE stmt.kind # "insert"
  BY <1>1, <1>2, <1>5, Zenon DEF HasActedOn
<1>6. QED
  BY <1>4, <1>5

\* An UPDATE of the next row gives it the assigned values.
LEMMA UpdateActs ==
    ASSUME Consistent, BeforeTypes, LoopRows, stmt.kind = "update", Same,
           NEW n \in Nat, n + 1 <= Len(rows), HasActedOn(n), Match(rows[n + 1].tuple) = "yes",
           NEW r, r = rows[n + 1].rid, r \in LiveRows(heap),
           NEW t \in Tuple, t = Assigned(rows[n + 1].tuple), ValidateTuple(t),
           heap' = StoreUpdate(r, t)
    PROVE  HasActedOn(n + 1)'
<1>1. r \in DOMAIN before /\ t = Assigned(before[r]) /\ Acted(n + 1) = Acted(n) \cup {r}
  BY ActedNext, Zenon
<1>2. Acted(n + 1)' = Acted(n) \cup {r} /\ \A x : Assigned(x)' = Assigned(x)
  <2>1. \A x : Assigned(x)' = Assigned(x)
    <3>1. stmt' = stmt
      OBVIOUS
    <3>2. QED
      BY <3>1, SameAssigned, Zenon
  <2>2. QED
    BY <1>1, <2>1, SameActed
<1>3. /\ LiveRows(heap') = LiveRows(heap) /\ heap'[r].tuple = t
      /\ \A q \in LiveRows(heap) : q # r => heap'[q] = heap[q]
  BY StoreChangeFacts DEF Consistent, LiveRows
<1>4. /\ LiveRows(heap) \cap DOMAIN before = DOMAIN before /\ LiveRows(heap) \ DOMAIN before = {}
      /\ \A q \in LiveRows(heap) \cap DOMAIN before :
            heap[q].tuple = IF q \in Acted(n) THEN Assigned(before[q]) ELSE before[q]
  BY DEF HasActedOn
<1>5. ASSUME NEW q \in LiveRows(heap') \cap DOMAIN before
      PROVE  heap'[q].tuple = IF q \in Acted(n + 1)' THEN Assigned(before[q])' ELSE before[q]
  <2>1. CASE q = r
    BY <1>1, <1>2, <1>3, <2>1
  <2>2. CASE q # r
    BY <1>2, <1>3, <1>4, <1>5, <2>2
  <2>3. QED
    BY <2>1, <2>2
<1>6. QED
  BY <1>3, <1>4, <1>5 DEF HasActedOn

\* A DELETE of the next row takes it out of the table.
LEMMA DeleteActs ==
    ASSUME Consistent, BeforeTypes, LoopRows, stmt.kind = "delete", Same,
           NEW n \in Nat, n + 1 <= Len(rows), HasActedOn(n), Match(rows[n + 1].tuple) = "yes",
           NEW r, r = rows[n + 1].rid, r \in LiveRows(heap), heap' = StoreDelete(r)
    PROVE  HasActedOn(n + 1)'
<1>1. r \in DOMAIN before /\ Acted(n + 1)' = Acted(n) \cup {r}
  BY ActedNext, SameActed
<1>2. /\ LiveRows(heap') = LiveRows(heap) \ {r}
      /\ \A q \in LiveRows(heap) : heap'[q].tuple = heap[q].tuple
  BY StoreDeleteFacts DEF Consistent, LiveRows
<1>3. /\ LiveRows(heap) \cap DOMAIN before = DOMAIN before \ Acted(n)
      /\ LiveRows(heap) \ DOMAIN before = {}
      /\ \A q \in LiveRows(heap) \cap DOMAIN before : heap[q].tuple = before[q]
  BY DEF HasActedOn
<1>4. LiveRows(heap') \cap DOMAIN before = DOMAIN before \ Acted(n + 1)'
  BY <1>1, <1>2, <1>3
<1>5. LiveRows(heap') \ DOMAIN before = {}
  BY <1>2, <1>3
<1>6. \A q \in LiveRows(heap') \cap DOMAIN before : heap'[q].tuple = before[q]
  BY <1>2, <1>3
<1>7. QED
  BY <1>4, <1>5, <1>6 DEF HasActedOn

\* An INSERT of the next values adds one row.
LEMMA InsertActs ==
    ASSUME Consistent, stmt.kind = "insert", Same,
           NEW n \in Nat, HasActedOn(n),
           NEW t \in Tuple, t = BuildTuple(stmt.columns, rows[n + 1]), ValidateTuple(t),
           heap' = StoreInsert(t)
    PROVE  HasActedOn(n + 1)'
<1> DEFINE N == NextRid
           L == LiveRows(heap)
           D == DOMAIN before
<1>1. /\ LiveRows(heap') = L \cup {N} /\ N \notin DOMAIN heap /\ heap'[N].tuple = t
      /\ \A q \in L : heap'[q] = heap[q]
      /\ Cardinality(DOMAIN heap') = N + 1
  BY StoreInsertFacts DEF Consistent, LiveRows
<1>2. N \in Nat /\ NextRid' = N + 1
  BY <1>1 DEF Consistent, HeapTypes, NextRid
<1>3. /\ L \cap D = D
      /\ \A q \in L \cap D : heap[q].tuple = before[q]
      /\ L \ D = (N - n)..(N - 1)
      /\ \A q \in L \ D : heap[q].tuple = BuildTuple(stmt.columns, rows[q - (N - n) + 1])
  BY Zenon DEF HasActedOn
<1>4. N \notin D /\ N \notin L
  BY <1>1, <1>3 DEF LiveRows
<1> HIDE DEF N, L, D
<1>5. LiveRows(heap') \cap D = D /\ \A q \in LiveRows(heap') \cap D : heap'[q].tuple = before[q]
  BY <1>1, <1>3, <1>4
<1>6. NextRid' - (n + 1) = N - n /\ NextRid' - 1 = N
  BY <1>2
<1>7. LiveRows(heap') \ D = (NextRid' - (n + 1))..(NextRid' - 1)
  <2>1. LiveRows(heap') \ D = (L \ D) \cup {N}
    BY <1>1, <1>4
  <2>2. (N - n)..N = ((N - n)..(N - 1)) \cup {N}
    BY <1>2
  <2>3. QED
    BY <1>3, <1>6, <2>1, <2>2
<1>8. ASSUME NEW q \in LiveRows(heap') \ D
      PROVE  heap'[q].tuple = BuildTuple(stmt.columns, rows[q - (NextRid' - (n + 1)) + 1])
  <2>1. CASE q = N
    <3>1. N - (N - n) + 1 = n + 1
      BY <1>2
    <3>2. QED
      BY <1>1, <1>6, <2>1, <3>1
  <2>2. CASE q \in L \ D
    BY <1>1, <1>3, <1>6, <2>2
  <2>3. QED
    BY <1>1, <1>8, <2>1, <2>2
<1>9. QED
  BY <1>5, <1>7, <1>8 DEF HasActedOn, D

\* Counting a row acted on.
LEMMA Counts ==
    ASSUME BeforeTypes, LoopRows, stmt.kind # "insert", NEW n \in Nat, n + 1 <= Len(rows),
           Match(rows[n + 1].tuple) = "yes"
    PROVE  /\ Cardinality(Acted(n)) \in Nat /\ Cardinality(Acted(n + 1)) = Cardinality(Acted(n)) + 1
           /\ \A i \in 1..Cardinality(Acted(n)) : InOrder(Acted(n + 1))[i] = InOrder(Acted(n))[i]
           /\ InOrder(Acted(n + 1))[Cardinality(Acted(n)) + 1] = rows[n + 1].rid
<1> DEFINE A == Acted(n)
           x == rows[n + 1].rid
<1>1. n \in 0..Len(rows)
  BY DEF LoopRows
<1>2. IsFiniteSet(A) /\ \A p \in A : p \in Nat
  BY <1>1, ActedFacts
<1>3. x \in Nat /\ (\A r \in A : r < x) /\ Acted(n + 1) = A \cup {x}
  BY ActedNext, Zenon
<1> HIDE DEF A, x
<1>4. Cardinality(A) \in Nat
  BY <1>2, FS_CardinalityType
<1>5. /\ Cardinality(A \cup {x}) = Cardinality(A) + 1
      /\ \A i \in 1..Cardinality(A) : InOrder(A \cup {x})[i] = InOrder(A)[i]
      /\ InOrder(A \cup {x})[Cardinality(A) + 1] = x
  BY <1>2, <1>3, InOrderLast, Zenon
<1>6. QED
  BY <1>3, <1>4, <1>5, Zenon DEF A, x

-----------------------------------------------------------------------------
(* The steps.                                                              *)

\* What holds of a statement while it runs, in one place.
LEMMA Loop ==
    ASSUME StatementInv, phase = "run", next <= Len(rows)
    PROVE  /\ Consistent /\ BeforeTypes /\ LoopRows /\ StatementTypes /\ stmt \in Statements
           /\ next \in Nat /\ next - 1 \in Nat /\ (next - 1) + 1 = next
           /\ next - 1 \in 0..Len(rows) /\ next \in 0..Len(rows) /\ next \in 1..Len(rows)
           /\ HasActedOn(next - 1) /\ HasCollected(next - 1)
<1>1. /\ Consistent /\ BeforeTypes /\ LoopRows /\ StatementTypes /\ next \in 1..(Len(rows) + 1)
      /\ HasActedOn(next - 1) /\ HasCollected(next - 1)
  BY DEF StatementInv, InLoop
<1>2. stmt \in Statements
  BY <1>1 DEF StatementTypes
<1>3. Len(rows) \in Nat
  BY <1>1 DEF LoopRows
<1>4. QED
  BY <1>1, <1>2, <1>3

\* A row passed over leaves the answer, an updated or deleted one is counted.
LEMMA NextRowCollects ==
    ASSUME BeforeTypes, LoopRows, NEW n \in Nat, n + 1 <= Len(rows), HasCollected(n),
           Same, NEW k \in {0, 1}, NextRow(k),
           stmt.kind # "insert" => k = IF Match(rows[n + 1].tuple) = "yes" THEN 1 ELSE 0,
           stmt.kind = "select" => k = 0
    PROVE  HasCollected(n + 1)'
<1>1. /\ answer'.ok = answer.ok /\ answer'.rows = answer.rows /\ answer'.affected = answer.affected + k
      /\ answer' = [ok |-> answer'.ok, rows |-> answer'.rows, affected |-> answer'.affected]
  BY DEF NextRow, HasCollected
<1>2. answer'.ok = FALSE /\ answer'.affected \in Nat
  BY <1>1 DEF HasCollected
<1>3. CASE stmt.kind = "insert"
  BY <1>1, <1>2, <1>3 DEF HasCollected
<1>4. CASE stmt.kind # "insert" /\ k = 0
  <2>1. Acted(n + 1)' = Acted(n)
    <3>1. Match(rows[n + 1].tuple) # "yes"
      BY <1>4
    <3>2. Acted(n + 1) = Acted(n)
      BY <1>4, <3>1, ActedNext, Zenon
    <3>3. QED
      BY <3>2, SameActed
  <2>2. /\ answer'.affected = Cardinality(Acted(n))
        /\ stmt.kind = "select" => answer'.rows = [i \in 1..Cardinality(Acted(n)) |->
                                                     ProjectRow(stmt, before[InOrder(Acted(n))[i]])]
    BY <1>1, <1>4 DEF HasCollected
  <2>3. QED
    BY <1>1, <1>2, <2>1, <2>2 DEF HasCollected
<1>5. CASE stmt.kind # "insert" /\ k = 1
  <2>1. Match(rows[n + 1].tuple) = "yes"
    BY <1>5
  <2>2. Cardinality(Acted(n + 1)) = Cardinality(Acted(n)) + 1
    BY <1>5, <2>1, Counts
  <2>3. answer'.affected = Cardinality(Acted(n + 1)')
    BY <1>1, <1>5, <2>2, SameActed DEF HasCollected
  <2>4. QED
    BY <1>1, <1>2, <1>5, <2>3 DEF HasCollected
<1>6. QED
  BY <1>3, <1>4, <1>5

\* A row that does not satisfy the condition, or on which it fails.
LEMMA SkipStep == ASSUME StatementInv, SkipRow PROVE StatementInv'
<1>1. /\ phase = "run" /\ next <= Len(rows) /\ stmt.kind # "insert" /\ Match(rows[next].tuple) # "yes"
      /\ heap' = heap /\ index' = index /\ torn' = torn /\ Same
  BY DEF SkipRow
<1>2. PICK n \in Nat : /\ Consistent /\ BeforeTypes /\ LoopRows /\ StatementTypes
                       /\ n + 1 = next /\ n \in 0..Len(rows) /\ next \in Nat
                       /\ HasActedOn(n) /\ HasCollected(n)
  BY <1>1, Loop
<1>3. Consistent'
  BY <1>1, <1>2 DEF Consistent
<1>4. CASE Answer(FALSE)
  <2>1. HasActedOn(n)'
    BY <1>1, <1>2, TableStays
  <2>2. QED
    BY <1>1, <1>2, <1>3, <1>4, <2>1, Aborts
<1>5. CASE NextRow(0)
  <2>1. Acted(n + 1) = Acted(n)
    BY <1>1, <1>2, ActedNext
  <2>2. HasActedOn(n + 1)'
    BY <1>1, <1>2, <2>1, TableStays
  <2>3. HasCollected(n + 1)'
    BY <1>1, <1>2, <1>5, NextRowCollects
  <2>4. next' = next + 1 /\ phase' = phase
    BY <1>5 DEF NextRow
  <2>5. QED
    BY <1>1, <1>2, <1>3, <2>2, <2>3, <2>4, Advances
<1>6. QED
  BY <1>4, <1>5, Zenon DEF SkipRow

\* A call of the engine that leaves the table or acts on the next row, and acts
\* on it if it returns ok, goes on or ends the statement.
LEMMA CallStep ==
    ASSUME StatementInv, phase = "run", next <= Len(rows), stmt.kind # "select",
           stmt.kind # "insert" => Match(rows[next].tuple) = "yes",
           Same, NEW res, IsResult(res), EngineCall(res),
           NEW n \in Nat, n + 1 = next, heap' = heap \/ HasActedOn(n + 1)', res.ok => HasActedOn(n + 1)'
    PROVE  StatementInv'
<1>1. /\ Consistent /\ BeforeTypes /\ LoopRows /\ StatementTypes /\ next \in Nat
      /\ n \in 0..Len(rows) /\ n + 1 \in 0..Len(rows) /\ n = next - 1
      /\ HasActedOn(n) /\ HasCollected(n)
  <2>1. n = next - 1
    BY Loop
  <2>2. QED
    BY <2>1, Loop
<1>2. Consistent'
  BY <1>1, EngineCallKeeps
<1>3. CASE res.ok
  <2>1. NextRow(1)
    BY <1>3 DEF EngineCall
  <2>2. HasCollected(n + 1)'
    BY <1>1, <2>1, NextRowCollects
  <2>3. next' = next + 1 /\ phase' = phase
    BY <2>1 DEF NextRow
  <2>4. QED
    BY <1>1, <1>2, <1>3, <2>2, <2>3, Advances
<1>4. CASE ~res.ok
  <2>1. Answer(FALSE)
    BY <1>4, Zenon DEF EngineCall
  <2>2. CASE heap' = heap
    <3>1. HasActedOn(n)'
      BY <1>1, <2>2, TableStays
    <3>2. QED
      BY <1>1, <1>2, <2>1, <3>1, Aborts
  <2>3. CASE HasActedOn(n + 1)'
    BY <1>1, <1>2, <2>1, <2>3, Aborts
  <2>4. QED
    BY <2>2, <2>3
<1>5. QED
  BY <1>3, <1>4

\* UPDATE changes the row that the loop is at.
LEMMA UpdateStep == ASSUME StatementInv, UpdateRow PROVE StatementInv'
<1> DEFINE r == rows[next].rid
           t == Assigned(rows[next].tuple)
           res == Validated(t, UpdateInternal(r, t))
<1>1. /\ phase = "run" /\ next <= Len(rows) /\ stmt.kind = "update" /\ Match(rows[next].tuple) = "yes"
      /\ EngineCall(res) /\ Same
  BY DEF UpdateRow, Running
<1>2. PICK n \in Nat : /\ Consistent /\ BeforeTypes /\ LoopRows /\ stmt \in Statements
                       /\ n + 1 = next /\ HasActedOn(n)
  BY <1>1, Loop
<1>3. rows[next].tuple \in Tuple
  <2>1. n + 1 <= Len(rows) /\ stmt.kind # "insert"
    BY <1>1, <1>2
  <2>2. rows[n + 1].tuple \in Tuple
    BY <1>2, <2>1, ActedNext
  <2>3. QED
    BY <1>2, <2>2
<1>4. t \in Tuple
  BY <1>2, <1>3, AssignedType
<1> HIDE DEF r, t
<1>5. /\ IsResult(res)
      /\ (res.ok \/ res.heap # heap) => ValidateTuple(t) /\ r \in LiveRows(heap) /\ res.heap = StoreUpdate(r, t)
  BY <1>2, <1>4, UpdateIsResult
<1> HIDE DEF res
<1>6. heap' = res.heap
  BY <1>1 DEF EngineCall
<1>7. ASSUME ValidateTuple(t), r \in LiveRows(heap), heap' = StoreUpdate(r, t)
      PROVE  HasActedOn(n + 1)'
  <2>1. r = rows[n + 1].rid /\ t = Assigned(rows[n + 1].tuple)
    BY <1>2 DEF r, t
  <2>2. n + 1 <= Len(rows) /\ Match(rows[n + 1].tuple) = "yes"
    BY <1>1, <1>2
  <2>3. QED
    BY <1>1, <1>2, <1>4, <1>7, <2>1, <2>2, UpdateActs
<1>8. (heap' = heap \/ HasActedOn(n + 1)') /\ (res.ok => HasActedOn(n + 1)')
  BY <1>5, <1>6, <1>7
<1>9. QED
  BY <1>1, <1>2, <1>5, <1>8, CallStep

\* DELETE removes the row that the loop is at.
LEMMA DeleteStep == ASSUME StatementInv, DeleteRow PROVE StatementInv'
<1> DEFINE r == rows[next].rid
           res == DeleteInternal(r)
<1>1. /\ phase = "run" /\ next <= Len(rows) /\ stmt.kind = "delete" /\ Match(rows[next].tuple) = "yes"
      /\ EngineCall(res) /\ Same
  BY DEF DeleteRow, Running
<1>2. PICK n \in Nat : /\ Consistent /\ BeforeTypes /\ LoopRows
                       /\ n + 1 = next /\ HasActedOn(n)
  BY <1>1, Loop
<1> HIDE DEF r
<1>3. /\ IsResult(res)
      /\ (res.ok \/ res.heap # heap) => r \in LiveRows(heap) /\ res.heap = StoreDelete(r)
  BY <1>2, DeleteIsResult
<1> HIDE DEF res
<1>4. heap' = res.heap
  BY <1>1 DEF EngineCall
<1>5. ASSUME r \in LiveRows(heap), heap' = StoreDelete(r)
      PROVE  HasActedOn(n + 1)'
  <2>1. r = rows[n + 1].rid /\ n + 1 <= Len(rows) /\ Match(rows[n + 1].tuple) = "yes"
    BY <1>1, <1>2 DEF r
  <2>2. QED
    BY <1>1, <1>2, <1>5, <2>1, DeleteActs
<1>6. (heap' = heap \/ HasActedOn(n + 1)') /\ (res.ok => HasActedOn(n + 1)')
  BY <1>3, <1>4, <1>5
<1>7. QED
  BY <1>1, <1>2, <1>3, <1>6, CallStep

\* INSERT adds the next row, or ends at one that it cannot build.
LEMMA InsertStep == ASSUME StatementInv, InsertRow PROVE StatementInv'
<1> DEFINE t == BuildTuple(stmt.columns, rows[next])
           res == Validated(t, InsertInternal(t))
<1>1. /\ phase = "run" /\ next <= Len(rows) /\ stmt.kind = "insert"
      /\ Same
  BY DEF InsertRow, Running
<1>2. PICK n \in Nat : /\ Consistent /\ BeforeTypes /\ LoopRows /\ StatementTypes /\ stmt \in Statements
                       /\ n \in 0..Len(rows) /\ n + 1 = next /\ next \in 1..Len(rows) /\ HasActedOn(n)
  BY <1>1, Loop
<1>3. t \in Tuple
  <2>1. rows = stmt.rows /\ BindInsert(stmt) /\ DOMAIN rows = 1..Len(rows)
    BY <1>1, <1>2 DEF LoopRows
  <2>2. QED
    BY <1>2, <2>1, BuildTupleType
<1>4. CASE EngineCall(res)
  <2> HIDE DEF t
  <2>1. /\ IsResult(res)
        /\ (res.ok \/ res.heap # heap) => ValidateTuple(t) /\ res.heap = StoreInsert(t)
    BY <1>2, <1>3, InsertIsResult
  <2> HIDE DEF res
  <2>2. heap' = res.heap
    BY <1>4 DEF EngineCall
  <2>3. ASSUME ValidateTuple(t), heap' = StoreInsert(t)
        PROVE  HasActedOn(n + 1)'
    <3>1. t = BuildTuple(stmt.columns, rows[n + 1])
      BY <1>2 DEF t
    <3>2. QED
      BY <1>1, <1>2, <1>3, <2>3, <3>1, InsertActs
  <2>4. (heap' = heap \/ HasActedOn(n + 1)') /\ (res.ok => HasActedOn(n + 1)')
    BY <2>1, <2>2, <2>3
  <2>5. QED
    BY <1>1, <1>2, <1>4, <2>1, <2>4, CallStep
<1>5. CASE Answer(FALSE) /\ heap' = heap /\ index' = index /\ torn' = torn
  <2> HIDE DEF t, res
  <2>1. Consistent'
    BY <1>2, <1>5 DEF Consistent
  <2>2. HasActedOn(n)'
    BY <1>1, <1>2, <1>5, TableStays
  <2>3. QED
    BY <1>1, <1>2, <1>5, <2>1, <2>2, Aborts
<1>6. QED
  BY <1>4, <1>5, Zenon DEF InsertRow

\* SELECT appends the row that the loop is at to its result.
LEMMA SelectStep == ASSUME StatementInv, SelectRow PROVE StatementInv'
<1>1. /\ phase = "run" /\ next <= Len(rows) /\ stmt.kind = "select" /\ Match(rows[next].tuple) = "yes"
      /\ answer' = [answer EXCEPT !.rows = Append(@, ProjectRow(stmt, rows[next].tuple)),
                                  !.affected = @ + 1]
      /\ next' = next + 1 /\ phase' = phase /\ heap' = heap /\ index' = index /\ torn' = torn /\ Same
  BY DEF SelectRow, Running
<1>2. PICK n \in Nat : /\ Consistent /\ BeforeTypes /\ LoopRows /\ StatementTypes
                       /\ n + 1 = next /\ n \in 0..Len(rows) /\ next \in Nat
                       /\ HasActedOn(n) /\ HasCollected(n)
  BY <1>1, Loop
<1>3. Consistent'
  BY <1>1, <1>2 DEF Consistent
<1>4. n + 1 <= Len(rows) /\ stmt.kind # "insert" /\ Match(rows[n + 1].tuple) = "yes"
  BY <1>1, <1>2
<1>5. HasActedOn(n + 1)'
  <2>1. /\ LiveRows(heap) \cap DOMAIN before = DOMAIN before /\ LiveRows(heap) \ DOMAIN before = {}
        /\ \A q \in LiveRows(heap) \cap DOMAIN before : heap[q].tuple = before[q]
    BY <1>1, <1>2 DEF HasActedOn
  <2>2. QED
    BY <1>1, <2>1 DEF HasActedOn
<1>6. HasCollected(n + 1)'
  <2> DEFINE m == Cardinality(Acted(n))
             f == [i \in 1..m |-> ProjectRow(stmt, before[InOrder(Acted(n))[i]])]
             g == [i \in 1..(m + 1) |-> ProjectRow(stmt, before[InOrder(Acted(n + 1))[i]])]
  <2>1. /\ m \in Nat /\ Cardinality(Acted(n + 1)) = m + 1
        /\ \A i \in 1..m : InOrder(Acted(n + 1))[i] = InOrder(Acted(n))[i]
        /\ InOrder(Acted(n + 1))[m + 1] = rows[n + 1].rid
    BY <1>2, <1>4, Counts
  <2>2. rows[n + 1].tuple = before[rows[n + 1].rid]
    BY <1>2, <1>4, ActedNext
  <2>3. answer.rows = f /\ answer.affected = m /\ answer.ok = FALSE
    BY <1>1, <1>2 DEF HasCollected
  <2>4. g[m + 1] = ProjectRow(stmt, rows[next].tuple)
    BY <1>2, <2>1, <2>2
  <2>5. /\ f = [i \in 1..m |-> f[i]] /\ g = [i \in 1..(m + 1) |-> g[i]]
        /\ \A i \in 1..m : f[i] = g[i]
    BY <2>1
  <2>6. g = [i \in 1..Cardinality(Acted(n + 1)) |-> ProjectRow(stmt, before[InOrder(Acted(n + 1))[i]])]
    BY <2>1
  <2> HIDE DEF f, g, m
  <2>7. Append(f, g[m + 1]) = g
    <3> DEFINE S == {g[i] : i \in 1..(m + 1)}
    <3>1. \A i \in 1..(m + 1) : g[i] \in S
      OBVIOUS
    <3> HIDE DEF S
    <3>2. m \in Nat /\ m + 1 \in Nat /\ (\A i \in 1..(m + 1) : g[i] \in S) /\ \A i \in 1..m : f[i] \in S
      <4>1. m \in Nat /\ \A i \in 1..m : i \in 1..(m + 1)
        BY <2>1
      <4>2. \A i \in 1..m : f[i] = g[i]
        BY <2>5
      <4>3. QED
        BY <3>1, <4>1, <4>2
    <3>3. f \in Seq(S) /\ Len(f) = m
      <4>1. f = [i \in 1..m |-> f[i]]
        BY <2>5
      <4>2. QED
        BY <3>2, <4>1, IsList
    <3>4. g \in Seq(S) /\ Len(g) = m + 1
      <4> DEFINE k == m + 1
      <4>1. k \in Nat /\ g = [i \in 1..k |-> g[i]] /\ \A i \in 1..k : g[i] \in S
        BY <2>5, <3>2
      <4> HIDE DEF k
      <4>2. g \in Seq(S) /\ Len(g) = k
        BY <4>1, IsList
      <4>3. QED
        BY <4>2 DEF k
    <3>5. QED
      BY <2>5, <3>3, <3>4, ExtendList, Zenon
  <2>8. /\ answer'.rows = g /\ answer'.affected = m + 1 /\ answer'.ok = FALSE
        /\ answer' = [ok |-> answer'.ok, rows |-> answer'.rows, affected |-> answer'.affected]
    BY <1>1, <1>2, <2>3, <2>4, <2>7, Zenon DEF HasCollected
  <2>9. Acted(n + 1)' = Acted(n + 1)
    BY <1>1, SameActed
  <2>10. [i \in 1..Cardinality(Acted(n + 1)) |-> ProjectRow(stmt, before[InOrder(Acted(n + 1))[i]])]'
           = [i \in 1..Cardinality(Acted(n + 1)) |-> ProjectRow(stmt, before[InOrder(Acted(n + 1))[i]])]
    BY <1>1, <2>9, Zenon DEF ProjectRow
  <2>11. answer'.affected \in Nat /\ answer'.affected = Cardinality(Acted(n + 1)')
    BY <2>1, <2>8, <2>9
  <2>12. answer'.rows = [i \in 1..Cardinality(Acted(n + 1)) |-> ProjectRow(stmt, before[InOrder(Acted(n + 1))[i]])]'
    BY <2>6, <2>8, <2>10, Zenon
  <2>13. QED
    BY <1>1, <2>8, <2>11, <2>12, Zenon DEF HasCollected
<1>7. QED
  BY <1>1, <1>2, <1>3, <1>5, <1>6, Advances

\* A loop that has run to its end has acted on all rows that satisfy the condition
\* unless an index did not know them.
LEMMA ActedAll ==
    ASSUME BeforeTypes, LoopRows, stmt.kind # "insert", UsesIndex(stmt, where) => ~torn /\ KeyFits(where)
    PROVE  Acted(Len(rows)) = {r \in DOMAIN before : Match(before[r]) = "yes"}
<1>1. Len(rows) \in 0..Len(rows)
  BY DEF LoopRows
<1>2. \A r \in Acted(Len(rows)) : r \in DOMAIN before /\ Match(before[r]) = "yes"
  BY <1>1, ActedFacts
<1>3. ASSUME NEW r \in DOMAIN before, Match(before[r]) = "yes" PROVE r \in Acted(Len(rows))
  <2>1. PICK i \in 1..Len(rows) : rows[i].rid = r
    BY <1>3, Zenon DEF LoopRows
  <2>2. rows[i].tuple = before[r]
    BY <2>1 DEF LoopRows
  <2>3. QED
    BY <1>3, <2>1, <2>2 DEF Acted
<1>4. QED
  BY <1>2, <1>3

\* An index yields one row at most.
LEMMA ActedFew ==
    ASSUME BeforeTypes, LoopRows, UsesIndex(stmt, where)
    PROVE  Cardinality(Acted(Len(rows))) \in {0, 1}
<1>1. stmt.kind # "insert" /\ Len(rows) \in Nat /\ Len(rows) <= 1
  BY Zenon DEF LoopRows, UsesIndex
<1>2. Acted(Len(rows)) \in SUBSET {rows[1].rid}
  BY <1>1 DEF Acted
<1>3. IsFiniteSet({rows[1].rid}) /\ Cardinality({rows[1].rid}) = 1
  BY FS_Singleton, Zenon
<1>4. IsFiniteSet(Acted(Len(rows))) /\ Cardinality(Acted(Len(rows))) <= 1
  BY <1>2, <1>3, FS_Subset
<1>5. QED
  BY <1>4, FS_CardinalityType

\* What SelectAnswers says of the rows of an answer.
Projected == [i \in DOMAIN InOrder(MatchingRows) |-> ProjectRow(stmt, heap[InOrder(MatchingRows)[i]].tuple)]

Selected ==
    IF ~torn /\ (UsesIndex(stmt, where) => KeyFits(where)) THEN answer.rows = Projected
    ELSE \/ answer.rows = Projected
         \/ UsesIndex(stmt, where) /\ Len(answer.rows) <= 1
            /\ \A i \in DOMAIN answer.rows : \E j \in DOMAIN Projected : answer.rows[i] = Projected[j]

\* It depends on nothing that the end of the loop changes.
LEMMA SelectedStays ==
    ASSUME heap' = heap, torn' = torn, Same, answer'.rows = answer.rows
    PROVE  Selected' <=> Selected
<1>1. MatchingRows' = MatchingRows
  BY DEF MatchingRows, Match
<1>2. Projected' = Projected
  BY <1>1, Zenon DEF Projected, ProjectRow
<1>3. UsesIndex(stmt, where)' <=> UsesIndex(stmt, where)
  BY DEF UsesIndex
<1>4. QED
  BY <1>2, <1>3 DEF Selected

\* The rows a SELECT has collected are those it should return.
LEMMA FinishSelects ==
    ASSUME BeforeTypes, LoopRows, stmt.kind = "select", NEW n, n = Len(rows), HasActedOn(n), HasCollected(n)
    PROVE  Selected
<1> DEFINE M == MatchingRows
           projected == [i \in DOMAIN InOrder(M) |-> ProjectRow(stmt, heap[InOrder(M)[i]].tuple)]
           A == Acted(n)
<1>1. LiveRows(heap) = DOMAIN before /\ \A r \in DOMAIN before : heap[r].tuple = before[r]
  BY Zenon DEF HasActedOn
<1>2. M = {r \in DOMAIN before : Match(before[r]) = "yes"}
  BY <1>1 DEF MatchingRows
<1>3. IsFiniteSet(M) /\ \A p \in M : p \in Nat
  BY <1>2, FS_Subset DEF BeforeTypes
<1>4. n \in 0..Len(rows)
  BY DEF LoopRows
<1>5. A \subseteq M /\ IsFiniteSet(A) /\ \A p \in A : p \in Nat
  BY <1>2, <1>4, ActedFacts
<1>6. answer.rows = [i \in 1..Cardinality(A) |-> ProjectRow(stmt, before[InOrder(A)[i]])]
  BY DEF HasCollected
<1> HIDE DEF M, A
<1>7. \A i \in DOMAIN InOrder(M) : heap[InOrder(M)[i]].tuple = before[InOrder(M)[i]]
  BY <1>1, <1>2, <1>3, InOrderFacts
<1>8. ASSUME A = M PROVE answer.rows = projected
  <2>1. DOMAIN InOrder(M) = 1..Cardinality(M)
    BY <1>3, InOrderFacts
  <2>2. QED
    BY <1>6, <1>7, <1>8, <2>1
<1>9. (UsesIndex(stmt, where) => ~torn /\ KeyFits(where)) => A = M
  BY <1>2, ActedAll DEF A
<1>10. ASSUME UsesIndex(stmt, where)
       PROVE  /\ Len(answer.rows) <= 1
              /\ \A i \in DOMAIN answer.rows : \E j \in DOMAIN projected : answer.rows[i] = projected[j]
  <2>1. Cardinality(A) \in {0, 1}
    BY <1>10, ActedFew DEF A
  <2>2. Len(answer.rows) = Cardinality(A) /\ DOMAIN answer.rows = 1..Cardinality(A)
    <3> DEFINE S == {answer.rows[i] : i \in 1..Cardinality(A)}
    <3>1. \A i \in 1..Cardinality(A) : answer.rows[i] \in S
      OBVIOUS
    <3>2. answer.rows = [i \in 1..Cardinality(A) |-> answer.rows[i]]
      BY <1>6
    <3> HIDE DEF S
    <3>3. Cardinality(A) \in Nat
      BY <2>1
    <3>4. QED
      BY <3>1, <3>2, <3>3, IsList
  <2>3. ASSUME NEW i \in 1..Cardinality(A) PROVE \E j \in DOMAIN projected : answer.rows[i] = projected[j]
    <3>1. InOrder(A)[i] \in M
      BY <1>5, InOrderFacts
    <3>2. PICK j \in DOMAIN InOrder(M) : InOrder(M)[j] = InOrder(A)[i]
      BY <1>3, <3>1, InOrderFacts
    <3>3. projected[j] = ProjectRow(stmt, before[InOrder(A)[i]])
      BY <1>7, <3>2
    <3>4. QED
      BY <1>6, <3>2, <3>3
  <2>4. QED
    BY <2>1, <2>2, <2>3
<1>11. QED
  BY <1>8, <1>9, <1>10 DEF M, Selected, Projected

\* The end of the loop: nothing is left to do, and the answer is complete.
LEMMA FinishStep == ASSUME StatementInv, Finish PROVE StatementInv'
<1>1. /\ phase = "run" /\ next > Len(rows) /\ phase' = "answered" /\ answer' = [answer EXCEPT !.ok = TRUE]
      /\ heap' = heap /\ index' = index /\ torn' = torn /\ Same
  BY DEF Finish, Answer
<1>2. /\ StatementTypes /\ Consistent /\ BeforeTypes /\ LoopRows /\ next \in 1..(Len(rows) + 1)
      /\ HasActedOn(next - 1) /\ HasCollected(next - 1)
  BY <1>1 DEF StatementInv, InLoop
<1>3. PICK n \in 0..Len(rows) : n = Len(rows) /\ n = next - 1
  BY <1>1, <1>2 DEF LoopRows
<1>4. HasActedOn(n) /\ HasCollected(n)
  BY <1>2, <1>3
<1>5. HasActedOn(n)'
  BY <1>1, <1>4, TableStays
<1>6. BeforeTypes'
  BY <1>1, <1>2 DEF BeforeTypes
<1>7. answer'.ok = TRUE /\ answer'.rows = answer.rows /\ answer'.affected = answer.affected
  BY <1>1, <1>4 DEF HasCollected
<1>8. StatementTypes' /\ Consistent' /\ InLoop'
  BY <1>1, <1>2 DEF StatementTypes, Consistent, InLoop
<1>9. StatementEffect'
  <2>1. /\ [r \in LiveRows(heap') \cap DOMAIN before' |-> heap'[r].tuple] = Effect(n)'
        /\ IF stmt'.kind # "insert" THEN DOMAIN Added' = {}
           ELSE Added' = [r \in (NextRid' - n)..(NextRid' - 1) |->
                            BuildTuple(stmt'.columns, rows'[r - (NextRid' - n) + 1])]
    BY <1>5, <1>6, EffectFollows, Zenon
  <2>2. ASSUME stmt.kind \in {"update", "delete"}
        PROVE  /\ Acted(n) = {r \in DOMAIN before : Match(before[r]) = "yes"}
               /\ answer.affected = Cardinality(Acted(n))
    <3>1. stmt.kind # "insert" /\ ~UsesIndex(stmt, where)
      BY <2>2, Zenon DEF UsesIndex
    <3>2. QED
      BY <1>2, <1>3, <1>4, <3>1, ActedAll DEF HasCollected
  <2>3. Acted(n)' = Acted(n)
    BY <1>1, SameActed
  <2>4. stmt'.kind \in {"update", "delete"} =>
          /\ Acted(n)' = {r \in DOMAIN before' : Match(before[r])' = "yes"}
          /\ answer'.affected = Cardinality(Acted(n)')
    BY <1>1, <1>7, <2>2, <2>3 DEF Match
  <2>5. n \in 0..Len(rows') /\ n = Len(rows')
    BY <1>1, <1>3
  <2>6. QED
    BY <2>1, <2>4, <2>5 DEF StatementEffect
<1>10. SelectAnswers'
  <2>1. CASE stmt.kind = "select"
    <3>1. Selected
      BY <1>2, <1>3, <1>4, <2>1, FinishSelects
    <3>2. Selected'
      BY <1>1, <1>7, <3>1, SelectedStays
    <3>3. QED
      BY <3>2 DEF SelectAnswers, Selected, Projected
  <2>2. CASE stmt.kind # "select"
    BY <1>1, <2>2 DEF SelectAnswers, Answered
  <2>3. QED
    BY <2>1, <2>2
<1>11. QED
  BY <1>8, <1>9, <1>10 DEF StatementInv

\* Between two statements there is nothing to keep but the table.
LEMMA DoneStep == ASSUME StatementInv, Done PROVE StatementInv'
<1>1. phase' = "idle" /\ answer' = NoAnswer /\ heap' = heap /\ index' = index /\ torn' = torn
  BY DEF Done
<1>2. Consistent'
  BY <1>1 DEF StatementInv, Consistent
<1>3. StatementTypes' /\ InLoop' /\ StatementEffect' /\ SelectAnswers'
  BY <1>1 DEF StatementTypes, InLoop, StatementEffect, SelectAnswers, Answered
<1>4. QED
  BY <1>2, <1>3 DEF StatementInv

\* The empty table.
LEMMA InitStatementInv == ASSUME StatementInit PROVE StatementInv
<1>1. /\ heap = [r \in {} |-> <<>>] /\ DOMAIN heap = {} /\ phase = "idle" /\ answer = NoAnswer /\ torn = FALSE
  BY DEF StatementInit
<1>2. Cardinality(DOMAIN heap) = 0
  BY <1>1, FS_EmptySet
<1>3. HeapTypes(heap)
  <2>1. heap \in [DOMAIN heap -> [tuple : Tuple, deleted : BOOLEAN]]
    BY <1>1
  <2>2. DOMAIN heap = 0..(Cardinality(DOMAIN heap) - 1)
    BY <1>1, <1>2
  <2>3. QED
    BY <1>2, <2>1, <2>2 DEF HeapTypes
<1>4. StoredIsValid(heap) /\ IndexesAreComplete(heap, index)
  BY <1>1 DEF StoredIsValid, IndexesAreComplete, LiveRows
<1>5. QED
  BY <1>1, <1>3, <1>4, Zenon DEF StatementInv, StatementTypes, Consistent, InLoop, StatementEffect, SelectAnswers, Answered

\* ScanTable reads every live row, in the order of the ids.
LEMMA ScanTableFacts ==
    ASSUME HeapTypes(heap)
    PROVE  LET n == Cardinality(LiveRows(heap))
           IN  /\ n \in Nat /\ Len(ScanTable) = n /\ DOMAIN ScanTable = 1..n
               /\ \A i \in 1..n : /\ ScanTable[i].rid \in LiveRows(heap)
                                  /\ ScanTable[i].tuple = heap[ScanTable[i].rid].tuple
               /\ \A i, j \in 1..n : i < j => ScanTable[i].rid < ScanTable[j].rid
               /\ \A r \in LiveRows(heap) : \E i \in 1..n : ScanTable[i].rid = r
<1> DEFINE L == LiveRows(heap)
           n == Cardinality(L)
           ids == InOrder(L)
           T == ScanTable
           S == {T[i] : i \in 1..n}
<1>1. IsFiniteSet(L) /\ \A r \in L : r \in Nat
  BY RowFacts
<1>2. /\ n \in Nat /\ DOMAIN ids = 1..n
      /\ \A i \in 1..n : ids[i] \in L
      /\ \A i, j \in 1..n : i < j => ids[i] < ids[j]
      /\ \A r \in L : \E i \in 1..n : ids[i] = r
  <2> HIDE DEF L
  <2>1. QED
    BY <1>1, InOrderFacts
<1>3. T = [i \in 1..n |-> RowOf(ids[i])]
  BY <1>2 DEF ScanTable
<1>4. \A i \in 1..n : T[i].rid = ids[i] /\ T[i].tuple = heap[ids[i]].tuple
  BY <1>3 DEF RowOf
<1>5. T = [i \in 1..n |-> T[i]]
  BY <1>3
<1>6. \A i \in 1..n : T[i] \in S
  OBVIOUS
<1> HIDE DEF S, T, ids, n, L
<1>7. Len(T) = n /\ DOMAIN T = 1..n
  BY <1>2, <1>5, <1>6, IsList
<1>8. QED
  BY <1>2, <1>4, <1>7 DEF T, n, L

\* What Find can return.
LEMMA ShortLists ==
    /\ Len(<<>>) = 0 /\ DOMAIN <<>> = 1..Len(<<>>)
    /\ \A x : Len(<<x>>) = 1 /\ DOMAIN <<x>> = 1..Len(<<x>>) /\ <<x>>[1] = x
  OBVIOUS

\* The rows of the executor's loop at its start.
LEMMA StartRows ==
    ASSUME Consistent, NEW s \in Statements, Execute(s), phase' = "run"
    PROVE  LoopRows'
<1> DEFINE e == Condition(s).expr
           c == FindColumn(IndexColumn(e))
           k == IndexKey(e)
           L == LiveRows(heap)
<1>1. /\ stmt' = s /\ where' = e /\ before' = [r \in L |-> heap[r].tuple] /\ torn' = torn
      /\ rows' = IF s.kind = "insert" THEN s.rows
                 ELSE IF UsesIndex(s, e) THEN Find(c, k) ELSE ScanTable
      /\ Bind(s, e)
  BY DEF Execute, Answer, Table
<1>2. DOMAIN before' = L /\ \A r \in L : before'[r] = heap[r].tuple
  BY <1>1
<1>3. HeapTypes(heap) /\ (~torn => IndexesAreComplete(heap, index))
  BY DEF Consistent
<1>4. CASE s.kind = "insert"
  <2>1. rows' = stmt'.rows /\ BindInsert(stmt')
    BY <1>1, <1>4 DEF Bind
  <2>2. Len(rows') \in Nat /\ DOMAIN rows' = 1..Len(rows')
    <3> DEFINE V == Seq(Values \cup {Null})
    <3>1. rows' \in Seq(V)
      BY <1>1, <1>4, StatementsAssumption
    <3> HIDE DEF V
    <3>2. QED
      BY <3>1
  <2>3. QED
    BY <1>1, <1>4, <2>1, <2>2 DEF LoopRows
<1>5. CASE s.kind # "insert" /\ ~UsesIndex(s, e)
  <2>1. rows' = ScanTable
    BY <1>1, <1>5
  <2>2. /\ Len(rows') \in Nat /\ DOMAIN rows' = 1..Len(rows')
        /\ \A i \in 1..Len(rows') : rows'[i].rid \in L /\ rows'[i].tuple = heap[rows'[i].rid].tuple
        /\ \A i, j \in 1..Len(rows') : i < j => rows'[i].rid < rows'[j].rid
        /\ \A r \in L : \E i \in 1..Len(rows') : rows'[i].rid = r
    BY <1>3, <2>1, ScanTableFacts
  <2> HIDE DEF e, L
  <2>3. stmt'.kind # "insert" /\ ~UsesIndex(stmt', where')
    BY <1>1, <1>5
  <2>4. QED
    BY <1>2, <2>2, <2>3 DEF LoopRows
<1>6. CASE s.kind # "insert" /\ UsesIndex(s, e)
  <2>1. rows' = Find(c, k)
    BY <1>1, <1>6
  <2>2. \/ Len(rows') = 0 /\ DOMAIN rows' = 1..Len(rows')
        \/ /\ Len(rows') = 1 /\ DOMAIN rows' = 1..Len(rows')
           /\ rows'[1].rid \in L /\ rows'[1].tuple = heap[rows'[1].rid].tuple
    <3>1. \A r : IsLive(heap, r) <=> r \in L
      BY <1>3, RowFacts
    <3>2. rows' = <<>> \/ \E r \in L : rows' = <<RowOf(r)>>
      BY <2>1, <3>1 DEF Find
    <3>3. CASE rows' = <<>>
      BY <3>3, ShortLists
    <3>4. ASSUME NEW r \in L, rows' = <<RowOf(r)>>
          PROVE  /\ Len(rows') = 1 /\ DOMAIN rows' = 1..Len(rows')
                 /\ rows'[1].rid \in L /\ rows'[1].tuple = heap[rows'[1].rid].tuple
      <4>1. Len(rows') = 1 /\ DOMAIN rows' = 1..Len(rows') /\ rows'[1] = RowOf(r)
        BY <3>4, ShortLists
      <4>2. QED
        BY <4>1 DEF RowOf
    <3>5. QED
      BY <3>2, <3>3, <3>4
  <2>3. ASSUME ~torn, KeyFits(e), NEW r \in L, Matches(e, heap[r].tuple) = "yes"
        PROVE  Len(rows') = 1 /\ rows'[1].rid = r
    <3>1. heap[r].tuple \in Tuple /\ \A q : IsLive(heap, q) <=> q \in L
      BY <1>3, RowFacts, Zenon DEF LiveRows
    <3>2. c \in Indexes /\ heap[r].tuple[c] = k
      BY <1>6, <2>3, <3>1, ConditionsAssumption, Zenon DEF UsesIndex
    <3>3. k \in DOMAIN index[c] /\ index[c][k] = r
      BY <1>3, <2>3, <3>2 DEF IndexesAreComplete
    <3> HIDE DEF e, k, c, L
    <3>4. rows' = <<RowOf(r)>>
      BY <2>1, <2>3, <3>1, <3>3 DEF Find
    <3>5. QED
      BY <3>4 DEF RowOf
  <2> HIDE DEF e, L
  <2>4. \A r \in L : Match(before[r])' = Matches(e, heap[r].tuple)
    BY <1>1, <1>2 DEF Match
  <2>5. stmt'.kind # "insert" /\ UsesIndex(stmt', where') /\ (KeyFits(where') <=> KeyFits(e))
    BY <1>1, <1>6
  <2>6. Len(rows') \in Nat /\ Len(rows') <= 1 /\ DOMAIN rows' = 1..Len(rows')
    BY <2>2
  <2>7. /\ \A i \in 1..Len(rows') : rows'[i].rid \in DOMAIN before' /\ rows'[i].tuple = before'[rows'[i].rid]
        /\ \A i, j \in 1..Len(rows') : i < j => rows'[i].rid < rows'[j].rid
    BY <1>2, <2>2
  <2>8. ~torn' /\ KeyFits(where') => \A r \in DOMAIN before' :
            Match(before[r])' = "yes" => \E i \in 1..Len(rows') : rows'[i].rid = r
    BY <1>1, <1>2, <2>3, <2>4, <2>5
  <2>9. QED
    BY <2>5, <2>6, <2>7, <2>8 DEF LoopRows
<1>7. QED
  BY <1>4, <1>5, <1>6

\* A statement that comes finds the table as the one before it left it.
LEMMA ExecuteStep == ASSUME StatementInv, NEW s \in Statements, Execute(s) PROVE StatementInv'
<1>1. /\ phase = "idle" /\ stmt' = s /\ before' = [r \in LiveRows(heap) |-> heap[r].tuple] /\ next' = 1
      /\ heap' = heap /\ index' = index /\ torn' = torn /\ phase' \in {"run", "answered"}
      /\ phase' = "answered" => answer' = NoAnswer /\ rows' = <<>>
      /\ phase' = "run" => answer' = answer
  BY DEF Execute, Answer, Table
<1>2. Consistent /\ Consistent' /\ answer = NoAnswer /\ HeapTypes(heap)
  BY <1>1 DEF StatementInv, StatementTypes, Consistent
<1>3. answer' = NoAnswer
  BY <1>1, <1>2
<1>4. BeforeTypes'
  BY <1>1, <1>2, RowFacts DEF BeforeTypes
<1>5. HasActedOn(0)'
  <2>1. Acted(0)' = {}
    BY DEF Acted
  <2>2. LiveRows(heap') = DOMAIN before' /\ \A r \in DOMAIN before' : heap'[r].tuple = before'[r]
    BY <1>1
  <2>3. NextRid' \in Nat
    BY <1>2 DEF NextRid, Consistent, HeapTypes
  <2>4. (NextRid' - 0)..(NextRid' - 1) = {}
    <3>1. \A k \in Nat : (k - 0)..(k - 1) = {}
      OBVIOUS
    <3>2. QED
      BY <2>3, <3>1, Zenon
  <2>5. QED
    BY <2>1, <2>2, <2>4 DEF HasActedOn
<1>6. StatementTypes'
  BY <1>1, Zenon DEF StatementTypes
<1>7. CASE phase' = "run"
  <2>1. LoopRows'
    BY <1>2, <1>7, StartRows
  <2>2. HasCollected(0)'
    <3>1. Acted(0)' = {} /\ Cardinality({}) = 0
      BY FS_EmptySet DEF Acted
    <3>2. [i \in 1..0 |-> ProjectRow(stmt, before[InOrder(Acted(0))[i]])]' = <<>>
      BY SMT
    <3>3. QED
      BY <1>3, <3>1, <3>2, Zenon DEF HasCollected, NoAnswer
  <2>3. next' \in 1..(Len(rows') + 1) /\ next' - 1 = 0
    <3>1. next' = 1
      BY <1>1, Zenon
    <3>2. Len(rows') \in Nat
      BY <2>1, Zenon DEF LoopRows
    <3>3. QED
      BY <3>1, <3>2
  <2>4. InLoop'
    BY <1>4, <1>5, <2>1, <2>2, <2>3 DEF InLoop
  <2>5. QED
    BY <1>2, <1>6, <1>7, <2>4, Zenon DEF StatementInv, StatementEffect, SelectAnswers, Answered
<1>8. CASE phase' = "answered"
  <2>1. InLoop' /\ SelectAnswers'
    BY <1>3, <1>8, Zenon DEF InLoop, SelectAnswers, NoAnswer
  <2>2. StatementEffect'
    <3>1. /\ [r \in LiveRows(heap') \cap DOMAIN before' |-> heap'[r].tuple] = Effect(0)'
          /\ IF stmt'.kind # "insert" THEN DOMAIN Added' = {}
             ELSE Added' = [r \in (NextRid' - 0)..(NextRid' - 1) |->
                              BuildTuple(stmt'.columns, rows'[r - (NextRid' - 0) + 1])]
      BY <1>4, <1>5, EffectFollows, Zenon
    <3>2. 0 \in 0..Len(rows') /\ ~answer'.ok
      BY <1>1, <1>3, <1>8 DEF NoAnswer
    <3>3. QED
      BY <3>1, <3>2 DEF StatementEffect
  <2>3. QED
    BY <1>2, <1>6, <2>1, <2>2 DEF StatementInv
<1>9. QED
  BY <1>1, <1>7, <1>8

\* The invariant speaks of these variables only.
LEMMA StatementStutters == ASSUME StatementInv, UNCHANGED statementVars PROVE StatementInv'
<1>1. /\ heap' = heap /\ index' = index /\ stmt' = stmt /\ where' = where /\ phase' = phase /\ rows' = rows
      /\ next' = next /\ answer' = answer /\ before' = before /\ torn' = torn
  BY DEF statementVars
<1>2. StatementTypes' /\ Consistent'
  BY <1>1 DEF StatementInv, StatementTypes, Consistent
<1>3. BeforeTypes <=> BeforeTypes'
  BY <1>1 DEF BeforeTypes
<1>4. LoopRows <=> LoopRows'
  BY <1>1, Zenon DEF LoopRows, Match
<1>5. ASSUME NEW n PROVE (HasActedOn(n) => HasActedOn(n)') /\ (HasCollected(n) => HasCollected(n)')
  <2>1. Acted(n)' = Acted(n)
    BY <1>1, SameActed
  <2>2. HasActedOn(n) => HasActedOn(n)'
    BY <1>1, TableStays
  <2>3. HasCollected(n) => HasCollected(n)'
    BY <1>1, <2>1, Zenon DEF HasCollected, ProjectRow
  <2>4. QED
    BY <2>2, <2>3
<1>6. InLoop'
  BY <1>1, <1>3, <1>4, <1>5 DEF StatementInv, InLoop
<1>7. StatementEffect'
  <2>1. Added' = Added /\ NextRid' = NextRid
    BY <1>1 DEF Added, NextRid
  <2>2. ASSUME NEW n PROVE Acted(n)' = Acted(n) /\ Effect(n)' = Effect(n)
    <3>1. Acted(n)' = Acted(n)
      BY <1>1, SameActed
    <3>2. ASSUME NEW t PROVE Assigned(t)' = Assigned(t)
      BY <1>1 DEF Assigned
    <3>3. QED
      BY <1>1, <3>1, <3>2 DEF Effect
  <2>3. ASSUME NEW t PROVE Match(t)' = Match(t)
    BY <1>1 DEF Match
  <2>4. QED
    BY <1>1, <2>1, <2>2, <2>3, Zenon DEF StatementInv, StatementEffect
<1>8. SelectAnswers'
  <2>1. SelectAnswers <=> (Answered("select") /\ answer.ok => Selected)
    BY Zenon DEF SelectAnswers, Selected, Projected
  <2>2. SelectAnswers' <=> (Answered("select")' /\ answer'.ok => Selected')
    BY Zenon DEF SelectAnswers, Selected, Projected
  <2>3. QED
    BY <1>1, <2>1, <2>2, SelectedStays DEF StatementInv, Answered
<1>9. QED
  BY <1>2, <1>6, <1>7, <1>8 DEF StatementInv

\* Every statement keeps the invariant, whatever its rows meet.
LEMMA NextStatementInv == ASSUME StatementInv, [StatementNext]_statementVars PROVE StatementInv'
<1>1. CASE \E s \in Statements : Execute(s)
  BY <1>1, ExecuteStep, Zenon
<1>2. CASE InsertRow \/ SkipRow \/ UpdateRow
  BY <1>2, InsertStep, SkipStep, UpdateStep, Zenon
<1>3. CASE DeleteRow \/ SelectRow \/ Finish \/ Done
  BY <1>3, DeleteStep, SelectStep, FinishStep, DoneStep, Zenon
<1>4. CASE UNCHANGED statementVars
  BY <1>4, StatementStutters, Zenon
<1>5. QED
  BY <1>1, <1>2, <1>3, <1>4, Zenon DEF StatementNext

\* The invariant gives the constraints of the schema.
LEMMA ConsistentConstraints == ASSUME Consistent PROVE ConstraintsHold
<1>1. ASSUME NEW r \in LiveRows(heap), NEW c \in Column PROVE CheckValueType(Schema[c], heap[r].tuple[c])
  <2>1. ValidateTuple(heap[r].tuple)
    BY DEF Consistent, StoredIsValid, LiveRows
  <2>2. QED
    BY <2>1, SchemaAssumption DEF ValidateTuple, CheckValueType, MayBeNull
<1>2. ASSUME ~torn, NEW r \in LiveRows(heap), NEW q \in LiveRows(heap), NEW c \in Indexes,
             heap[r].tuple[c] = heap[q].tuple[c]
      PROVE  r = q
  <2>1. index[c][heap[r].tuple[c]] = r /\ index[c][heap[q].tuple[c]] = q
    BY <1>2 DEF Consistent, IndexesAreComplete
  <2>2. QED
    BY <1>2, <2>1
<1>3. QED
  BY <1>1, <1>2 DEF ConstraintsHold

-----------------------------------------------------------------------------
(* The theorems.                                                           *)

\* StatementInv holds at every step of every statement.
THEOREM StatementInvariance == StatementSpec => []StatementInv
<1>1. StatementInit => StatementInv
  BY InitStatementInv
<1>2. StatementInv /\ [StatementNext]_statementVars => StatementInv'
  BY NextStatementInv
<1>3. QED
  BY <1>1, <1>2, PTL DEF StatementSpec

\* Every stored row obeys the schema, and until a change has failed halfway no two
\* rows share a value of an indexed column, whatever statements came (NormalizeTuple,
\* the engine's order of heap and indexes).
THEOREM RowsObeySchema == StatementSpec => []ConstraintsHold
<1>1. StatementInv => ConstraintsHold
  BY ConsistentConstraints DEF StatementInv
<1>2. QED
  BY <1>1, StatementInvariance, PTL

\* UPDATE and DELETE change exactly the rows that satisfied the condition when they
\* began, a statement that fails has done a first part of this, an INSERT adds its
\* rows in order, and no other statement changes the table.
THEOREM StatementsDoWhatTheySay == StatementSpec => []StatementEffect
<1>1. StatementInv => StatementEffect
  BY DEF StatementInv
<1>2. QED
  BY <1>1, StatementInvariance, PTL

\* A SELECT returns the rows that satisfy its condition, in the order of the table,
\* by a scan and by an index, except where a torn table or a key of another column
\* make the index miss some.
THEOREM SelectIsSound == StatementSpec => []SelectAnswers
<1>1. StatementInv => SelectAnswers
  BY DEF StatementInv
<1>2. QED
  BY <1>1, StatementInvariance, PTL
=============================================================================
