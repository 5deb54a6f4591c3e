------------------------ MODULE VersionedTableProofs ------------------------
(***************************************************************************)
(* VersionedTable for any number of indexes, keys, rows and statements:    *)
(* the first index never leads to a wrong row, a change that succeeds      *)
(* keeps all indexes in step with the heap, and a revert over changes that *)
(* are all in the log succeeds and restores the table.                     *)
(***************************************************************************)
EXTENDS VersionedTable, TLAPS, FiniteSetTheorems, NaturalsInduction, WellFoundedInduction

-----------------------------------------------------------------------------
(* The loops over the indexes.                                             *)

\* Where a loop over the indexes stops: at the first of S, past the last
\* index when S is empty.
LEMMA FirstOfFacts ==
    ASSUME NEW S \in SUBSET Indexes
    PROVE  /\ FirstOf(S) \in Nat
           /\ \A d \in S : FirstOf(S) <= d
           /\ FirstOf(S) <= NumIndexes => FirstOf(S) \in S
           /\ FirstOf(S) > NumIndexes <=> S = {}
  <1>1. NumIndexes \in Nat /\ S \subseteq Nat
    BY IndexedHeapAssumption DEF Indexes
  <1>2. CASE S = {}
    BY <1>1, <1>2 DEF FirstOf
  <1>3. CASE S # {}
    <2> DEFINE Less == {ss \in Nat \X Nat : ss[1] < ss[2]}
    <2>1. IsWellFoundedOn(Less, Nat)
      BY NatLessThanWellFounded DEF OpToRel
    <2> HIDE DEF Less
    <2>2. PICK x \in S : \A y \in S : ~(<<y, x>> \in Less)
      BY <1>1, <1>3, <2>1, WFMin, Zenon
    <2>3. ASSUME NEW y \in S PROVE x <= y
      <3>1. x \in Nat /\ y \in Nat BY <1>1
      <3>2. y < x => <<y, x>> \in Less BY <3>1 DEF Less
      <3> QED BY <2>2, <3>1, <3>2
    <2>4. FirstOf(S) \in S /\ \A d \in S : FirstOf(S) <= d
      BY <1>3, <2>3 DEF FirstOf
    <2>5. FirstOf(S) \in Nat /\ FirstOf(S) <= NumIndexes /\ ~(FirstOf(S) > NumIndexes)
      <3>1. FirstOf(S) \in 1..NumIndexes BY <2>4, Zenon DEF Indexes
      <3> QED BY <1>1, <3>1
    <2> QED BY <1>3, <2>4, <2>5
  <1> QED BY <1>2, <1>3

\* An insertion into the indexes changes each as it should or not at all, and
\* all of them when no key is taken.
LEMMA InsertIntoFacts ==
    ASSUME NEW ix, NEW t, NEW r
    PROVE  LET i == InsertIntoIndexes(ix, t, r)
               free == \A c \in Indexes : t[c] # Null => ~HasKey(ix, t, c)
           IN  /\ i.ok \in BOOLEAN /\ (i.ok <=> free)
               /\ \A c \in Indexes : \/ i.index[c] = ix[c]
                                     \/ t[c] # Null /\ ~HasKey(ix, t, c) /\ i.index[c] = Put(ix[c], t[c], r)
               /\ i.ok => \A c \in Indexes : i.index[c] = IF t[c] = Null THEN ix[c] ELSE Put(ix[c], t[c], r)
  <1> DEFINE S == {c \in Indexes : t[c] # Null /\ HasKey(ix, t, c)}
             i == InsertIntoIndexes(ix, t, r)
  <1>1. i = [ok |-> FirstOf(S) > NumIndexes,
             index |-> [c \in Indexes |-> IF c < FirstOf(S) /\ t[c] # Null THEN Put(ix[c], t[c], r)
                                          ELSE ix[c]]]
    BY DEF InsertIntoIndexes
  <1>2. /\ FirstOf(S) \in Nat /\ (\A d \in S : FirstOf(S) <= d)
        /\ (FirstOf(S) > NumIndexes <=> S = {})
    BY FirstOfFacts
  <1>3. \A c \in Indexes : c \in Nat /\ c <= NumIndexes
    BY IndexedHeapAssumption DEF Indexes
  <1>4. ASSUME NEW c \in Indexes, c < FirstOf(S) PROVE c \notin S
    BY <1>2, <1>3, <1>4
  <1>a. i.ok = (FirstOf(S) > NumIndexes)
    BY <1>1
  <1>5. i.ok <=> S = {}
    BY <1>2, <1>a, Zenon
  <1>6. i.ok => \A c \in Indexes : c < FirstOf(S)
    <2>1. FirstOf(S) > NumIndexes => \A c \in Indexes : c < FirstOf(S)
      BY <1>2, <1>3, IndexedHeapAssumption
    <2> QED BY <1>a, <2>1, Zenon
  <1>7. \A c \in Indexes : i.index[c] = IF c < FirstOf(S) /\ t[c] # Null THEN Put(ix[c], t[c], r) ELSE ix[c]
    BY <1>1
  <1>8. i.ok \in BOOLEAN
    BY <1>1
  <1> HIDE DEF i
  <1> QED BY <1>4, <1>5, <1>6, <1>7, <1>8, Zenon DEF i

\* A deletion from the indexes likewise.
LEMMA DeleteFromFacts ==
    ASSUME NEW ix, NEW t
    PROVE  LET i == DeleteFromIndexes(ix, t)
               there == \A c \in Indexes : t[c] # Null => HasKey(ix, t, c)
           IN  /\ i.ok \in BOOLEAN /\ (i.ok <=> there)
               /\ \A c \in Indexes : i.index[c] \in {ix[c], Remove(ix[c], t[c])}
               /\ i.ok => \A c \in Indexes : i.index[c] = IF t[c] = Null THEN ix[c] ELSE Remove(ix[c], t[c])
  <1> DEFINE S == {c \in Indexes : t[c] # Null /\ ~HasKey(ix, t, c)}
             i == DeleteFromIndexes(ix, t)
  <1>1. i = [ok |-> FirstOf(S) > NumIndexes,
             index |-> [c \in Indexes |-> IF c < FirstOf(S) /\ t[c] # Null THEN Remove(ix[c], t[c])
                                          ELSE ix[c]]]
    BY DEF DeleteFromIndexes
  <1>2. FirstOf(S) \in Nat /\ (FirstOf(S) > NumIndexes <=> S = {})
    BY FirstOfFacts
  <1>3. \A c \in Indexes : c \in Nat /\ c <= NumIndexes
    BY IndexedHeapAssumption DEF Indexes
  <1>a. i.ok = (FirstOf(S) > NumIndexes)
    BY <1>1
  <1>5. i.ok <=> S = {}
    BY <1>2, <1>a, Zenon
  <1>6. i.ok => \A c \in Indexes : c < FirstOf(S)
    <2>1. FirstOf(S) > NumIndexes => \A c \in Indexes : c < FirstOf(S)
      BY <1>2, <1>3, IndexedHeapAssumption
    <2> QED BY <1>a, <2>1, Zenon
  <1>7. \A c \in Indexes : i.index[c] = IF c < FirstOf(S) /\ t[c] # Null THEN Remove(ix[c], t[c]) ELSE ix[c]
    BY <1>1
  <1>8. i.ok \in BOOLEAN
    BY <1>1
  <1> HIDE DEF i
  <1> QED BY <1>5, <1>6, <1>7, <1>8, Zenon DEF i

Without(ix, old, c) == IF old[c] = Null THEN ix[c] ELSE Remove(ix[c], old[c])
With(ix, old, new, r, c) ==
    IF new[c] = Null THEN Without(ix, old, c) ELSE Put(Without(ix, old, c), new[c], r)

\* nothing stands in the way of changing old to new in index c
CanChange(ix, old, new, c) ==
    old[c] # new[c] => /\ old[c] # Null => HasKey(ix, old, c)
                       /\ new[c] # Null => ~HasKey(ix, new, c)

\* What an update leaves in an index.  The four cases are an unchanged key (or
\* an index past the error), an error at the deletion, an error at the insertion
\* and success.
LEMMA UpdateFacts ==
    ASSUME NEW ix, NEW old, NEW new, NEW r
    PROVE  LET i == UpdateIndexes(ix, old, new, r)
           IN  /\ i.ok \in BOOLEAN /\ (i.ok <=> \A c \in Indexes : CanChange(ix, old, new, c))
               /\ \A c \in Indexes :
                     \/ i.index[c] = ix[c]
                     \/ i.index[c] = Without(ix, old, c)
                     \/ i.index[c] = With(ix, old, new, r, c) /\ CanChange(ix, old, new, c)
               /\ 1 \in Indexes =>
                     \/ old[1] = new[1] /\ i.index[1] = ix[1]
                     \/ old[1] # Null /\ ~HasKey(ix, old, 1) /\ i.index[1] = ix[1]
                     \/ i.index[1] = Without(ix, old, 1)
                     \/ i.index[1] = With(ix, old, new, r, 1) /\ CanChange(ix, old, new, 1)
               /\ i.ok => \A c \in Indexes :
                     i.index[c] = IF old[c] = new[c] THEN ix[c] ELSE With(ix, old, new, r, c)
  <1> DEFINE Changed == {c \in Indexes : old[c] # new[c]}
             CannotDelete == {c \in Changed : old[c] # Null /\ ~HasKey(ix, old, c)}
             CannotInsert == {c \in Changed : new[c] # Null /\ HasKey(ix, new, c)}
             S == CannotDelete \cup CannotInsert
             stop == FirstOf(S)
             i == UpdateIndexes(ix, old, new, r)
  <1>1. i = [ok |-> stop > NumIndexes,
             index |-> [c \in Indexes |->
                          IF c \notin Changed \/ c > stop THEN ix[c]
                          ELSE IF c < stop THEN With(ix, old, new, r, c)
                          ELSE IF c \in CannotDelete THEN ix[c] ELSE Without(ix, old, c)]]
    BY DEF UpdateIndexes, With, Without
  <1>2. /\ stop \in Nat /\ (\A d \in S : stop <= d)
        /\ (stop <= NumIndexes => stop \in S) /\ (stop > NumIndexes <=> S = {})
    BY FirstOfFacts
  <1>3. \A c \in Indexes : c \in Nat /\ 1 <= c /\ c <= NumIndexes
    BY IndexedHeapAssumption DEF Indexes
  <1>4. ASSUME NEW c \in Indexes PROVE c \notin S <=> CanChange(ix, old, new, c)
    BY DEF CanChange
  <1>a. i.ok = (stop > NumIndexes)
    BY <1>1
  <1>5. i.ok <=> S = {}
    BY <1>2, <1>a, Zenon
  <1>6. i.ok => \A c \in Indexes : c < stop
    <2>1. stop > NumIndexes => \A c \in Indexes : c < stop
      BY <1>2, <1>3, IndexedHeapAssumption
    <2> QED BY <1>a, <2>1, Zenon
  <1>7. ASSUME NEW c \in Indexes
        PROVE  i.index[c] = IF c \notin Changed \/ c > stop THEN ix[c]
                            ELSE IF c < stop THEN With(ix, old, new, r, c)
                            ELSE IF c \in CannotDelete THEN ix[c] ELSE Without(ix, old, c)
    BY <1>1
  <1>8. i.ok \in BOOLEAN
    BY <1>1
  <1>9. ASSUME NEW c \in Indexes, c < stop PROVE c \notin S
    BY <1>2, <1>3, <1>9
  <1>10. 1 \in Indexes => 1 <= stop
    <2>1. stop \in S => 1 <= stop BY <1>3
    <2> QED BY <1>2, <2>1, IndexedHeapAssumption
  <1>11. 1 \in Indexes => ~(1 > stop)
    BY <1>2, <1>10
  <1>12. ASSUME NEW c \in Indexes PROVE ~(c < stop) /\ ~(c > stop) => c = stop
    BY <1>2, <1>3
  <1> HIDE DEF i
  <1>13. \A c \in Indexes : \/ i.index[c] = ix[c]
                            \/ i.index[c] = Without(ix, old, c)
                            \/ i.index[c] = With(ix, old, new, r, c) /\ CanChange(ix, old, new, c)
    BY <1>4, <1>7, <1>9, Zenon
  <1>14. 1 \in Indexes =>
            \/ old[1] = new[1] /\ i.index[1] = ix[1]
            \/ old[1] # Null /\ ~HasKey(ix, old, 1) /\ i.index[1] = ix[1]
            \/ i.index[1] = Without(ix, old, 1)
            \/ i.index[1] = With(ix, old, new, r, 1) /\ CanChange(ix, old, new, 1)
    BY <1>4, <1>7, <1>9, <1>11
  <1>15. i.ok => \A c \in Indexes :
            i.index[c] = IF old[c] = new[c] THEN ix[c] ELSE With(ix, old, new, r, c)
    <2> SUFFICES ASSUME i.ok, NEW c \in Indexes
                 PROVE  i.index[c] = IF old[c] = new[c] THEN ix[c] ELSE With(ix, old, new, r, c)
      OBVIOUS
    <2>1. c < stop /\ ~(c > stop)
      BY <1>2, <1>3, <1>6
    <2> QED BY <1>7, <2>1
  <1>16. i.ok <=> \A c \in Indexes : CanChange(ix, old, new, c)
    BY <1>4, <1>5
  <1> QED BY <1>8, <1>13, <1>14, <1>15, <1>16 DEF i

-----------------------------------------------------------------------------
(* The engine's changes keep the types and the first index.                *)

Row == [tuple : Tuples, deleted : BOOLEAN]

Typed(h, ix) ==
    /\ h \in [DOMAIN h -> Row]
    /\ \A c \in Indexes : /\ DOMAIN ix[c] \subseteq Keys
                          /\ \A k \in DOMAIN ix[c] : ix[c][k] \in DOMAIN h

\* index c leads to live rows with the key
SoundIn(h, ix, c) == \A k \in DOMAIN ix[c] : IsLive(h, ix[c][k]) /\ h[ix[c][k]].tuple[c] = k

Good(h, ix) == Typed(h, ix) /\ (1 \in Indexes => SoundIn(h, ix, 1))

\* A change that succeeded found its row live, or not live for a restored one.
LEMMA LiveToChange ==
    ASSUME NEW r, NEW t
    PROVE  /\ UpdateInternal(r, t).ok => IsLive(heap, r)
           /\ DeleteInternal(r).ok => IsLive(heap, r)
           /\ RestoreInternal(r, t).ok => ~IsLive(heap, r)
  <1>1. Failed.ok = FALSE
    BY DEF Failed
  <1>2. ~IsLive(heap, r) => UpdateInternal(r, t) = Failed
    BY DEF UpdateInternal
  <1>3. ~IsLive(heap, r) => DeleteInternal(r) = Failed
    BY DEF DeleteInternal
  <1>4. IsLive(heap, r) => RestoreInternal(r, t) = Failed
    BY DEF RestoreInternal
  <1> QED BY <1>1, <1>2, <1>3, <1>4

\* What a tuple has in an indexed column is a key or null.
LEMMA KeysOfTuples ==
    ASSUME NEW t \in Tuples, NEW c \in Indexes, t[c] # Null
    PROVE  t[c] \in Keys
  BY DEF Tuples

\* InsertInternal and RestoreInternal: a row that is not live is stored under r.
LEMMA PutRowGood ==
    ASSUME Good(heap, index), NEW t \in Tuples, NEW r, ~IsLive(heap, r)
    PROVE  LET h == Put(heap, r, [tuple |-> t, deleted |-> FALSE])
           IN  /\ DOMAIN h = DOMAIN heap \cup {r}
               /\ Good(h, InsertIntoIndexes(index, t, r).index)
  <1> DEFINE row == [tuple |-> t, deleted |-> FALSE]
             h == Put(heap, r, row)
             ix == InsertIntoIndexes(index, t, r).index
  <1>1. /\ DOMAIN h = DOMAIN heap \cup {r} /\ h[r] = row
        /\ \A q \in DOMAIN heap \ {r} : h[q] = heap[q]
        /\ h = [q \in DOMAIN h |-> h[q]]
    BY DEF Put
  <1>2. \A c \in Indexes : \/ ix[c] = index[c]
                           \/ t[c] # Null /\ ix[c] = Put(index[c], t[c], r)
    BY InsertIntoFacts
  <1> HIDE DEF h, ix
  <1>3. h \in [DOMAIN h -> Row]
    <2>1. \A q \in DOMAIN h : h[q] \in Row
      <3>1. row \in Row BY DEF Row
      <3>2. \A q \in DOMAIN heap : heap[q] \in Row BY DEF Good, Typed
      <3> QED BY <1>1, <3>1, <3>2, Zenon
    <2> QED BY <1>1, <2>1
  <1>4. ASSUME NEW c \in Indexes
        PROVE  DOMAIN ix[c] \subseteq Keys /\ \A k \in DOMAIN ix[c] : ix[c][k] \in DOMAIN h
    <2>1. CASE ix[c] = index[c]
      BY <1>1, <2>1 DEF Good, Typed
    <2>2. CASE t[c] # Null /\ ix[c] = Put(index[c], t[c], r)
      <3>1. t[c] \in Keys BY <2>2, KeysOfTuples
      <3> QED BY <1>1, <2>2, <3>1 DEF Good, Typed, Put
    <2> QED BY <1>2, <2>1, <2>2
  <1>5. ASSUME 1 \in Indexes, NEW k \in DOMAIN ix[1]
        PROVE  IsLive(h, ix[1][k]) /\ h[ix[1][k]].tuple[1] = k
    <2>1. ASSUME k \in DOMAIN index[1], ix[1][k] = index[1][k]
          PROVE  IsLive(h, ix[1][k]) /\ h[ix[1][k]].tuple[1] = k
      <3>1. IsLive(heap, index[1][k]) /\ heap[index[1][k]].tuple[1] = k
        BY <1>5, <2>1 DEF Good, SoundIn
      <3>2. index[1][k] # r BY <3>1
      <3> QED BY <1>1, <2>1, <3>1, <3>2 DEF IsLive
    <2>2. CASE ix[1] = index[1]
      BY <1>5, <2>1, <2>2
    <2>3. CASE ix[1] = Put(index[1], t[1], r)
      <3>1. CASE k = t[1]
        <4>1. ix[1][k] = r BY <2>3, <3>1 DEF Put
        <4> QED BY <1>1, <3>1, <4>1 DEF IsLive
      <3>2. CASE k # t[1]
        <4>1. k \in DOMAIN index[1] /\ ix[1][k] = index[1][k]
          BY <1>5, <2>3, <3>2 DEF Put
        <4> QED BY <2>1, <4>1
      <3> QED BY <3>1, <3>2
    <2> QED BY <1>2, <1>5, <2>2, <2>3
  <1>6. Good(h, ix)
    BY <1>3, <1>4, <1>5 DEF Good, Typed, SoundIn
  <1> QED BY <1>1, <1>6 DEF h, ix

\* DeleteInternal keeps the first index sound, also when a later index fails.
LEMMA DeleteGood ==
    ASSUME Good(heap, index), NEW r \in DOMAIN heap
    PROVE  LET res == DeleteInternal(r)
           IN  res.ok \in BOOLEAN /\ DOMAIN res.heap = DOMAIN heap /\ Good(res.heap, res.index)
  <1>1. CASE ~IsLive(heap, r)
    BY <1>1 DEF DeleteInternal, Failed
  <1>2. CASE IsLive(heap, r)
    <2> DEFINE t == heap[r].tuple
               i == DeleteFromIndexes(index, t)
               ix == i.index
               h == IF i.ok THEN StoreDelete(r) ELSE heap
    <2>1. DeleteInternal(r) = [ok |-> i.ok, index |-> ix, heap |-> h]
      BY <1>2 DEF DeleteInternal
    <2>2. t \in Tuples
      BY DEF Good, Typed, Row
    <2>3. /\ i.ok \in BOOLEAN
          /\ \A c \in Indexes : ix[c] \in {index[c], Remove(index[c], t[c])}
          /\ i.ok => \A c \in Indexes : ix[c] = IF t[c] = Null THEN index[c] ELSE Remove(index[c], t[c])
      BY DeleteFromFacts
    <2> HIDE DEF i
    <2>4. /\ DOMAIN h = DOMAIN heap /\ h \in [DOMAIN h -> Row]
          /\ \A q \in DOMAIN heap \ {r} : h[q] = heap[q]
          /\ h[r].tuple = t
          /\ ~i.ok => h = heap
      <3>1. heap \in [DOMAIN heap -> Row] BY DEF Good, Typed
      <3>2. StoreDelete(r) \in [DOMAIN heap -> Row] /\ StoreDelete(r)[r].tuple = t
        BY <3>1, Zenon DEF StoreDelete, Row
      <3>3. \A q \in DOMAIN heap \ {r} : StoreDelete(r)[q] = heap[q]
        BY <3>1 DEF StoreDelete
      <3>4. DOMAIN StoreDelete(r) = DOMAIN heap BY <3>2
      <3> QED BY <3>1, <3>2, <3>3, <3>4
    <2>5. \A c \in Indexes : /\ DOMAIN ix[c] \subseteq DOMAIN index[c]
                             /\ \A k \in DOMAIN ix[c] : ix[c][k] = index[c][k]
      BY <2>3, Zenon DEF Remove
    <2> HIDE DEF h, ix
    <2>6. Typed(h, ix)
      BY <2>4, <2>5 DEF Good, Typed
    <2>7. ASSUME 1 \in Indexes, NEW k \in DOMAIN ix[1]
          PROVE  IsLive(h, ix[1][k]) /\ h[ix[1][k]].tuple[1] = k
      <3>1. /\ k \in DOMAIN index[1] /\ ix[1][k] = index[1][k]
            /\ IsLive(heap, index[1][k]) /\ heap[index[1][k]].tuple[1] = k
        BY <2>5, <2>7 DEF Good, SoundIn
      <3>2. CASE ~i.ok
        BY <2>4, <3>1, <3>2
      <3>3. CASE i.ok
        <4>1. index[1][k] # r
          <5>1. SUFFICES ASSUME index[1][k] = r PROVE FALSE
            OBVIOUS
          <5>2. k = t[1] /\ k \in Keys
            BY <2>7, <3>1, <5>1 DEF Good, Typed
          <5>3. k # Null BY <5>2, VersionedTableAssumption
          <5>4. ix[1] = Remove(index[1], k) BY <2>3, <2>7, <3>3, <5>2, <5>3
          <5> QED BY <2>7, <5>4 DEF Remove
        <4> QED BY <2>4, <3>1, <4>1 DEF IsLive
      <3> QED BY <3>2, <3>3
    <2>8. Good(h, ix)
      BY <2>6, <2>7 DEF Good, SoundIn
    <2> QED BY <2>1, <2>3, <2>4, <2>8
  <1> QED BY <1>1, <1>2

\* UpdateInternal keeps the first index sound, also when a key collides
\* midway.
LEMMA UpdateGood ==
    ASSUME Good(heap, index), NEW r \in DOMAIN heap, NEW new \in Tuples
    PROVE  LET res == UpdateInternal(r, new)
           IN  res.ok \in BOOLEAN /\ DOMAIN res.heap = DOMAIN heap /\ Good(res.heap, res.index)
  <1>1. CASE ~IsLive(heap, r)
    BY <1>1 DEF UpdateInternal, Failed
  <1>2. CASE IsLive(heap, r)
    <2> DEFINE old == heap[r].tuple
               i == UpdateIndexes(index, old, new, r)
               ix == i.index
               h == StoreUpdate(r, new)
    <2>1. UpdateInternal(r, new) = [ok |-> i.ok, index |-> ix, heap |-> h]
      BY <1>2 DEF UpdateInternal
    <2>2. old \in Tuples
      BY DEF Good, Typed, Row
    <2>3. /\ i.ok \in BOOLEAN
          /\ \A c \in Indexes : \/ ix[c] = index[c]
                                \/ ix[c] = Without(index, old, c)
                                \/ ix[c] = With(index, old, new, r, c)
          /\ 1 \in Indexes => \/ old[1] = new[1] /\ ix[1] = index[1]
                              \/ old[1] # Null /\ ~HasKey(index, old, 1) /\ ix[1] = index[1]
                              \/ ix[1] = Without(index, old, 1)
                              \/ ix[1] = With(index, old, new, r, 1)
      BY UpdateFacts
    <2> HIDE DEF i
    <2>4. /\ DOMAIN h = DOMAIN heap /\ h \in [DOMAIN h -> Row]
          /\ \A q \in DOMAIN heap \ {r} : h[q] = heap[q]
          /\ h[r].tuple = new /\ IsLive(h, r)
      <3>1. heap \in [DOMAIN heap -> Row] BY DEF Good, Typed
      <3>2. h \in [DOMAIN heap -> Row] /\ h[r].tuple = new /\ h[r].deleted = heap[r].deleted
        BY <3>1 DEF StoreUpdate, Row
      <3>3. \A q \in DOMAIN heap \ {r} : h[q] = heap[q]
        BY <3>1 DEF StoreUpdate
      <3>4. DOMAIN h = DOMAIN heap BY <3>2
      <3> HIDE DEF h
      <3> QED BY <1>2, <3>2, <3>3, <3>4 DEF IsLive
    <2>5. ASSUME NEW c \in Indexes
          PROVE  /\ DOMAIN Without(index, old, c) \subseteq DOMAIN index[c]
                 /\ \A k \in DOMAIN Without(index, old, c) : Without(index, old, c)[k] = index[c][k]
      BY DEF Without, Remove
    <2>6. ASSUME NEW c \in Indexes, NEW k \in DOMAIN With(index, old, new, r, c)
          PROVE  \/ k = new[c] /\ k # Null /\ With(index, old, new, r, c)[k] = r
                 \/ k \in DOMAIN Without(index, old, c) /\ With(index, old, new, r, c)[k] = Without(index, old, c)[k]
      BY <2>6 DEF With, Put
    <2> HIDE DEF h, ix
    <2>7. Typed(h, ix)
      <3>1. ASSUME NEW c \in Indexes, NEW k \in DOMAIN ix[c]
            PROVE  k \in Keys /\ ix[c][k] \in DOMAIN heap
        <4>1. CASE k \in DOMAIN index[c] /\ ix[c][k] = index[c][k]
          BY <3>1, <4>1 DEF Good, Typed
        <4>2. CASE k = new[c] /\ k # Null /\ ix[c][k] = r
          BY <3>1, <4>2, KeysOfTuples
        <4> QED BY <2>3, <2>5, <2>6, <3>1, <4>1, <4>2
      <3> QED BY <2>4, <3>1 DEF Typed
    <2>8. ASSUME 1 \in Indexes, NEW k \in DOMAIN ix[1]
          PROVE  IsLive(h, ix[1][k]) /\ h[ix[1][k]].tuple[1] = k
      <3>1. ASSUME k \in DOMAIN index[1], ix[1][k] = index[1][k], index[1][k] # r
            PROVE  IsLive(h, ix[1][k]) /\ h[ix[1][k]].tuple[1] = k
        <4>1. IsLive(heap, index[1][k]) /\ heap[index[1][k]].tuple[1] = k
          BY <2>8, <3>1 DEF Good, SoundIn
        <4> QED BY <2>4, <3>1, <4>1 DEF IsLive
      <3>2. ASSUME k \in DOMAIN index[1], index[1][k] = r
            PROVE  k = old[1] /\ k # Null
        <4>1. k = old[1] BY <2>8, <3>2 DEF Good, SoundIn
        <4>2. k \in Keys BY <2>8, <3>2 DEF Good, Typed
        <4> QED BY <4>1, <4>2, VersionedTableAssumption
      <3>3. CASE old[1] = new[1] /\ ix[1] = index[1]
        <4>1. CASE index[1][k] # r
          BY <2>8, <3>1, <3>3, <4>1
        <4>2. CASE index[1][k] = r
          BY <2>4, <2>8, <3>2, <3>3, <4>2
        <4> QED BY <4>1, <4>2
      <3>4. CASE old[1] # Null /\ ~HasKey(index, old, 1) /\ ix[1] = index[1]
        BY <2>8, <3>1, <3>2, <3>4 DEF HasKey
      <3>5. ASSUME k \in DOMAIN Without(index, old, 1), ix[1][k] = Without(index, old, 1)[k]
            PROVE  IsLive(h, ix[1][k]) /\ h[ix[1][k]].tuple[1] = k
        <4>1. k \in DOMAIN index[1] /\ ix[1][k] = index[1][k]
          BY <2>5, <2>8, <3>5
        <4>2. index[1][k] # r
          BY <3>2, <3>5, <4>1 DEF Without, Remove
        <4> QED BY <3>1, <4>1, <4>2
      <3>6. CASE ix[1] = Without(index, old, 1)
        BY <2>8, <3>5, <3>6
      <3>7. CASE ix[1] = With(index, old, new, r, 1)
        <4>1. CASE k = new[1] /\ ix[1][k] = r
          BY <2>4, <4>1
        <4> QED BY <2>6, <2>8, <3>5, <3>7, <4>1
      <3> QED BY <2>3, <2>8, <3>3, <3>4, <3>6, <3>7
    <2>9. Good(h, ix)
      BY <2>7, <2>8 DEF Good, SoundIn
    <2> QED BY <2>1, <2>3, <2>4, <2>9
  <1> QED BY <1>1, <1>2

-----------------------------------------------------------------------------
(* Type correctness and the first index.                                   *)

Records == [ts : Nat, op : {"Insert", "Update", "Delete"}, rid : Nat, before : Tuples \cup {NoTuple}]
Reverts == [active : BOOLEAN, to : Nat, left : Nat, whole : BOOLEAN]

\* TypeOK with what it takes to make it inductive: the before-images, and the
\* first index (an update leaves it sound only because it was).
Base ==
    /\ TypeOK
    /\ Good(heap, index)
    /\ IsFiniteSet(DOMAIN heap)
    /\ now \in Nat
    /\ log \in Seq(Records)
    /\ \A i \in DOMAIN log : log[i].op # "Insert" => log[i].before \in Tuples
    /\ revert \in Reverts

\* The rows stay numbered without gaps, whether a row is added or none.
RowsGrow(h) == DOMAIN h = DOMAIN heap \/ (DOMAIN h = DOMAIN heap \cup {NextRid} /\ NextRid < MaxRows)

\* The row store gives a new row an id that no row has.
LEMMA NextRidFresh == Base => NextRid \in Nat /\ NextRid \notin DOMAIN heap /\ DOMAIN heap \subseteq Nat
  <1> SUFFICES ASSUME Base PROVE NextRid \in Nat /\ NextRid \notin DOMAIN heap /\ DOMAIN heap \subseteq Nat
    OBVIOUS
  <1>1. NextRid \in Nat
    BY FS_CardinalityType DEF Base, NextRid
  <1>2. DOMAIN heap = 0..(NextRid - 1)
    BY DEF Base, TypeOK
  <1> QED BY <1>1, <1>2

\* Rows are numbered without gaps, and a change removes no row id.
LEMMA RowsStayNumbered ==
    ASSUME Base, RowsGrow(heap')
    PROVE  /\ DOMAIN heap' = 0..(NextRid' - 1) /\ NextRid' <= MaxRows
           /\ IsFiniteSet(DOMAIN heap') /\ DOMAIN heap \subseteq DOMAIN heap'
  <1>1. NextRid \in Nat /\ NextRid \notin DOMAIN heap
    BY NextRidFresh
  <1>2. /\ DOMAIN heap = 0..(NextRid - 1) /\ NextRid <= MaxRows /\ IsFiniteSet(DOMAIN heap)
        /\ MaxRows \in Nat
    BY VersionedTableAssumption DEF Base, TypeOK
  <1>3. CASE DOMAIN heap' = DOMAIN heap
    BY <1>2, <1>3 DEF NextRid
  <1>4. CASE DOMAIN heap' = DOMAIN heap \cup {NextRid} /\ NextRid < MaxRows
    <2>1. IsFiniteSet(DOMAIN heap') /\ Cardinality(DOMAIN heap') = NextRid + 1
      BY <1>1, <1>2, <1>4, FS_AddElement DEF NextRid
    <2>2. NextRid' = NextRid + 1
      BY <2>1 DEF NextRid
    <2>3. DOMAIN heap' = 0..NextRid
      BY <1>1, <1>2, <1>4
    <2> QED BY <1>1, <1>2, <1>4, <2>1, <2>2, <2>3
  <1> QED BY <1>3, <1>4 DEF RowsGrow

\* A statement keeps Base if its result and its record are sound.
LEMMA StatementBase ==
    ASSUME Base, NEW res, NEW record \in Records, Statement(res, record), Len(log) < MaxLog,
           res.ok \in BOOLEAN, Good(res.heap, res.index), RowsGrow(res.heap),
           record.rid \in DOMAIN res.heap, record.ts = now,
           record.op # "Insert" => record.before \in Tuples
    PROVE  Base'
  <1>1. /\ heap' = res.heap /\ index' = res.index /\ status' = res.ok
        /\ DOMAIN past' = DOMAIN past
        /\ now' = now /\ revert' = revert /\ beyond' = beyond
    BY DEF Statement, Apply
  <1>2. /\ DOMAIN heap' = 0..(NextRid' - 1) /\ NextRid' <= MaxRows
        /\ IsFiniteSet(DOMAIN heap') /\ DOMAIN heap \subseteq DOMAIN heap'
    BY <1>1, RowsStayNumbered DEF RowsGrow
  <1>3. Good(heap, index)'
    BY <1>1 DEF Good, Typed, SoundIn
  <1>4. since' \in 0..now' /\ failed' \in 0..MaxFailed
    <2>1. now \in 0..now /\ since \in 0..now /\ failed \in 0..MaxFailed /\ MaxFailed \in Nat
      BY VersionedTableAssumption DEF Base, TypeOK
    <2> QED BY <1>1, <2>1 DEF Statement
  <1>5. /\ log' \in Seq(Records) /\ Len(log') <= MaxLog /\ Len(log) <= Len(log')
        /\ \A i \in DOMAIN log' : /\ log'[i].op # "Insert" => log'[i].before \in Tuples
                                  /\ log'[i].rid \in DOMAIN heap' /\ log'[i].ts \in 0..now
    <2>1. /\ log \in Seq(Records) /\ Len(log) \in Nat /\ Len(log) < MaxLog /\ MaxLog \in Nat
          /\ now \in Nat /\ now \in 0..now
          /\ \A i \in DOMAIN log : /\ log[i].op # "Insert" => log[i].before \in Tuples
                                   /\ log[i].rid \in DOMAIN heap /\ log[i].ts \in 0..now
      BY VersionedTableAssumption DEF Base, TypeOK
    <2>2. CASE log' = log
      BY <1>2, <2>1, <2>2
    <2>3. CASE log' = Append(log, record)
      <3>1. /\ log' \in Seq(Records) /\ Len(log') = Len(log) + 1
            /\ \A i \in DOMAIN log' : i \in DOMAIN log \/ i = Len(log) + 1
            /\ \A i \in DOMAIN log : log'[i] = log[i]
            /\ log'[Len(log) + 1] = record
        BY <2>1, <2>3
      <3> QED BY <1>1, <1>2, <2>1, <3>1
    <2> QED BY <2>2, <2>3 DEF Statement
  <1>6. /\ revert'.to \in 0..now' /\ revert'.left \in 0..Len(log') /\ revert' \in Reverts
    <2>1. /\ revert.to \in 0..now /\ revert.left \in 0..Len(log) /\ revert \in Reverts
          /\ Len(log) \in Nat /\ Len(log') \in Nat
      BY <1>5 DEF Base, TypeOK
    <2> QED BY <1>1, <1>5, <2>1
  <1>7. TypeOK'
    BY <1>1, <1>2, <1>3, <1>4, <1>5, <1>6 DEF Base, TypeOK, Good, Typed, Row, Reverts
  <1> QED BY <1>1, <1>2, <1>3, <1>5, <1>6, <1>7 DEF Base

\* the changes of the engine, as the statements and RevertRecord call them
LEMMA EngineGood ==
    ASSUME Base, NEW t \in Tuples, NEW r \in DOMAIN heap
    PROVE  \A res \in {UpdateInternal(r, t), DeleteInternal(r), RestoreInternal(r, t)} :
               res.ok \in BOOLEAN /\ Good(res.heap, res.index) /\ DOMAIN res.heap = DOMAIN heap
  <1>1. Good(heap, index)
    BY DEF Base
  <1>2. LET res == RestoreInternal(r, t)
        IN  res.ok \in BOOLEAN /\ Good(res.heap, res.index) /\ DOMAIN res.heap = DOMAIN heap
    <2>1. CASE IsLive(heap, r)
      BY <1>1, <2>1 DEF RestoreInternal, Failed
    <2>2. CASE ~IsLive(heap, r)
      <3> DEFINE i == InsertIntoIndexes(index, t, r)
                 h == Put(heap, r, [tuple |-> t, deleted |-> FALSE])
      <3>1. RestoreInternal(r, t) = [ok |-> i.ok, index |-> i.index, heap |-> h]
        BY <2>2 DEF RestoreInternal, StoreRestore
      <3>2. i.ok \in BOOLEAN BY InsertIntoFacts
      <3>3. DOMAIN h = DOMAIN heap \cup {r} /\ Good(h, i.index)
        BY <1>1, <2>2, PutRowGood
      <3> HIDE DEF i, h
      <3> QED BY <3>1, <3>2, <3>3
    <2> QED BY <2>1, <2>2
  <1> QED BY <1>1, <1>2, UpdateGood, DeleteGood

\* InsertInternal keeps the first index sound, also when a later index
\* refuses the key.
LEMMA InsertGood ==
    ASSUME Base, NEW t \in Tuples
    PROVE  LET res == InsertInternal(t)
           IN  /\ res.ok \in BOOLEAN /\ Good(res.heap, res.index)
               /\ DOMAIN res.heap = DOMAIN heap \cup {NextRid}
  <1>1. Good(heap, index) /\ ~IsLive(heap, NextRid)
    BY NextRidFresh DEF Base, IsLive
  <1> QED BY <1>1, PutRowGood, InsertIntoFacts, Zenon DEF InsertInternal, StoreInsert

\* An empty table is sound.
LEMMA BaseInit == Init => Base
  <1> SUFFICES ASSUME Init PROVE Base
    OBVIOUS
  <1>1. /\ DOMAIN heap = {} /\ heap \in [{} -> Row]
        /\ \A c \in Indexes : DOMAIN index[c] = {}
    BY DEF Init
  <1>2. IsFiniteSet(DOMAIN heap) /\ NextRid = 0
    BY <1>1, FS_EmptySet DEF NextRid
  <1>3. DOMAIN heap = 0..(NextRid - 1)
    BY <1>1, <1>2
  <1>4. Good(heap, index)
    BY <1>1 DEF Good, Typed, SoundIn
  <1>5. log \in Seq(Records) /\ Len(log) = 0 /\ DOMAIN log = {}
    BY DEF Init
  <1>6. revert \in Reverts /\ revert.to = 0 /\ revert.left = 0 /\ revert.active = FALSE
    BY DEF Init, NoRevert, Reverts
  <1>7. /\ {MaxRows, MaxLog, MaxTime, MaxFailed, MaxBeyond} \subseteq Nat
        /\ now = 0 /\ DOMAIN past = {0} /\ since = 0 /\ failed = 0 /\ beyond = 0 /\ status = TRUE
    BY VersionedTableAssumption DEF Init
  <1>8. TypeOK
    <2>1. /\ 0..now = {0} /\ 0 \in 0..MaxFailed /\ 0 \in 0..MaxBeyond /\ 0 \in 0..Len(log)
          /\ 0 <= MaxRows /\ 0 <= MaxLog
      BY <1>5, <1>7
    <2>2. heap \in [DOMAIN heap -> [tuple : Tuples, deleted : BOOLEAN]]
      BY <1>1 DEF Row
    <2> QED BY <1>1, <1>2, <1>3, <1>5, <1>6, <1>7, <2>1, <2>2, Zenon DEF TypeOK
  <1> QED BY <1>2, <1>4, <1>5, <1>6, <1>7, <1>8 DEF Base

\* Insert, Update and Delete keep types and the first index, failing or not.
LEMMA StatementsBase ==
    ASSUME Base, \/ \E t \in Tuples : Insert(t)
                 \/ \E r \in DOMAIN heap, t \in Tuples : Update(r, t)
                 \/ \E r \in DOMAIN heap : Delete(r)
    PROVE  Base'
  <1>1. now \in Nat /\ NextRid \in Nat /\ DOMAIN heap \subseteq Nat
    BY NextRidFresh DEF Base
  <1>2. \A r \in DOMAIN heap : heap[r].tuple \in Tuples
    BY DEF Base, Good, Typed, Row
  <1>3. ASSUME NEW op \in {"Insert", "Update", "Delete"}, NEW r \in Nat, NEW b \in Tuples \cup {NoTuple}
        PROVE  /\ Record(op, r, b) \in Records
               /\ Record(op, r, b).ts = now /\ Record(op, r, b).rid = r
               /\ Record(op, r, b).op = op /\ Record(op, r, b).before = b
    BY <1>1 DEF Record, Records
  <1>4. ASSUME NEW t \in Tuples, Insert(t) PROVE Base'
    <2> DEFINE res == InsertInternal(t)
               record == Record("Insert", NextRid, NoTuple)
    <2>1. /\ record \in Records /\ record.ts = now /\ record.rid = NextRid /\ record.op = "Insert"
      BY <1>1, <1>3
    <2>2. res.ok \in BOOLEAN /\ Good(res.heap, res.index) /\ DOMAIN res.heap = DOMAIN heap \cup {NextRid}
      BY InsertGood
    <2>3. Statement(res, record) /\ Len(log) < MaxLog /\ NextRid < MaxRows
      BY <1>4 DEF Insert, MayWrite
    <2> HIDE DEF res, record
    <2>4. RowsGrow(res.heap) /\ record.rid \in DOMAIN res.heap
      BY <2>1, <2>2, <2>3 DEF RowsGrow
    <2> QED BY <2>1, <2>2, <2>3, <2>4, StatementBase
  <1>5. ASSUME NEW r \in DOMAIN heap, NEW t \in Tuples, Update(r, t) PROVE Base'
    <2> DEFINE res == UpdateInternal(r, t)
               record == Record("Update", r, heap[r].tuple)
    <2>1. /\ record \in Records /\ record.ts = now /\ record.rid = r /\ record.before \in Tuples
      BY <1>1, <1>2, <1>3
    <2>2. res.ok \in BOOLEAN /\ Good(res.heap, res.index) /\ DOMAIN res.heap = DOMAIN heap
      BY EngineGood
    <2>3. Statement(res, record) /\ Len(log) < MaxLog
      BY <1>5 DEF Update, MayWrite
    <2> HIDE DEF res, record
    <2>4. RowsGrow(res.heap) /\ record.rid \in DOMAIN res.heap
      BY <2>1, <2>2 DEF RowsGrow
    <2> QED BY <2>1, <2>2, <2>3, <2>4, StatementBase
  <1>6. ASSUME NEW r \in DOMAIN heap, Delete(r) PROVE Base'
    <2> DEFINE res == DeleteInternal(r)
               record == Record("Delete", r, heap[r].tuple)
    <2>1. /\ record \in Records /\ record.ts = now /\ record.rid = r /\ record.before \in Tuples
      BY <1>1, <1>2, <1>3
    <2>2. res.ok \in BOOLEAN /\ Good(res.heap, res.index) /\ DOMAIN res.heap = DOMAIN heap
      BY <1>2, EngineGood
    <2>3. Statement(res, record) /\ Len(log) < MaxLog
      BY <1>6 DEF Delete, MayWrite
    <2> HIDE DEF res, record
    <2>4. RowsGrow(res.heap) /\ record.rid \in DOMAIN res.heap
      BY <2>1, <2>2 DEF RowsGrow
    <2> QED BY <2>1, <2>2, <2>3, <2>4, StatementBase
  <1> QED BY <1>4, <1>5, <1>6

\* what undoing a record can result in
LEMMA InverseGood ==
    ASSUME Base, NEW record \in Records, record.rid \in DOMAIN heap,
           record.op # "Insert" => record.before \in Tuples
    PROVE  LET res == ApplyInverseRecord(record)
           IN  res.ok \in BOOLEAN /\ Good(res.heap, res.index) /\ DOMAIN res.heap = DOMAIN heap
  <1>1. CASE record.op = "Insert"
    <2>1. ApplyInverseRecord(record) = DeleteInternal(record.rid)
      BY <1>1 DEF ApplyInverseRecord
    <2> QED BY <2>1, DeleteGood DEF Base
  <1>2. CASE record.op = "Delete"
    <2>1. ApplyInverseRecord(record) = RestoreInternal(record.rid, record.before)
      BY <1>2 DEF ApplyInverseRecord
    <2> QED BY <1>2, <2>1, EngineGood
  <1>3. CASE record.op = "Update"
    <2>1. ApplyInverseRecord(record) = UpdateInternal(record.rid, record.before)
      BY <1>3 DEF ApplyInverseRecord
    <2> QED BY <1>3, <2>1, EngineGood
  <1> QED BY <1>1, <1>2, <1>3 DEF Records

\* The steps of a revert keep types and the first index, wherever it stops.
LEMMA RevertBase ==
    ASSUME Base, (\E to \in 0..now : RevertBegin(to)) \/ RevertRecord \/ RevertEnd
    PROVE  Base'
  <1>1. /\ now \in Nat /\ 0 \in 0..now /\ now \in 0..now /\ Len(log) \in Nat /\ log \in Seq(Records)
        /\ MaxBeyond \in Nat /\ 0 \in 0..Len(log) /\ Len(log) \in 0..Len(log)
    BY VersionedTableAssumption DEF Base
  <1>2. NoRevert \in Reverts /\ NoRevert.to = 0 /\ NoRevert.left = 0 /\ NoRevert.active = FALSE
    BY DEF NoRevert, Reverts
  <1>3. ASSUME NEW to \in 0..now, RevertBegin(to) PROVE Base'
    <2>1. since \in 0..now BY DEF Base, TypeOK
    <2>2. /\ revert' \in Reverts /\ revert'.to = to /\ revert'.left = Len(log)
          /\ revert'.active = TRUE
      BY <1>1, <1>3, <2>1 DEF RevertBegin, Reverts
    <2>3. beyond' \in 0..MaxBeyond
      BY <1>1, <1>3 DEF RevertBegin, Base, TypeOK
    <2>4. UNCHANGED <<heap, index, log, now, status, past, since, failed>>
      BY <1>3 DEF RevertBegin
    <2>5. TypeOK'
      BY <1>1, <2>2, <2>3, <2>4, Zenon DEF Base, TypeOK, NextRid
    <2> QED BY <2>2, <2>4, <2>5 DEF Base, Good, Typed, SoundIn, IsLive
  <1>4. CASE RevertEnd
    <2>1. revert' = NoRevert /\ status' = TRUE /\ UNCHANGED <<heap, index, log, now, past, since, failed, beyond>>
      BY <1>4 DEF RevertEnd
    <2>2. TypeOK'
      BY <1>1, <1>2, <2>1, Zenon DEF Base, TypeOK, NextRid
    <2> QED BY <1>2, <2>1, <2>2 DEF Base, Good, Typed, SoundIn, IsLive
  <1>5. CASE RevertRecord
    <2> DEFINE record == log[revert.left]
               res == ApplyInverseRecord(record)
    <2>1. /\ revert \in Reverts /\ revert.left \in 1..Len(log) /\ revert.to \in 0..now
          /\ revert.left - 1 \in 0..Len(log)
      BY <1>1, <1>5 DEF RevertRecord, Base, TypeOK, Reverts
    <2>2. /\ record \in Records /\ record.rid \in DOMAIN heap
          /\ record.op # "Insert" => record.before \in Tuples
      <3>1. /\ log \in Seq(Records)
            /\ \A i \in DOMAIN log : log[i].rid \in DOMAIN heap /\ (log[i].op # "Insert" => log[i].before \in Tuples)
        BY <1>1, Zenon DEF Base, TypeOK
      <3>2. revert.left \in 1..Len(log) /\ DOMAIN log = 1..Len(log)
        BY <2>1, <3>1
      <3> QED BY <3>1, <3>2
    <2>3. res.ok \in BOOLEAN /\ Good(res.heap, res.index) /\ DOMAIN res.heap = DOMAIN heap
      BY <2>2, InverseGood
    <2>4. /\ revert' \in Reverts /\ revert'.to \in 0..now /\ revert'.left \in 0..Len(log)
          /\ log' = log /\ now' = now /\ failed' = failed /\ beyond' = beyond
      <3>1. revert' \in {[revert EXCEPT !.left = @ - 1], NoRevert}
        BY <1>5 DEF RevertRecord
      <3>2. /\ [revert EXCEPT !.left = @ - 1] \in Reverts
            /\ [revert EXCEPT !.left = @ - 1].to = revert.to
            /\ [revert EXCEPT !.left = @ - 1].left = revert.left - 1
        BY <2>1 DEF Reverts
      <3> QED BY <1>1, <1>2, <1>5, <2>1, <3>1, <3>2, Zenon DEF RevertRecord
    <2> HIDE DEF record, res
    <2>5. CASE IsAfter(record, revert.to)
      <3>1. /\ heap' = res.heap /\ index' = res.index /\ status' = res.ok
            /\ DOMAIN past' = DOMAIN past /\ since' = now
        BY <1>5, <2>5 DEF RevertRecord, Apply, record, res
      <3>2. Good(heap, index)'
        BY <2>3, <3>1 DEF Good, Typed, SoundIn
      <3>3. DOMAIN heap' = DOMAIN heap /\ NextRid' = NextRid
        BY <2>3, <3>1 DEF NextRid
      <3>4. TypeOK'
        BY <1>1, <2>3, <2>4, <3>1, <3>2, <3>3, Zenon DEF Base, TypeOK, Good, Typed, Row, Reverts
      <3> QED BY <2>4, <3>2, <3>3, <3>4 DEF Base
    <2>6. CASE ~IsAfter(record, revert.to)
      <3>1. UNCHANGED <<heap, index, status, past, since>>
        BY <1>5, <2>6 DEF RevertRecord, record
      <3>2. TypeOK'
        BY <2>4, <3>1 DEF Base, TypeOK, NextRid, Reverts
      <3> QED BY <2>4, <3>1, <3>2 DEF Base, Good, Typed, SoundIn, IsLive
    <2> QED BY <2>5, <2>6
  <1> QED BY <1>3, <1>4, <1>5

\* Every step keeps types and the first index.
LEMMA BaseStep == Base /\ [Next]_vars => Base'
  <1> SUFFICES ASSUME Base, [Next]_vars PROVE Base'
    OBVIOUS
  <1>1. CASE Tick
    <2>1. /\ now \in Nat /\ now' = now + 1 /\ DOMAIN past' = DOMAIN past \cup {now + 1}
          /\ UNCHANGED <<heap, index, log, status, revert, since, failed, beyond>>
      BY <1>1 DEF Tick, Put, Base
    <2>2. DOMAIN past' = 0..now'
      BY <2>1 DEF Base, TypeOK
    <2>3. 0..now \subseteq 0..now'
      BY <2>1
    <2>4. TypeOK'
      BY <2>1, <2>2, <2>3 DEF Base, TypeOK, NextRid
    <2> QED BY <2>1, <2>4 DEF Base, Good, Typed, SoundIn, IsLive
  <1>2. CASE UNCHANGED vars
    <2>1. TypeOK' BY <1>2 DEF Base, TypeOK, vars, NextRid
    <2> QED BY <1>2, <2>1 DEF vars, Base, Good, Typed, SoundIn, IsLive
  <1> QED BY <1>1, <1>2, StatementsBase, RevertBase DEF Next

\* Types, row numbering and the first index of a table hold in every
\* reachable state.
THEOREM BaseInvariance == Spec => []Base
  BY BaseInit, BaseStep, PTL DEF Spec

\* For any number of indexes, keys and rows: whatever statements failed midway
\* and whatever reverts were applied to the outcome, the first index leads only
\* to live rows with the key that was looked up.
THEOREM FirstIndexAlwaysSound == Spec => []FirstIndexSound
  <1>1. Base => FirstIndexSound
    BY IndexedHeapAssumption DEF Base, FirstIndexSound, Good, SoundIn, Sound, Indexes
  <1> QED BY <1>1, BaseInvariance, PTL

-----------------------------------------------------------------------------
(* Undoing a record.  Whether it succeeds depends on the table and on the  *)
(* keys that the indexes have, not on the rows they lead to: this is what  *)
(* makes reverts immune to indexes that an earlier failure left wrong.     *)

Snap(h, ix) == [table |-> Table(h), keys |-> [c \in Indexes |-> DOMAIN ix[c]]]

KeysWith(K, v) == IF v = Null THEN K ELSE K \cup {v}

CanUndo(e, s) ==
    LET t == s.table[e.rid]
        b == e.before
    IN  CASE e.op = "Insert" -> /\ e.rid \in DOMAIN s.table
                                /\ \A c \in Indexes : t[c] # Null => t[c] \in s.keys[c]
          [] e.op = "Delete" -> /\ e.rid \notin DOMAIN s.table
                                /\ \A c \in Indexes : b[c] # Null => b[c] \notin s.keys[c]
          [] e.op = "Update" -> /\ e.rid \in DOMAIN s.table
                                /\ \A c \in Indexes : t[c] # b[c] =>
                                      /\ t[c] # Null => t[c] \in s.keys[c]
                                      /\ b[c] # Null => b[c] \notin s.keys[c]

Undone(e, s) ==
    LET t == s.table[e.rid]
        b == e.before
    IN  CASE e.op = "Insert" -> [table |-> Remove(s.table, e.rid),
                                 keys |-> [c \in Indexes |-> s.keys[c] \ {t[c]}]]
          [] e.op = "Delete" -> [table |-> Put(s.table, e.rid, b),
                                 keys |-> [c \in Indexes |-> KeysWith(s.keys[c], b[c])]]
          [] e.op = "Update" -> [table |-> Put(s.table, e.rid, b),
                                 keys |-> [c \in Indexes |-> IF t[c] = b[c] THEN s.keys[c]
                                                             ELSE KeysWith(s.keys[c] \ {t[c]}, b[c])]]

\* the table after a row is stored, changed or deleted
LEMMA TableChanges ==
    ASSUME Good(heap, index), NEW r, NEW t
    PROVE  /\ Table(Put(heap, r, [tuple |-> t, deleted |-> FALSE])) = Put(Table(heap), r, t)
           /\ IsLive(heap, r) => /\ Table(StoreUpdate(r, t)) = Put(Table(heap), r, t)
                                 /\ Table(StoreDelete(r)) = Remove(Table(heap), r)
  <1>1. heap \in [DOMAIN heap -> Row]
    BY DEF Good, Typed
  <1>2. Table(Put(heap, r, [tuple |-> t, deleted |-> FALSE])) = Put(Table(heap), r, t)
    <2> DEFINE h == Put(heap, r, [tuple |-> t, deleted |-> FALSE])
    <2>1. LiveRows(h) = LiveRows(heap) \cup {r}
      BY DEF LiveRows, IsLive, Put
    <2>2. \A q \in LiveRows(h) : h[q].tuple = IF q = r THEN t ELSE heap[q].tuple
      BY DEF LiveRows, IsLive, Put
    <2> HIDE DEF h
    <2>3. Table(h) = Put(Table(heap), r, t)
      BY <2>1, <2>2 DEF Table, Put
    <2> QED BY <2>3 DEF h
  <1>3. ASSUME IsLive(heap, r) PROVE Table(StoreUpdate(r, t)) = Put(Table(heap), r, t)
    <2> DEFINE h == StoreUpdate(r, t)
    <2>1. /\ DOMAIN h = DOMAIN heap
          /\ \A q \in DOMAIN heap : /\ h[q].deleted = heap[q].deleted
                                    /\ h[q].tuple = IF q = r THEN t ELSE heap[q].tuple
      BY <1>1 DEF StoreUpdate, Row
    <2> HIDE DEF h
    <2>2. LiveRows(h) = LiveRows(heap) /\ r \in LiveRows(heap)
      BY <1>3, <2>1 DEF LiveRows, IsLive
    <2>3. LiveRows(heap) \subseteq DOMAIN heap
      BY DEF LiveRows
    <2>4. Table(h) = Put(Table(heap), r, t)
      BY <2>1, <2>2, <2>3 DEF Table, Put
    <2> QED BY <2>4 DEF h
  <1>4. ASSUME IsLive(heap, r) PROVE Table(StoreDelete(r)) = Remove(Table(heap), r)
    <2> DEFINE h == StoreDelete(r)
    <2>1. /\ DOMAIN h = DOMAIN heap
          /\ \A q \in DOMAIN heap : /\ h[q].deleted = IF q = r THEN TRUE ELSE heap[q].deleted
                                    /\ h[q].tuple = heap[q].tuple
      BY <1>1 DEF StoreDelete, Row
    <2> HIDE DEF h
    <2>2. LiveRows(h) = LiveRows(heap) \ {r}
      BY <2>1, Zenon DEF LiveRows, IsLive
    <2>3. LiveRows(heap) \subseteq DOMAIN heap
      BY DEF LiveRows
    <2>4. Table(h) = Remove(Table(heap), r)
      BY <2>1, <2>2, <2>3, Zenon DEF Table, Remove
    <2> QED BY <2>4 DEF h
  <1> QED BY <1>2, <1>3, <1>4

\* the table as a function of the live rows
LEMMA TableFacts ==
    ASSUME NEW r
    PROVE  /\ DOMAIN Table(heap) = LiveRows(heap)
           /\ r \in DOMAIN Table(heap) <=> IsLive(heap, r)
           /\ IsLive(heap, r) => Table(heap)[r] = heap[r].tuple
  BY DEF Table, LiveRows, IsLive

\* the keys of the indexes after a change that succeeded
LEMMA InsertKeys ==
    ASSUME NEW t, NEW r, InsertIntoIndexes(index, t, r).ok, NEW c \in Indexes
    PROVE  /\ DOMAIN InsertIntoIndexes(index, t, r).index[c] = KeysWith(DOMAIN index[c], t[c])
           /\ t[c] # Null => t[c] \notin DOMAIN index[c]
  <1>1. InsertIntoIndexes(index, t, r).index[c] = IF t[c] = Null THEN index[c] ELSE Put(index[c], t[c], r)
    BY InsertIntoFacts
  <1>2. t[c] # Null => t[c] \notin DOMAIN index[c]
    BY InsertIntoFacts DEF HasKey
  <1> QED BY <1>1, <1>2 DEF KeysWith, Put

\* Deleting a row takes its keys out of the indexes, when it succeeds.
LEMMA DeleteKeys ==
    ASSUME NEW t, DeleteFromIndexes(index, t).ok, NEW c \in Indexes, Null \notin DOMAIN index[c]
    PROVE  /\ DOMAIN DeleteFromIndexes(index, t).index[c] = DOMAIN index[c] \ {t[c]}
           /\ t[c] # Null => t[c] \in DOMAIN index[c]
  <1>1. DeleteFromIndexes(index, t).index[c] = IF t[c] = Null THEN index[c] ELSE Remove(index[c], t[c])
    BY DeleteFromFacts
  <1>2. t[c] # Null => t[c] \in DOMAIN index[c]
    BY DeleteFromFacts DEF HasKey
  <1> QED BY <1>1, <1>2 DEF Remove

\* An UpdateIndexes that succeeds has changed every index.
LEMMA UpdateDone ==
    ASSUME NEW ix, NEW old, NEW new, NEW r, UpdateIndexes(ix, old, new, r).ok, NEW c \in Indexes
    PROVE  /\ UpdateIndexes(ix, old, new, r).index[c] =
                  IF old[c] = new[c] THEN ix[c] ELSE With(ix, old, new, r, c)
           /\ CanChange(ix, old, new, c)
  BY UpdateFacts

\* Updating a row exchanges its old keys for the new ones, when it succeeds.
LEMMA UpdateKeys ==
    ASSUME NEW old, NEW t, NEW r, UpdateIndexes(index, old, t, r).ok,
           NEW c \in Indexes, Null \notin DOMAIN index[c]
    PROVE  /\ DOMAIN UpdateIndexes(index, old, t, r).index[c] =
                  IF old[c] = t[c] THEN DOMAIN index[c] ELSE KeysWith(DOMAIN index[c] \ {old[c]}, t[c])
           /\ CanChange(index, old, t, c)
  <1>1. /\ UpdateIndexes(index, old, t, r).index[c] =
               IF old[c] = t[c] THEN index[c] ELSE With(index, old, t, r, c)
        /\ CanChange(index, old, t, c)
    BY UpdateDone
  <1>2. DOMAIN Without(index, old, c) = DOMAIN index[c] \ {old[c]}
    BY DEF Without, Remove
  <1>3. DOMAIN With(index, old, t, r, c) = KeysWith(DOMAIN index[c] \ {old[c]}, t[c])
    BY <1>2 DEF With, KeysWith, Put
  <1> QED BY <1>1, <1>3

\* Nulls are not indexed.
LEMMA NullIsNoKey == ASSUME Good(heap, index), NEW c \in Indexes PROVE Null \notin DOMAIN index[c]
  BY VersionedTableAssumption DEF Good, Typed

\* A record that can be undone is: RevertService's inverse of it succeeds.
LEMMA UndoSucceeds ==
    ASSUME Base, NEW e \in Records, e.op # "Insert" => e.before \in Tuples,
           CanUndo(e, Snap(heap, index))
    PROVE  LET res == ApplyInverseRecord(e)
           IN  res.ok /\ Snap(res.heap, res.index) = Undone(e, Snap(heap, index))
  <1> DEFINE s == Snap(heap, index)
             r == e.rid
             b == e.before
             old == heap[r].tuple
  <1>1. s.table = Table(heap) /\ s.keys = [c \in Indexes |-> DOMAIN index[c]]
    BY DEF Snap
  <1>2. /\ Good(heap, index)
        /\ \A q \in DOMAIN heap : heap[q].tuple \in Tuples
    BY DEF Base, Good, Typed, Row
  <1>3. /\ r \in DOMAIN Table(heap) <=> IsLive(heap, r)
        /\ IsLive(heap, r) => Table(heap)[r] = old
    BY TableFacts
  <1>4. CASE e.op = "Insert"
    <2> DEFINE i == DeleteFromIndexes(index, old)
    <2>1. IsLive(heap, r) /\ \A c \in Indexes : old[c] # Null => old[c] \in DOMAIN index[c]
      BY <1>1, <1>3, <1>4 DEF CanUndo
    <2>2. i.ok
      BY <2>1, DeleteFromFacts DEF HasKey
    <2>3. ApplyInverseRecord(e) = [ok |-> i.ok, index |-> i.index, heap |-> StoreDelete(r)]
      BY <1>4, <2>1, <2>2 DEF ApplyInverseRecord, DeleteInternal
    <2>4. Table(StoreDelete(r)) = Remove(Table(heap), r)
      BY <1>2, <2>1, TableChanges, Zenon
    <2>5. \A c \in Indexes : DOMAIN i.index[c] = DOMAIN index[c] \ {old[c]}
      BY <1>2, <2>2, DeleteKeys, NullIsNoKey
    <2>6. Undone(e, s) = [table |-> Remove(Table(heap), r),
                          keys |-> [c \in Indexes |-> DOMAIN index[c] \ {old[c]}]]
      BY <1>1, <1>3, <1>4, <2>1, Zenon DEF Undone
    <2> HIDE DEF i
    <2>7. Snap(StoreDelete(r), i.index) = Undone(e, s)
      BY <2>4, <2>5, <2>6, Zenon DEF Snap
    <2> QED BY <2>2, <2>3, <2>7
  <1>5. CASE e.op = "Delete"
    <2> DEFINE i == InsertIntoIndexes(index, b, r)
    <2>1. ~IsLive(heap, r) /\ \A c \in Indexes : b[c] # Null => b[c] \notin DOMAIN index[c]
      BY <1>1, <1>3, <1>5 DEF CanUndo
    <2>2. i.ok
      BY <2>1, InsertIntoFacts DEF HasKey
    <2>3. ApplyInverseRecord(e) = [ok |-> i.ok, index |-> i.index, heap |-> StoreRestore(r, b)]
      BY <1>5, <2>1 DEF ApplyInverseRecord, RestoreInternal
    <2>4. Table(StoreRestore(r, b)) = Put(Table(heap), r, b)
      BY <1>2, TableChanges DEF StoreRestore
    <2>5. \A c \in Indexes : DOMAIN i.index[c] = KeysWith(DOMAIN index[c], b[c])
      BY <2>2, InsertKeys
    <2>6. Undone(e, s) = [table |-> Put(Table(heap), r, b),
                          keys |-> [c \in Indexes |-> KeysWith(DOMAIN index[c], b[c])]]
      BY <1>1, <1>5 DEF Undone
    <2> HIDE DEF i
    <2>7. Snap(StoreRestore(r, b), i.index) = Undone(e, s)
      BY <2>4, <2>5, <2>6 DEF Snap
    <2> QED BY <2>2, <2>3, <2>7
  <1>6. CASE e.op = "Update"
    <2> DEFINE i == UpdateIndexes(index, old, b, r)
    <2>1. /\ IsLive(heap, r)
          /\ \A c \in Indexes : CanChange(index, old, b, c)
      BY <1>1, <1>3, <1>6 DEF CanUndo, CanChange, HasKey
    <2>2. i.ok
      BY <2>1, UpdateFacts
    <2>3. ApplyInverseRecord(e) = [ok |-> i.ok, index |-> i.index, heap |-> StoreUpdate(r, b)]
      BY <1>6, <2>1 DEF ApplyInverseRecord, UpdateInternal
    <2>4. Table(StoreUpdate(r, b)) = Put(Table(heap), r, b)
      BY <1>2, <2>1, TableChanges, Zenon
    <2>5. \A c \in Indexes : DOMAIN i.index[c] = IF old[c] = b[c] THEN DOMAIN index[c]
                                                 ELSE KeysWith(DOMAIN index[c] \ {old[c]}, b[c])
      <3> SUFFICES ASSUME NEW c \in Indexes
                   PROVE  DOMAIN i.index[c] = IF old[c] = b[c] THEN DOMAIN index[c]
                                              ELSE KeysWith(DOMAIN index[c] \ {old[c]}, b[c])
        OBVIOUS
      <3>1. Null \notin DOMAIN index[c]
        BY <1>2, NullIsNoKey
      <3>2. UpdateIndexes(index, old, b, r).ok
        BY <2>2
      <3>3. DOMAIN UpdateIndexes(index, old, b, r).index[c] =
                IF old[c] = b[c] THEN DOMAIN index[c] ELSE KeysWith(DOMAIN index[c] \ {old[c]}, b[c])
        <4> HIDE DEF old, b, r
        <4> QED BY <3>1, <3>2, UpdateKeys
      <3> QED BY <3>3
    <2>6. Undone(e, s) = [table |-> Put(Table(heap), r, b),
                          keys |-> [c \in Indexes |-> IF old[c] = b[c] THEN DOMAIN index[c]
                                                      ELSE KeysWith(DOMAIN index[c] \ {old[c]}, b[c])]]
      <3>1. s.table = Table(heap) /\ s.table[e.rid] = old
        BY <1>1, <1>3, <2>1
      <3>2. \A c \in Indexes : s.keys[c] = DOMAIN index[c]
        BY <1>1
      <3> HIDE DEF s, old
      <3> DEFINE t == s.table[e.rid]
                 U == [c \in Indexes |-> IF t[c] = b[c] THEN s.keys[c] ELSE KeysWith(s.keys[c] \ {t[c]}, b[c])]
      <3>3. Undone(e, s) = [table |-> Put(s.table, r, b), keys |-> U]
        BY <1>6 DEF Undone
      <3>4. U = [c \in Indexes |-> IF old[c] = b[c] THEN DOMAIN index[c] ELSE KeysWith(DOMAIN index[c] \ {old[c]}, b[c])]
        BY <3>1, <3>2
      <3> HIDE DEF U
      <3> QED BY <3>1, <3>3, <3>4
    <2> HIDE DEF i
    <2>7. Snap(StoreUpdate(r, b), i.index) = Undone(e, s)
      BY <2>4, <2>5, <2>6, Zenon DEF Snap
    <2> QED BY <2>2, <2>3, <2>7
  <1> QED BY <1>4, <1>5, <1>6 DEF Records

\* What a change did to the table and to the keys is undone exactly.
LEMMA PutRemoveInverse ==
    ASSUME NEW f, f = [x \in DOMAIN f |-> f[x]], NEW r, NEW v
    PROVE  /\ r \notin DOMAIN f => Remove(Put(f, r, v), r) = f
           /\ r \in DOMAIN f => Put(Remove(f, r), r, f[r]) = f /\ Put(Put(f, r, v), r, f[r]) = f
  BY DEF Put, Remove

\* A statement that succeeded can be undone, which leads back to the table and
\* the keys before it.
LEMMA InsertCanBeUndone ==
    ASSUME Base, NEW t \in Tuples, InsertInternal(t).ok
    PROVE  LET res == InsertInternal(t)
               e == Record("Insert", NextRid, NoTuple)
               s == Snap(res.heap, res.index)
           IN  CanUndo(e, s) /\ Undone(e, s) = Snap(heap, index)
  <1> DEFINE r == NextRid
             i == InsertIntoIndexes(index, t, r)
             h == StoreInsert(t)
             s == Snap(h, i.index)
             e == Record("Insert", r, NoTuple)
  <1>1. InsertInternal(t) = [ok |-> i.ok, index |-> i.index, heap |-> h] /\ i.ok
    BY DEF InsertInternal
  <1>2. Good(heap, index) /\ r \notin DOMAIN heap
    BY NextRidFresh DEF Base
  <1>3. Table(h) = Put(Table(heap), r, t)
    BY <1>2, TableChanges DEF StoreInsert
  <1>4. \A c \in Indexes : /\ DOMAIN i.index[c] = KeysWith(DOMAIN index[c], t[c])
                           /\ Null \notin DOMAIN index[c]
                           /\ t[c] # Null => t[c] \notin DOMAIN index[c]
    BY <1>1, <1>2, InsertKeys, NullIsNoKey
  <1>5. e.rid = r /\ e.op = "Insert"
    BY DEF Record
  <1> HIDE DEF i, h, e
  <1>6. s.table = Put(Table(heap), r, t) /\ s.keys = [c \in Indexes |-> KeysWith(DOMAIN index[c], t[c])]
    BY <1>3, <1>4 DEF Snap
  <1>7. r \in DOMAIN s.table /\ s.table[r] = t
    BY <1>6 DEF Put
  <1>8. CanUndo(e, s)
    BY <1>5, <1>6, <1>7 DEF CanUndo, KeysWith
  <1>9. Undone(e, s) = [table |-> Remove(Put(Table(heap), r, t), r),
                        keys |-> [c \in Indexes |-> KeysWith(DOMAIN index[c], t[c]) \ {t[c]}]]
    BY <1>5, <1>6, <1>7, Zenon DEF Undone
  <1>10. Remove(Put(Table(heap), r, t), r) = Table(heap)
    <2>1. r \notin DOMAIN Table(heap) /\ Table(heap) = [x \in DOMAIN Table(heap) |-> Table(heap)[x]]
      BY <1>2 DEF Table, LiveRows
    <2> QED BY <2>1, PutRemoveInverse
  <1>11. \A c \in Indexes : KeysWith(DOMAIN index[c], t[c]) \ {t[c]} = DOMAIN index[c]
    BY <1>4 DEF KeysWith
  <1>12. Undone(e, s) = Snap(heap, index)
    BY <1>9, <1>10, <1>11, Zenon DEF Snap
  <1> QED BY <1>1, <1>8, <1>12 DEF e

\* After an Update, putting the old tuple back succeeds and gives the table
\* and the keys of before.
LEMMA UpdateCanBeUndone ==
    ASSUME Base, NEW r \in DOMAIN heap, NEW t \in Tuples, UpdateInternal(r, t).ok
    PROVE  LET res == UpdateInternal(r, t)
               e == Record("Update", r, heap[r].tuple)
               s == Snap(res.heap, res.index)
           IN  CanUndo(e, s) /\ Undone(e, s) = Snap(heap, index)
  <1> DEFINE old == heap[r].tuple
             i == UpdateIndexes(index, old, t, r)
             h == StoreUpdate(r, t)
             s == Snap(h, i.index)
             e == Record("Update", r, old)
             K(c) == DOMAIN index[c]
             K2(c) == IF old[c] = t[c] THEN K(c) ELSE KeysWith(K(c) \ {old[c]}, t[c])
  <1>1. IsLive(heap, r)
    BY LiveToChange
  <1>2. UpdateInternal(r, t) = [ok |-> i.ok, index |-> i.index, heap |-> h] /\ i.ok
    BY <1>1 DEF UpdateInternal
  <1>3. Good(heap, index)
    BY DEF Base
  <1>4. Table(h) = Put(Table(heap), r, t)
    BY <1>1, <1>3, TableChanges, Zenon
  <1>5. ASSUME NEW c \in Indexes
        PROVE  DOMAIN i.index[c] = K2(c) /\ Null \notin K(c) /\ CanChange(index, old, t, c)
    <2>1. Null \notin DOMAIN index[c]
      BY <1>3, NullIsNoKey
    <2>2. i.ok
      BY <1>2
    <2>3. /\ DOMAIN UpdateIndexes(index, old, t, r).index[c] =
                 IF old[c] = t[c] THEN DOMAIN index[c] ELSE KeysWith(DOMAIN index[c] \ {old[c]}, t[c])
          /\ CanChange(index, old, t, c)
      <3> HIDE DEF old
      <3> QED BY <2>1, <2>2, UpdateKeys, Zenon
    <2> QED BY <2>1, <2>3
  <1>6. e.rid = r /\ e.op = "Update" /\ e.before = old
    BY DEF Record
  <1> HIDE DEF i, h, e
  <1>7. s.table = Put(Table(heap), r, t) /\ s.keys = [c \in Indexes |-> K2(c)]
    BY <1>4, <1>5 DEF Snap
  <1>8. r \in DOMAIN s.table /\ s.table[r] = t
    BY <1>7 DEF Put
  <1>9. CanUndo(e, s)
    <2>1. ASSUME NEW c \in Indexes, t[c] # old[c]
          PROVE  (t[c] # Null => t[c] \in s.keys[c]) /\ (old[c] # Null => old[c] \notin s.keys[c])
      <3>1. s.keys[c] = K2(c)
        BY <1>7
      <3>2. s.keys[c] = KeysWith(K(c) \ {old[c]}, t[c])
        BY <2>1, <3>1
      <3> HIDE DEF s, K, old
      <3> QED BY <2>1, <3>2 DEF KeysWith
    <2> QED BY <1>6, <1>8, <2>1 DEF CanUndo
  <1>10. Undone(e, s) = [table |-> Put(Put(Table(heap), r, t), r, old),
                         keys |-> [c \in Indexes |-> IF t[c] = old[c] THEN K2(c)
                                                     ELSE KeysWith(K2(c) \ {t[c]}, old[c])]]
    <2>1. \A c \in Indexes : s.keys[c] = K2(c)
      BY <1>7
    <2>2. s.table = Put(Table(heap), r, t)
      BY <1>7
    <2> HIDE DEF s, K2, old
    <2> DEFINE u == s.table[e.rid]
               b == e.before
               U == [c \in Indexes |-> IF u[c] = b[c] THEN s.keys[c] ELSE KeysWith(s.keys[c] \ {u[c]}, b[c])]
    <2>3. Undone(e, s) = [table |-> Put(s.table, e.rid, b), keys |-> U]
      BY <1>6 DEF Undone
    <2>4. U = [c \in Indexes |-> IF t[c] = old[c] THEN K2(c) ELSE KeysWith(K2(c) \ {t[c]}, old[c])]
      BY <1>6, <1>8, <2>1
    <2> HIDE DEF U
    <2> QED BY <1>6, <2>2, <2>3, <2>4
  <1>11. Put(Put(Table(heap), r, t), r, old) = Table(heap)
    <2>1. /\ r \in DOMAIN Table(heap) /\ Table(heap)[r] = old
          /\ Table(heap) = [x \in DOMAIN Table(heap) |-> Table(heap)[x]]
      BY <1>1 DEF Table, LiveRows, IsLive
    <2> QED BY <2>1, PutRemoveInverse
  <1>12. ASSUME NEW c \in Indexes
         PROVE  (IF t[c] = old[c] THEN K2(c) ELSE KeysWith(K2(c) \ {t[c]}, old[c])) = K(c)
    BY <1>5, Zenon DEF KeysWith, CanChange, HasKey
  <1>13. Undone(e, s) = Snap(heap, index)
    BY <1>10, <1>11, <1>12, Zenon DEF Snap
  <1> QED BY <1>2, <1>9, <1>13 DEF e

\* After a Delete, restoring the row succeeds and gives the table and the
\* keys of before.
LEMMA DeleteCanBeUndone ==
    ASSUME Base, NEW r \in DOMAIN heap, DeleteInternal(r).ok
    PROVE  LET res == DeleteInternal(r)
               e == Record("Delete", r, heap[r].tuple)
               s == Snap(res.heap, res.index)
           IN  CanUndo(e, s) /\ Undone(e, s) = Snap(heap, index)
  <1> DEFINE old == heap[r].tuple
             i == DeleteFromIndexes(index, old)
             h == StoreDelete(r)
             s == Snap(h, i.index)
             e == Record("Delete", r, old)
             K(c) == DOMAIN index[c]
  <1>1. IsLive(heap, r)
    BY LiveToChange
  <1>2. DeleteInternal(r) = [ok |-> i.ok, index |-> i.index, heap |-> h] /\ i.ok
    BY <1>1 DEF DeleteInternal
  <1>3. Good(heap, index)
    BY DEF Base
  <1>4. Table(h) = Remove(Table(heap), r)
    BY <1>1, <1>3, TableChanges, Zenon
  <1>5. \A c \in Indexes : /\ DOMAIN i.index[c] = K(c) \ {old[c]} /\ Null \notin K(c)
                           /\ old[c] # Null => old[c] \in K(c)
    BY <1>2, <1>3, DeleteKeys, NullIsNoKey
  <1>6. e.rid = r /\ e.op = "Delete" /\ e.before = old
    BY DEF Record
  <1> HIDE DEF i, h, e
  <1>7. s.table = Remove(Table(heap), r) /\ s.keys = [c \in Indexes |-> K(c) \ {old[c]}]
    BY <1>4, <1>5 DEF Snap
  <1>8. CanUndo(e, s)
    BY <1>6, <1>7 DEF CanUndo, Remove
  <1>9. Undone(e, s) = [table |-> Put(Remove(Table(heap), r), r, old),
                        keys |-> [c \in Indexes |-> KeysWith(K(c) \ {old[c]}, old[c])]]
    BY <1>6, <1>7, Zenon DEF Undone
  <1>10. Put(Remove(Table(heap), r), r, old) = Table(heap)
    <2>1. /\ r \in DOMAIN Table(heap) /\ Table(heap)[r] = old
          /\ Table(heap) = [x \in DOMAIN Table(heap) |-> Table(heap)[x]]
      BY <1>1 DEF Table, LiveRows, IsLive
    <2> QED BY <2>1, PutRemoveInverse
  <1>11. ASSUME NEW c \in Indexes PROVE KeysWith(K(c) \ {old[c]}, old[c]) = K(c)
    BY <1>5, Zenon DEF KeysWith
  <1>12. Undone(e, s) = Snap(heap, index)
    BY <1>9, <1>10, <1>11, Zenon DEF Snap
  <1> QED BY <1>2, <1>8, <1>12 DEF e

-----------------------------------------------------------------------------
(* The history behind the log.  There are snapshots T[0], ..., T[n] before *)
(* and after the n records of the log such that undoing record i leads     *)
(* from T[i] to T[i - 1], for the records since the last change that the   *)
(* log does not have; the last is the present, and where the records of a  *)
(* millisecond end T has the table of that millisecond.                    *)

Linked(lg, T, i) == CanUndo(lg[i], T[i]) /\ Undone(lg[i], T[i]) = T[i - 1]

\* of the first n records the first b are those up to time s
Boundary(lg, b, s, n) ==
    /\ \A j \in 1..b : lg[j].ts <= s
    /\ \A j \in (b + 1)..n : lg[j].ts > s

History(h, ix, lg, p, from, to) ==
    \E T : /\ \A i \in 1..Len(lg) : lg[i].ts > from => Linked(lg, T, i)
           /\ \A s \in from..to, b \in 0..Len(lg) : Boundary(lg, b, s, Len(lg)) => T[b].table = p[s]
           /\ T[Len(lg)] = Snap(h, ix)

HistoryNow == History(heap, index, log, past, since, now)

\* A revert that has not come to the end of what it has to undo is at a
\* snapshot of the history; afterwards the table is the one it is to restore.
RevertOn(h, ix, lg, p, rv) ==
    IF \A j \in 1..rv.left : lg[j].ts <= rv.to
    THEN Table(h) = p[rv.to]
    ELSE \E T : /\ \A i \in 1..rv.left : lg[i].ts > rv.to => Linked(lg, T, i)
                /\ \A b \in 0..rv.left : Boundary(lg, b, rv.to, rv.left) => T[b].table = p[rv.to]
                /\ T[rv.left] = Snap(h, ix)

\* The inductive invariant for reverts.
Inv ==
    /\ Base
    /\ \A i, j \in 1..Len(log) : i < j => log[i].ts <= log[j].ts
    /\ HistoryNow
    /\ revert.whole => revert.active /\ RevertOn(heap, index, log, past, revert)
    /\ revert.active /\ beyond = 0 => revert.whole

\* A history can begin anew at any moment.
LEMMA FreshHistory ==
    ASSUME NEW h, NEW ix, NEW lg \in Seq(Records), NEW p, NEW n \in Nat,
           \A j \in 1..Len(lg) : lg[j].ts <= n, p[n] = Table(h)
    PROVE  History(h, ix, lg, p, n, n)
  <1> DEFINE T == [i \in 0..Len(lg) |-> Snap(h, ix)]
  <1>1. Len(lg) \in Nat /\ \A j \in 1..Len(lg) : lg[j].ts \in Nat
    <2>1. \A j \in 1..Len(lg) : lg[j] \in Records OBVIOUS
    <2>2. \A e \in Records : e.ts \in Nat BY DEF Records
    <2> QED BY <2>1, <2>2
  <1>2. \A i \in 1..Len(lg) : lg[i].ts > n => Linked(lg, T, i)
    BY <1>1
  <1>3. \A i \in 0..Len(lg) : T[i] = Snap(h, ix) /\ T[i].table = Table(h)
    BY DEF Snap
  <1>4. \A s \in n..n : s = n
    BY <1>1
  <1>5. T[Len(lg)] = Snap(h, ix)
    BY <1>1, <1>3
  <1> HIDE DEF T
  <1>6. \A s \in n..n, b \in 0..Len(lg) : Boundary(lg, b, s, Len(lg)) => T[b].table = p[s]
    BY <1>3, <1>4
  <1> QED BY <1>2, <1>5, <1>6 DEF History

\* Timestamps are numbers up to the present.
LEMMA TimesAreNat ==
    Base => /\ log \in Seq(Records) /\ Len(log) \in Nat /\ now \in Nat /\ since \in Nat /\ since <= now
            /\ \A j \in 1..Len(log) : log[j] \in Records /\ log[j].ts \in Nat /\ log[j].ts <= now
  <1> SUFFICES ASSUME Base
               PROVE  /\ log \in Seq(Records) /\ Len(log) \in Nat /\ now \in Nat /\ since \in Nat /\ since <= now
                      /\ \A j \in 1..Len(log) : log[j] \in Records /\ log[j].ts \in Nat /\ log[j].ts <= now
    OBVIOUS
  <1>1. log \in Seq(Records) /\ now \in Nat /\ since \in 0..now
    BY DEF Base, TypeOK
  <1>2. \A j \in 1..Len(log) : log[j] \in Records /\ log[j].ts \in 0..now
    BY <1>1 DEF Base, TypeOK
  <1> QED BY <1>1, <1>2

\* A change that succeeded and was recorded extends the history.
LEMMA HistoryGrows ==
    ASSUME Base, HistoryNow, NEW h, NEW ix, NEW e \in Records, e.ts = now,
           CanUndo(e, Snap(h, ix)), Undone(e, Snap(h, ix)) = Snap(heap, index)
    PROVE  History(h, ix, Append(log, e), [past EXCEPT ![now] = Table(h)], since, now)
  <1> DEFINE n == Len(log)
             lg == Append(log, e)
             p == [past EXCEPT ![now] = Table(h)]
  <1>1. PICK T : /\ \A i \in 1..n : log[i].ts > since => Linked(log, T, i)
                 /\ \A s \in since..now, b \in 0..n : Boundary(log, b, s, n) => T[b].table = past[s]
                 /\ T[n] = Snap(heap, index)
    BY DEF HistoryNow, History
  <1>2. /\ n \in Nat /\ now \in Nat /\ since \in Nat /\ since <= now
        /\ \A j \in 1..n : log[j].ts \in Nat /\ log[j].ts <= now
    BY TimesAreNat
  <1>3. /\ Len(lg) = n + 1 /\ lg[n + 1] = e /\ \A i \in 1..n : lg[i] = log[i]
    BY TimesAreNat
  <1>4. /\ p[now] = Table(h) /\ \A s \in since..now : s # now => p[s] = past[s]
    <2>1. DOMAIN past = 0..now BY DEF Base, TypeOK
    <2> QED BY <1>2, <2>1
  <1> DEFINE U == [i \in 0..(n + 1) |-> IF i = n + 1 THEN Snap(h, ix) ELSE T[i]]
  <1>5. U[n + 1] = Snap(h, ix) /\ \A i \in 0..n : U[i] = T[i]
    BY <1>2
  <1> HIDE DEF lg, p, U, n
  <1>6. ASSUME NEW i \in 1..Len(lg), lg[i].ts > since PROVE Linked(lg, U, i)
    <2>1. CASE i = n + 1
      <3>1. lg[i] = e /\ U[i] = Snap(h, ix) /\ U[i - 1] = Snap(heap, index)
        <4>1. i - 1 = n /\ n \in 0..n BY <1>2, <2>1
        <4>2. U[n] = T[n] /\ T[n] = Snap(heap, index) BY <1>1, <1>5, <4>1
        <4> QED BY <1>3, <1>5, <2>1, <4>1, <4>2
      <3> QED BY <3>1 DEF Linked
    <2>2. CASE i \in 1..n
      <3>1. lg[i] = log[i] /\ U[i] = T[i] /\ U[i - 1] = T[i - 1]
        BY <1>2, <1>3, <1>5, <2>2
      <3>2. Linked(log, T, i)
        BY <1>1, <1>6, <2>2, <3>1
      <3> QED BY <3>1, <3>2 DEF Linked
    <2> QED BY <1>2, <1>3, <2>1, <2>2
  <1>7. ASSUME NEW s \in since..now, NEW b \in 0..Len(lg), Boundary(lg, b, s, Len(lg))
        PROVE  U[b].table = p[s]
    <2>1. s \in Nat /\ s <= now
      BY <1>2
    <2>2. CASE s = now
      <3>1. b = n + 1
        <4>1. SUFFICES ASSUME b # n + 1 PROVE FALSE
          OBVIOUS
        <4>2. n + 1 \in (b + 1)..Len(lg)
          BY <1>2, <1>3, <4>1
        <4>3. e.ts > s
          BY <1>3, <1>7, <4>2 DEF Boundary
        <4> QED BY <1>2, <2>2, <4>3
      <3> QED BY <1>4, <1>5, <2>2, <3>1 DEF Snap
    <2>3. CASE s # now
      <3>1. b \in 0..n
        <4>1. SUFFICES ASSUME b = n + 1 PROVE FALSE
          BY <1>2, <1>3
        <4>2. e.ts <= s
          BY <1>2, <1>3, <1>7, <4>1 DEF Boundary
        <4>3. e.ts = now /\ now \in Nat
          BY <1>2
        <4> QED BY <2>1, <2>3, <4>2, <4>3
      <3>2. Boundary(log, b, s, n)
        <4>1. (\A j \in 1..b : j \in 1..n /\ j \in 1..b) /\ \A j \in (b + 1)..n : j \in 1..n /\ j \in (b + 1)..Len(lg)
          BY <1>2, <1>3, <3>1
        <4> QED BY <1>3, <1>7, <4>1 DEF Boundary
      <3> QED BY <1>1, <1>4, <1>5, <2>3, <3>1, <3>2
    <2> QED BY <2>2, <2>3
  <1>8. U[Len(lg)] = Snap(h, ix)
    BY <1>3, <1>5
  <1>9. History(h, ix, lg, p, since, now)
    BY <1>6, <1>7, <1>8 DEF History
  <1> QED BY <1>9 DEF lg, p

\* The history begins with the empty table.
LEMMA InvInit == Init => Inv
  <1> SUFFICES ASSUME Init PROVE Inv
    OBVIOUS
  <1>1. Base
    BY BaseInit
  <1>2. log = <<>> /\ Len(log) = 0 /\ now = 0 /\ since = 0
    BY DEF Init
  <1>3. past[0] = Table(heap)
    <2>1. DOMAIN heap = {} BY DEF Init
    <2>2. LiveRows(heap) = {} BY <2>1 DEF LiveRows
    <2>3. Table(heap) = [r \in {} |-> NoTuple] BY <2>2 DEF Table
    <2> QED BY <2>3 DEF Init
  <1>4. HistoryNow
    <2>1. log \in Seq(Records) /\ 0 \in Nat /\ \A j \in 1..Len(log) : log[j].ts <= 0
      BY <1>2
    <2>2. History(heap, index, log, past, 0, 0)
      BY <1>3, <2>1, FreshHistory
    <2> QED BY <1>2, <2>2 DEF HistoryNow
  <1>5. revert.whole = FALSE /\ revert.active = FALSE
    BY DEF Init, NoRevert
  <1> QED BY <1>1, <1>2, <1>4, <1>5 DEF Inv

\* Record e undoes the change with result res, if it succeeded.
Undoes(e, res) ==
    /\ res.ok \in BOOLEAN
    /\ e \in Records /\ e.ts = now
    /\ res.ok => /\ CanUndo(e, Snap(res.heap, res.index))
                 /\ Undone(e, Snap(res.heap, res.index)) = Snap(heap, index)

\* A statement adds one link to the history, or begins it anew when it fails
\* midway.
LEMMA StatementInv ==
    ASSUME Inv, Base', MayWrite, NEW res, NEW e, Statement(res, e), Undoes(e, res)
    PROVE  Inv'
  <1>0. /\ res.ok \in BOOLEAN
        /\ e \in Records /\ e.ts = now
        /\ res.ok => /\ CanUndo(e, Snap(res.heap, res.index))
                     /\ Undone(e, Snap(res.heap, res.index)) = Snap(heap, index)
    BY DEF Undoes
  <1> USE <1>0
  <1>1. /\ heap' = res.heap /\ index' = res.index
        /\ past' = [past EXCEPT ![now] = Table(res.heap)]
        /\ now' = now /\ revert' = revert /\ beyond' = beyond
        /\ log' = IF res.ok THEN Append(log, e) ELSE log
    BY DEF Statement, Apply
  <1>2. Base /\ HistoryNow
    BY DEF Inv
  <1>3. /\ log \in Seq(Records) /\ Len(log) \in Nat /\ now \in Nat /\ since \in Nat /\ since <= now
        /\ \A j \in 1..Len(log) : log[j].ts \in Nat /\ log[j].ts <= now
    BY <1>2, TimesAreNat
  <1>4. revert.active = FALSE /\ revert.whole = FALSE
    <2>1. revert \in Reverts BY <1>2 DEF Base
    <2> QED BY <2>1 DEF Inv, MayWrite, Reverts
  <1>5. past'[now] = Table(heap') /\ \A s \in since..now : s # now => past'[s] = past[s]
    <2>1. DOMAIN past = 0..now BY <1>2 DEF Base, TypeOK
    <2> QED BY <1>1, <1>3, <2>1
  <1>6. HistoryNow'
    <2>1. CASE res.ok
      <3>1. since' = since
        BY <2>1 DEF Statement
      <3>2. History(res.heap, res.index, Append(log, e), [past EXCEPT ![now] = Table(res.heap)], since, now)
        BY <1>2, <2>1, HistoryGrows
      <3> QED BY <1>1, <2>1, <3>1, <3>2 DEF HistoryNow
    <2>2. CASE ~res.ok /\ res = Failed
      <3>1. since' = since /\ log' = log /\ heap' = heap /\ index' = index
        <4>1. since' = since
          BY <2>2, Zenon DEF Statement
        <4>2. log' = log
          BY <1>1, <2>2, Zenon
        <4>3. Failed.heap = heap /\ Failed.index = index
          BY DEF Failed
        <4> QED BY <1>1, <2>2, <4>1, <4>2, <4>3, Zenon
      <3>2. PICK T : /\ \A i \in 1..Len(log) : log[i].ts > since => Linked(log, T, i)
                     /\ \A s \in since..now, b \in 0..Len(log) : Boundary(log, b, s, Len(log)) => T[b].table = past[s]
                     /\ T[Len(log)] = Snap(heap, index)
        BY <1>2, Zenon DEF HistoryNow, History
      <3>3. ASSUME NEW s \in since..now, NEW b \in 0..Len(log), Boundary(log, b, s, Len(log))
            PROVE  T[b].table = past'[s]
        <4>1. CASE s # now
          BY <1>5, <3>2, <3>3, <4>1
        <4>2. CASE s = now
          <5>1. b = Len(log)
            <6>1. SUFFICES ASSUME b # Len(log) PROVE FALSE
              OBVIOUS
            <6>2. b + 1 \in (b + 1)..Len(log) /\ b + 1 \in 1..Len(log)
              BY <1>3, <6>1
            <6> QED BY <1>3, <3>3, <4>2, <6>2 DEF Boundary
          <5>2. T[b].table = Table(heap)
            <6>1. T[b] = Snap(heap, index)
              BY <3>2, <5>1
            <6>2. Snap(heap, index).table = Table(heap)
              BY DEF Snap
            <6> QED BY <6>1, <6>2
          <5>3. past'[s] = Table(heap')
            BY <1>5, <4>2
          <5> QED BY <3>1, <5>2, <5>3
        <4> QED BY <4>1, <4>2
      <3>4. History(heap, index, log, past', since, now)
        BY <3>2, <3>3 DEF History
      <3> QED BY <1>1, <3>1, <3>4 DEF HistoryNow
    <2>3. CASE ~res.ok /\ res # Failed
      <3>1. since' = now /\ log' = log
        BY <1>1, <2>3 DEF Statement
      <3>2. History(heap', index', log, past', now, now)
        BY <1>3, <1>5, FreshHistory
      <3> QED BY <1>1, <3>1, <3>2 DEF HistoryNow
    <2> QED BY <2>1, <2>2, <2>3
  <1>7. \A i, j \in 1..Len(log') : i < j => log'[i].ts <= log'[j].ts
    <2>1. \A i, j \in 1..Len(log) : i < j => log[i].ts <= log[j].ts
      BY DEF Inv
    <2>2. CASE log' = log
      BY <2>1, <2>2
    <2>3. CASE log' = Append(log, e)
      <3>1. /\ Len(log') = Len(log) + 1 /\ log'[Len(log) + 1] = e
            /\ \A i \in 1..Len(log) : log'[i] = log[i]
        BY <1>3, <2>3
      <3>2. ASSUME NEW i \in 1..Len(log'), NEW j \in 1..Len(log'), i < j PROVE log'[i].ts <= log'[j].ts
        <4>1. i \in 1..Len(log) /\ (j \in 1..Len(log) \/ j = Len(log) + 1)
          <5>1. Len(log) \in Nat /\ Len(log') = Len(log) + 1
            BY <1>3, <3>1
          <5> QED BY <3>2, <5>1
        <4> QED BY <1>3, <2>1, <3>1, <3>2, <4>1
      <3> QED BY <3>2
    <2> QED BY <1>1, <2>2, <2>3
  <1> QED BY <1>1, <1>4, <1>6, <1>7 DEF Inv

\* Insert, Update and Delete extend the history.
LEMMA StatementsInv ==
    ASSUME Inv, Base', \/ \E t \in Tuples : Insert(t)
                       \/ \E r \in DOMAIN heap, t \in Tuples : Update(r, t)
                       \/ \E r \in DOMAIN heap : Delete(r)
    PROVE  Inv'
  <1>1. Base /\ now \in Nat /\ NextRid \in Nat /\ DOMAIN heap \subseteq Nat
    BY NextRidFresh DEF Inv, Base
  <1>2. \A r \in DOMAIN heap : heap[r].tuple \in Tuples
    BY <1>1 DEF Base, Good, Typed, Row
  <1>3. ASSUME NEW op \in {"Insert", "Update", "Delete"}, NEW r \in Nat, NEW b \in Tuples \cup {NoTuple}
        PROVE  Record(op, r, b) \in Records /\ Record(op, r, b).ts = now
    BY <1>1 DEF Record, Records
  <1>4. ASSUME NEW t \in Tuples, Insert(t) PROVE Inv'
    <2>1. MayWrite /\ Statement(InsertInternal(t), Record("Insert", NextRid, NoTuple))
      BY <1>4 DEF Insert
    <2>2. InsertInternal(t).ok \in BOOLEAN
      BY <1>1, InsertGood
    <2>3. Record("Insert", NextRid, NoTuple) \in Records /\ Record("Insert", NextRid, NoTuple).ts = now
      BY <1>1, <1>3
    <2> DEFINE res == InsertInternal(t)
               e == Record("Insert", NextRid, NoTuple)
    <2>4. res.ok => CanUndo(e, Snap(res.heap, res.index)) /\ Undone(e, Snap(res.heap, res.index)) = Snap(heap, index)
      BY <1>1, InsertCanBeUndone
    <2>5. Undoes(e, res)
      BY <2>2, <2>3, <2>4 DEF Undoes
    <2>6. MayWrite /\ Statement(res, e)
      BY <2>1
    <2> HIDE DEF res, e
    <2> QED BY <2>5, <2>6, StatementInv
  <1>5. ASSUME NEW r \in DOMAIN heap, NEW t \in Tuples, Update(r, t) PROVE Inv'
    <2>1. MayWrite /\ Statement(UpdateInternal(r, t), Record("Update", r, heap[r].tuple))
      BY <1>5 DEF Update
    <2>2. UpdateInternal(r, t).ok \in BOOLEAN
      BY <1>1, EngineGood
    <2>3. Record("Update", r, heap[r].tuple) \in Records /\ Record("Update", r, heap[r].tuple).ts = now
      BY <1>1, <1>2, <1>3
    <2> DEFINE res == UpdateInternal(r, t)
               e == Record("Update", r, heap[r].tuple)
    <2>4. res.ok => CanUndo(e, Snap(res.heap, res.index)) /\ Undone(e, Snap(res.heap, res.index)) = Snap(heap, index)
      BY <1>1, UpdateCanBeUndone
    <2>5. Undoes(e, res)
      BY <2>2, <2>3, <2>4 DEF Undoes
    <2>6. MayWrite /\ Statement(res, e)
      BY <2>1
    <2> HIDE DEF res, e
    <2> QED BY <2>5, <2>6, StatementInv
  <1>6. ASSUME NEW r \in DOMAIN heap, Delete(r) PROVE Inv'
    <2>1. MayWrite /\ Statement(DeleteInternal(r), Record("Delete", r, heap[r].tuple))
      BY <1>6 DEF Delete
    <2>2. DeleteInternal(r).ok \in BOOLEAN
      BY <1>1, <1>2, EngineGood
    <2>3. Record("Delete", r, heap[r].tuple) \in Records /\ Record("Delete", r, heap[r].tuple).ts = now
      BY <1>1, <1>2, <1>3
    <2> DEFINE res == DeleteInternal(r)
               e == Record("Delete", r, heap[r].tuple)
    <2>4. res.ok => CanUndo(e, Snap(res.heap, res.index)) /\ Undone(e, Snap(res.heap, res.index)) = Snap(heap, index)
      BY <1>1, DeleteCanBeUndone
    <2>5. Undoes(e, res)
      BY <2>2, <2>3, <2>4 DEF Undoes
    <2>6. MayWrite /\ Statement(res, e)
      BY <2>1
    <2> HIDE DEF res, e
    <2> QED BY <2>5, <2>6, StatementInv
  <1> QED BY <1>4, <1>5, <1>6

\* A new millisecond begins with the table of the last.
LEMMA TickInv == ASSUME Inv, Base', Tick PROVE Inv'
  <1>1. /\ now' = now + 1 /\ past' = Put(past, now + 1, Table(heap)) /\ ~revert.active
        /\ UNCHANGED <<heap, index, log, status, revert, since, failed, beyond>>
    BY DEF Tick
  <1>2. Base /\ HistoryNow
    BY DEF Inv
  <1>3. /\ Len(log) \in Nat /\ now \in Nat /\ since \in Nat /\ since <= now
        /\ \A j \in 1..Len(log) : log[j].ts \in Nat /\ log[j].ts <= now
    BY <1>2, TimesAreNat
  <1>4. past'[now + 1] = Table(heap) /\ \A s \in since..now : past'[s] = past[s]
    <2>1. DOMAIN past = 0..now BY <1>2 DEF Base, TypeOK
    <2>2. \A s \in since..now : s \in DOMAIN past /\ s # now + 1 BY <1>3, <2>1
    <2> QED BY <1>1, <2>2 DEF Put
  <1>5. PICK T : /\ \A i \in 1..Len(log) : log[i].ts > since => Linked(log, T, i)
                 /\ \A s \in since..now, b \in 0..Len(log) : Boundary(log, b, s, Len(log)) => T[b].table = past[s]
                 /\ T[Len(log)] = Snap(heap, index)
    BY <1>2 DEF HistoryNow, History
  <1>6. ASSUME NEW s \in since..(now + 1), NEW b \in 0..Len(log), Boundary(log, b, s, Len(log))
        PROVE  T[b].table = past'[s]
    <2>1. CASE s = now + 1
      <3>1. b = Len(log)
        <4>1. SUFFICES ASSUME b # Len(log) PROVE FALSE
          OBVIOUS
        <4>2. b + 1 \in (b + 1)..Len(log) /\ b + 1 \in 1..Len(log)
          BY <1>3, <4>1
        <4>3. log[b + 1].ts > now + 1
          BY <1>6, <2>1, <4>2 DEF Boundary
        <4> QED BY <1>3, <4>2, <4>3
      <3> QED BY <1>4, <1>5, <2>1, <3>1 DEF Snap
    <2>2. CASE s # now + 1
      <3>1. s \in since..now BY <1>3, <2>2
      <3> QED BY <1>4, <1>5, <1>6, <3>1
    <2> QED BY <2>1, <2>2
  <1>7. History(heap, index, log, past', since, now + 1)
    BY <1>5, <1>6 DEF History
  <1> QED BY <1>1, <1>7 DEF Inv, HistoryNow

\* A revert begins at the newest end of the history.
LEMMA RevertBeginInv == ASSUME Inv, Base', NEW to \in 0..now, RevertBegin(to) PROVE Inv'
  <1>1. /\ revert' = [active |-> TRUE, to |-> to, left |-> Len(log), whole |-> to >= since]
        /\ UNCHANGED <<heap, index, log, now, status, past, since, failed>>
    BY DEF RevertBegin
  <1>2. revert'.to = to /\ revert'.left = Len(log) /\ revert'.active = TRUE /\ revert'.whole = (to >= since)
    BY <1>1
  <1>3. Base /\ HistoryNow
    BY DEF Inv
  <1>4. /\ Len(log) \in Nat /\ now \in Nat /\ since \in Nat /\ to \in Nat /\ to <= now
        /\ \A j \in 1..Len(log) : log[j].ts \in Nat
    BY <1>3, TimesAreNat
  <1>5. ASSUME to >= since PROVE RevertOn(heap, index, log, past, revert')
    <2>1. PICK T : /\ \A i \in 1..Len(log) : log[i].ts > since => Linked(log, T, i)
                   /\ \A s \in since..now, b \in 0..Len(log) : Boundary(log, b, s, Len(log)) => T[b].table = past[s]
                   /\ T[Len(log)] = Snap(heap, index)
      BY <1>3 DEF HistoryNow, History
    <2>2. to \in since..now
      BY <1>4, <1>5
    <2>3. CASE \A j \in 1..Len(log) : log[j].ts <= to
      <3>1. Boundary(log, Len(log), to, Len(log))
        BY <1>4, <2>3 DEF Boundary
      <3>2. T[Len(log)].table = past[to]
        <4>1. Len(log) \in 0..Len(log)
          BY <1>4
        <4> QED BY <2>1, <2>2, <3>1, <4>1
      <3>3. Table(heap) = past[to]
        BY <2>1, <3>2 DEF Snap
      <3> QED BY <1>2, <2>3, <3>3 DEF RevertOn
    <2>4. CASE ~\A j \in 1..Len(log) : log[j].ts <= to
      <3>1. ASSUME NEW i \in 1..Len(log), log[i].ts > to PROVE Linked(log, T, i)
        <4>1. log[i].ts \in Nat /\ to \in Nat /\ since \in Nat
          BY <1>4
        <4>2. log[i].ts > since
          BY <1>5, <3>1, <4>1
        <4> QED BY <2>1, <4>2
      <3>2. \A b \in 0..Len(log) : Boundary(log, b, to, Len(log)) => T[b].table = past[to]
        BY <2>1, <2>2
      <3> QED BY <1>2, <2>1, <2>4, <3>1, <3>2 DEF RevertOn
    <2> QED BY <2>3, <2>4
  <1>6. beyond' = 0 => to >= since
    <2>1. beyond \in Nat BY <1>3, VersionedTableAssumption DEF Base, TypeOK
    <2> QED BY <2>1 DEF RevertBegin
  <1>7. HistoryNow'
    BY <1>1, <1>3 DEF HistoryNow
  <1>8. revert'.whole => RevertOn(heap', index', log', past', revert')
    BY <1>1, <1>2, <1>5, Zenon
  <1> QED BY <1>1, <1>2, <1>6, <1>7, <1>8, Zenon DEF Inv

\* The step of a revert over logged changes: it succeeds.
LEMMA UndoStep ==
    ASSUME Inv, RevertRecord, revert.whole, IsAfter(log[revert.left], revert.to)
    PROVE  LET res == ApplyInverseRecord(log[revert.left])
               p == [past EXCEPT ![now] = Table(res.heap)]
           IN  res.ok /\ RevertOn(res.heap, res.index, log, p, [revert EXCEPT !.left = @ - 1])
  <1> DEFINE n == revert.left
             to == revert.to
             e == log[n]
             res == ApplyInverseRecord(e)
             p == [past EXCEPT ![now] = Table(res.heap)]
             rv == [revert EXCEPT !.left = @ - 1]
  <1>1. Base /\ RevertOn(heap, index, log, past, revert)
    BY DEF Inv
  <1>2. /\ Len(log) \in Nat /\ now \in Nat
        /\ \A j \in 1..Len(log) : log[j] \in Records /\ log[j].ts \in Nat /\ log[j].ts <= now
    BY <1>1, TimesAreNat
  <1>3. n \in 1..Len(log) /\ n \in Nat /\ to \in Nat /\ revert \in Reverts
    BY <1>1, <1>2 DEF RevertRecord, Base, TypeOK, Reverts
  <1>4. e.ts > to /\ to < now /\ e \in Records /\ (e.op # "Insert" => e.before \in Tuples)
    <2>1. e.ts > to BY DEF IsAfter
    <2>2. e \in Records /\ e.ts \in Nat /\ e.ts <= now BY <1>2, <1>3
    <2>3. n \in DOMAIN log BY <1>1, <1>3 DEF Base
    <2>4. e.op # "Insert" => e.before \in Tuples BY <1>1, <2>3 DEF Base
    <2> QED BY <1>2, <1>3, <2>1, <2>2, <2>4
  <1>5. rv.left = n - 1 /\ rv.to = to
    BY <1>3 DEF Reverts
  <1>6. p[to] = past[to]
    <2>1. to # now BY <1>2, <1>3, <1>4
    <2>2. DOMAIN past = 0..now BY <1>1 DEF Base, TypeOK
    <2>3. to \in DOMAIN past BY <1>2, <1>3, <1>4, <2>2
    <2> QED BY <2>1, <2>3
  <1>7. PICK T : /\ \A i \in 1..n : log[i].ts > to => Linked(log, T, i)
                 /\ \A b \in 0..n : Boundary(log, b, to, n) => T[b].table = past[to]
                 /\ T[n] = Snap(heap, index)
    <2>1. ~\A j \in 1..n : log[j].ts <= to
      <3>1. n \in 1..n BY <1>3
      <3>2. ~(log[n].ts <= to)
        <4>1. log[n].ts \in Nat BY <1>2, <1>3
        <4> QED BY <1>3, <1>4, <4>1
      <3> QED BY <3>1, <3>2
    <2> QED BY <1>1, <2>1 DEF RevertOn
  <1>8. CanUndo(e, Snap(heap, index)) /\ Undone(e, Snap(heap, index)) = T[n - 1]
    <2>1. Linked(log, T, n)
      <3>1. n \in 1..n BY <1>3
      <3>2. log[n].ts > to BY <1>4
      <3> QED BY <1>7, <3>1, <3>2
    <2> QED BY <1>7, <2>1 DEF Linked
  <1>9. res.ok /\ Snap(res.heap, res.index) = T[n - 1]
    BY <1>1, <1>4, <1>8, UndoSucceeds
  <1> HIDE DEF res, p, rv
  <1>10. ASSUME NEW b \in 0..(n - 1), Boundary(log, b, to, n - 1) PROVE T[b].table = p[to]
    <2>1. Boundary(log, b, to, n)
      <3>1. \A j \in (b + 1)..n : j = n \/ j \in (b + 1)..(n - 1) BY <1>3
      <3> QED BY <1>4, <1>10, <3>1 DEF Boundary
    <2>2. b \in 0..n BY <1>3
    <2> QED BY <1>6, <1>7, <2>1, <2>2
  <1>11. RevertOn(res.heap, res.index, log, p, rv)
    <2>1. CASE \A j \in 1..(n - 1) : log[j].ts <= to
      <3>1. Boundary(log, n - 1, to, n - 1)
        BY <1>3, <2>1 DEF Boundary
      <3>2. T[n - 1].table = p[to]
        BY <1>3, <1>10, <3>1
      <3>3. Table(res.heap) = T[n - 1].table
        BY <1>9 DEF Snap
      <3> QED BY <1>5, <2>1, <3>2, <3>3 DEF RevertOn
    <2>2. CASE ~\A j \in 1..(n - 1) : log[j].ts <= to
      <3>1. \A i \in 1..(n - 1) : log[i].ts > to => Linked(log, T, i)
        BY <1>3, <1>7
      <3> QED BY <1>5, <1>9, <1>10, <2>2, <3>1 DEF RevertOn
    <2> QED BY <2>1, <2>2
  <1> QED BY <1>9, <1>11 DEF res, p, rv

\* Undoing a record goes back one link of the history.
LEMMA RevertRecordInv == ASSUME Inv, Base', RevertRecord PROVE Inv'
  <1> DEFINE record == log[revert.left]
             res == ApplyInverseRecord(record)
             rv == [revert EXCEPT !.left = @ - 1]
  <1>1. Base /\ HistoryNow /\ log' = log /\ now' = now /\ beyond' = beyond
    BY DEF Inv, RevertRecord
  <1>2. /\ log \in Seq(Records) /\ Len(log) \in Nat /\ now \in Nat
        /\ \A j \in 1..Len(log) : log[j].ts \in Nat /\ log[j].ts <= now
    BY <1>1, TimesAreNat
  <1>3. /\ revert.left \in 1..Len(log) /\ revert.to \in Nat /\ revert.active = TRUE
        /\ rv.left = revert.left - 1 /\ rv.to = revert.to
        /\ rv.active = revert.active /\ rv.whole = revert.whole
    <2>1. revert \in Reverts /\ revert.left \in 0..Len(log) /\ revert.left > 0 /\ revert.active
      BY <1>1 DEF RevertRecord, Base, TypeOK
    <2>2. revert.left \in 1..Len(log)
      BY <1>2, <2>1
    <2>3. revert.to \in Nat /\ revert.active = TRUE
      BY <2>1 DEF Reverts
    <2>4. /\ rv.left = revert.left - 1 /\ rv.to = revert.to
          /\ rv.active = revert.active /\ rv.whole = revert.whole
      BY <2>1, Zenon DEF Reverts
    <2> QED BY <2>2, <2>3, <2>4
  <1>4. NoRevert.whole = FALSE /\ NoRevert.active = FALSE
    BY DEF NoRevert
  <1>5. CASE IsAfter(record, revert.to)
    <2>1. /\ heap' = res.heap /\ index' = res.index /\ since' = now
          /\ past' = [past EXCEPT ![now] = Table(res.heap)]
          /\ revert' = IF res.ok THEN rv ELSE NoRevert
      BY <1>5 DEF RevertRecord, Apply
    <2>2. HistoryNow'
      <3>1. past'[now] = Table(heap')
        <4>1. now \in DOMAIN past BY <1>1, <1>2 DEF Base, TypeOK
        <4> QED BY <2>1, <4>1
      <3>2. History(heap', index', log, past', now, now)
        BY <1>2, <3>1, FreshHistory
      <3> QED BY <1>1, <2>1, <3>2 DEF HistoryNow
    <2>3. revert.whole => revert' = rv /\ RevertOn(heap', index', log, past', rv)
      BY <1>5, <2>1, UndoStep
    <2>4. revert'.whole => revert'.active /\ RevertOn(heap', index', log', past', revert')
      BY <1>1, <1>3, <1>4, <2>1, <2>3
    <2>5. revert'.active /\ beyond' = 0 => revert'.whole
      BY <1>1, <1>3, <1>4, <2>1 DEF Inv
    <2> HIDE DEF res, rv
    <2> QED BY <1>1, <2>2, <2>4, <2>5 DEF Inv
  <1>6. CASE ~IsAfter(record, revert.to)
    <2>1. UNCHANGED <<heap, index, past, since>> /\ revert' = rv
      BY <1>6 DEF RevertRecord
    <2>2. ASSUME revert.whole PROVE RevertOn(heap, index, log, past, rv)
      <3>1. \A j \in 1..revert.left : log[j].ts <= revert.to
        <4>1. log[revert.left].ts <= revert.to
          BY <1>2, <1>3, <1>6 DEF IsAfter
        <4>2. ASSUME NEW j \in 1..revert.left PROVE log[j].ts <= revert.to
          <5>1. CASE j = revert.left BY <4>1, <5>1
          <5>2. CASE j # revert.left
            <6>1. j \in 1..Len(log) /\ j < revert.left BY <1>2, <1>3, <5>2
            <6>2. log[j].ts <= log[revert.left].ts BY <1>3, <6>1 DEF Inv
            <6> QED BY <1>2, <1>3, <4>1, <6>1, <6>2
          <5> QED BY <5>1, <5>2
        <4> QED BY <4>2
      <3>2. Table(heap) = past[revert.to]
        BY <2>2, <3>1 DEF Inv, RevertOn
      <3>3. \A j \in 1..rv.left : j \in 1..revert.left
        BY <1>2, <1>3
      <3> QED BY <1>3, <3>1, <3>2, <3>3 DEF RevertOn
    <2> HIDE DEF rv
    <2>3. HistoryNow'
      BY <1>1, <2>1 DEF HistoryNow
    <2>4. revert'.whole => revert'.active /\ RevertOn(heap', index', log', past', revert')
      BY <1>1, <1>3, <2>1, <2>2
    <2>5. revert'.active /\ beyond' = 0 => revert'.whole
      BY <1>1, <1>3, <2>1 DEF Inv
    <2> QED BY <1>1, <2>1, <2>3, <2>4, <2>5 DEF Inv
  <1> QED BY <1>5, <1>6

\* Every step keeps the history.
LEMMA InvStep == Inv /\ [Next]_vars => Inv'
  <1> SUFFICES ASSUME Inv, [Next]_vars PROVE Inv'
    OBVIOUS
  <1>1. Base'
    BY BaseStep DEF Inv
  <1>2. CASE RevertEnd
    <2>1. revert' = NoRevert /\ UNCHANGED <<heap, index, log, now, past, since, beyond>>
      BY <1>2 DEF RevertEnd
    <2>2. revert'.whole = FALSE /\ revert'.active = FALSE
      BY <2>1 DEF NoRevert
    <2> QED BY <1>1, <2>1, <2>2 DEF Inv, HistoryNow
  <1>3. CASE UNCHANGED vars
    BY <1>1, <1>3 DEF Inv, HistoryNow, vars
  <1> QED BY <1>1, <1>2, <1>3, TickInv, StatementsInv, RevertBeginInv, RevertRecordInv DEF Next

\* In every reachable state the log is a chain of changes that can be undone
\* one after the other from the present table, back to the moment after which
\* every change is logged; and a running revert is at one of its links.
THEOREM HistoryInvariance == Spec => []Inv
  BY InvInit, InvStep, PTL DEF Spec

\* For any number of indexes, keys, rows and changes, and whatever statements
\* failed midway before: a revert to a moment since which every change is in
\* the log succeeds and restores the table of that moment.
THEOREM RevertAlwaysRestores == Spec => RevertRestores
  <1> DEFINE Restores == revert.whole /\ ~revert'.active => status' /\ Table(heap') = past[revert.to]
  <1>1. Inv /\ [Next]_vars => [Restores]_vars
    <2> SUFFICES ASSUME Inv, Next, revert.whole, ~revert'.active
                 PROVE  status' /\ Table(heap') = past[revert.to]
      OBVIOUS
    <2>1. revert.active /\ RevertOn(heap, index, log, past, revert)
      BY DEF Inv
    <2>2. CASE RevertEnd
      <3>1. status' /\ heap' = heap /\ revert.left = 0
        BY <2>2 DEF RevertEnd
      <3>2. \A j \in 1..revert.left : log[j].ts <= revert.to
        BY <3>1
      <3> QED BY <2>1, <3>1, <3>2 DEF RevertOn
    <2>3. CASE RevertRecord
      <3>1. [revert EXCEPT !.left = @ - 1].active = revert.active
        BY DEF Inv, Base, Reverts
      <3>2. revert' = [revert EXCEPT !.left = @ - 1]
        <4>1. CASE IsAfter(log[revert.left], revert.to)
          <5>1. ApplyInverseRecord(log[revert.left]).ok BY <2>3, <4>1, UndoStep
          <5> QED BY <2>3, <4>1, <5>1 DEF RevertRecord
        <4>2. CASE ~IsAfter(log[revert.left], revert.to)
          BY <2>3, <4>2 DEF RevertRecord
        <4> QED BY <4>1, <4>2
      <3> QED BY <2>1, <3>1, <3>2
    <2>4. CASE Tick \/ (\E t \in Tuples : Insert(t)) \/ (\E r \in DOMAIN heap, t \in Tuples : Update(r, t))
               \/ (\E r \in DOMAIN heap : Delete(r)) \/ (\E to \in 0..now : RevertBegin(to))
      BY <2>1, <2>4 DEF Tick, Insert, Update, Delete, RevertBegin, MayWrite
    <2> QED BY <2>2, <2>3, <2>4 DEF Next
  <1>2. Spec => [][Restores]_vars
    BY <1>1, HistoryInvariance, PTL DEF Spec
  <1> QED BY <1>2 DEF RevertRestores

-----------------------------------------------------------------------------
(* All indexes.                                                            *)

\* index c has the live rows whose key is not NULL
CompleteIn(h, ix, c) ==
    \A r \in LiveRows(h) : h[r].tuple[c] # Null => /\ h[r].tuple[c] \in DOMAIN ix[c]
                                                   /\ ix[c][h[r].tuple[c]] = r

InStep(h, ix) == \A c \in Indexes : SoundIn(h, ix, c) /\ CompleteIn(h, ix, c)

\* A row stored with all its keys inserted, where r was not live.
LEMMA PutRowInStep ==
    ASSUME Good(heap, index), InStep(heap, index), NEW t \in Tuples, NEW r, ~IsLive(heap, r),
           InsertIntoIndexes(index, t, r).ok
    PROVE  InStep(Put(heap, r, [tuple |-> t, deleted |-> FALSE]), InsertIntoIndexes(index, t, r).index)
  <1> DEFINE h == Put(heap, r, [tuple |-> t, deleted |-> FALSE])
             ix == InsertIntoIndexes(index, t, r).index
  <1>1. /\ IsLive(h, r) /\ h[r].tuple = t
        /\ \A q : q # r => (IsLive(h, q) <=> IsLive(heap, q)) /\ (IsLive(heap, q) => h[q] = heap[q])
    BY DEF IsLive, Put
  <1>2. \A c \in Indexes : ix[c] = IF t[c] = Null THEN index[c] ELSE Put(index[c], t[c], r)
    BY InsertIntoFacts
  <1>3. \A c \in Indexes : t[c] # Null => t[c] \notin DOMAIN index[c]
    BY InsertKeys
  <1> HIDE DEF h, ix
  <1>4. SUFFICES ASSUME NEW c \in Indexes PROVE SoundIn(h, ix, c) /\ CompleteIn(h, ix, c)
    BY Zenon DEF InStep, h, ix
  <1>5. /\ DOMAIN ix[c] = KeysWith(DOMAIN index[c], t[c])
        /\ t[c] # Null => ix[c][t[c]] = r /\ t[c] \notin DOMAIN index[c]
        /\ \A k \in DOMAIN index[c] : ix[c][k] = index[c][k]
    <2>1. CASE t[c] = Null BY <1>2, <2>1 DEF KeysWith
    <2>2. CASE t[c] # Null
      <3>1. ix[c] = Put(index[c], t[c], r) BY <1>2, <2>2
      <3> QED BY <1>3, <2>2, <3>1 DEF Put, KeysWith
    <2> QED BY <2>1, <2>2
  <1>6. ASSUME NEW k \in DOMAIN ix[c] PROVE IsLive(h, ix[c][k]) /\ h[ix[c][k]].tuple[c] = k
    <2>1. CASE k = t[c] /\ t[c] # Null
      BY <1>1, <1>5, <2>1
    <2>2. CASE ~(k = t[c] /\ t[c] # Null)
      <3>1. k \in DOMAIN index[c] /\ ix[c][k] = index[c][k]
        BY <1>6, <1>5, <2>2 DEF KeysWith
      <3>2. IsLive(heap, index[c][k]) /\ heap[index[c][k]].tuple[c] = k
        BY <3>1 DEF InStep, SoundIn
      <3> QED BY <1>1, <3>1, <3>2
    <2> QED BY <2>1, <2>2
  <1>7. ASSUME NEW q, IsLive(h, q), h[q].tuple[c] # Null
        PROVE  h[q].tuple[c] \in DOMAIN ix[c] /\ ix[c][h[q].tuple[c]] = q
    <2>1. CASE q = r
      BY <1>1, <1>7, <1>5, <2>1 DEF KeysWith
    <2>2. CASE q # r
      <3>1. IsLive(heap, q) /\ h[q] = heap[q]
        BY <1>1, <1>7, <2>2
      <3>2. heap[q].tuple[c] \in DOMAIN index[c] /\ index[c][heap[q].tuple[c]] = q
        BY <1>7, <3>1 DEF InStep, CompleteIn, LiveRows, IsLive
      <3> QED BY <1>5, <3>1, <3>2 DEF KeysWith
    <2> QED BY <2>1, <2>2
  <1> QED BY <1>6, <1>7 DEF SoundIn, CompleteIn, LiveRows

\* A DeleteInternal that succeeds keeps every index in step with the heap.
LEMMA DeleteInStep ==
    ASSUME Good(heap, index), InStep(heap, index), NEW r \in DOMAIN heap, DeleteInternal(r).ok
    PROVE  InStep(DeleteInternal(r).heap, DeleteInternal(r).index)
  <1> DEFINE t == heap[r].tuple
             i == DeleteFromIndexes(index, t)
             h == StoreDelete(r)
             ix == i.index
  <1>1. IsLive(heap, r)
    BY LiveToChange
  <1>2. DeleteInternal(r) = [ok |-> i.ok, index |-> ix, heap |-> h] /\ i.ok
    BY <1>1 DEF DeleteInternal
  <1>3. \A c \in Indexes : ix[c] = IF t[c] = Null THEN index[c] ELSE Remove(index[c], t[c])
    BY <1>2, DeleteFromFacts
  <1>4. /\ ~IsLive(h, r)
        /\ \A q : q # r => (IsLive(h, q) <=> IsLive(heap, q)) /\ (IsLive(heap, q) => h[q] = heap[q])
    BY DEF IsLive, StoreDelete, Good, Typed, Row
  <1> HIDE DEF h, ix, i
  <1>5. SUFFICES ASSUME NEW c \in Indexes PROVE SoundIn(h, ix, c) /\ CompleteIn(h, ix, c)
    BY <1>2 DEF InStep
  <1>6. t[c] # Null => t[c] \in DOMAIN index[c] /\ index[c][t[c]] = r
    BY <1>1 DEF InStep, CompleteIn, LiveRows
  <1>7. ASSUME NEW k \in DOMAIN ix[c] PROVE IsLive(h, ix[c][k]) /\ h[ix[c][k]].tuple[c] = k
    <2>1. k \in DOMAIN index[c] /\ ix[c][k] = index[c][k] /\ (t[c] # Null => k # t[c])
      BY <1>3, <1>7, Zenon DEF Remove
    <2>2. IsLive(heap, index[c][k]) /\ heap[index[c][k]].tuple[c] = k
      BY <2>1 DEF InStep, SoundIn
    <2>3. index[c][k] # r
      BY <2>1, <2>2, NullIsNoKey
    <2> QED BY <1>4, <2>1, <2>2, <2>3
  <1>8. ASSUME NEW q, IsLive(h, q), h[q].tuple[c] # Null
        PROVE  h[q].tuple[c] \in DOMAIN ix[c] /\ ix[c][h[q].tuple[c]] = q
    <2>1. q # r /\ IsLive(heap, q) /\ h[q] = heap[q]
      BY <1>4, <1>8
    <2>2. heap[q].tuple[c] \in DOMAIN index[c] /\ index[c][heap[q].tuple[c]] = q
      BY <1>8, <2>1 DEF InStep, CompleteIn, LiveRows, IsLive
    <2>3. heap[q].tuple[c] # t[c]
      BY <1>6, <1>8, <2>1, <2>2
    <2>4. ix[c] = index[c] \/ ix[c] = Remove(index[c], t[c])
      BY <1>3
    <2> DEFINE k == heap[q].tuple[c]
    <2>5. k \in DOMAIN Remove(index[c], t[c]) /\ Remove(index[c], t[c])[k] = index[c][k]
      BY <2>2, <2>3 DEF Remove
    <2>6. h[q].tuple[c] = k
      BY <2>1
    <2>7. k \in DOMAIN index[c] /\ index[c][k] = q
      BY <2>2
    <2> HIDE DEF k, h, ix
    <2> QED BY <2>4, <2>5, <2>6, <2>7
  <1> QED BY <1>7, <1>8 DEF SoundIn, CompleteIn, LiveRows

\* An UpdateInternal that succeeds keeps every index in step with the heap.
LEMMA UpdateInStep ==
    ASSUME Good(heap, index), InStep(heap, index), NEW r \in DOMAIN heap, NEW t \in Tuples,
           UpdateInternal(r, t).ok
    PROVE  InStep(UpdateInternal(r, t).heap, UpdateInternal(r, t).index)
  <1> DEFINE old == heap[r].tuple
             i == UpdateIndexes(index, old, t, r)
             h == StoreUpdate(r, t)
             ix == i.index
  <1>1. IsLive(heap, r)
    BY LiveToChange
  <1>2. UpdateInternal(r, t) = [ok |-> i.ok, index |-> ix, heap |-> h] /\ i.ok
    BY <1>1 DEF UpdateInternal
  <1>3. ASSUME NEW c \in Indexes
        PROVE  /\ ix[c] = IF old[c] = t[c] THEN index[c] ELSE With(index, old, t, r, c)
               /\ CanChange(index, old, t, c)
    <2>1. i.ok
      BY <1>2
    <2> HIDE DEF old
    <2> QED BY <2>1, UpdateDone
  <1>4. /\ IsLive(h, r) /\ h[r].tuple = t
        /\ \A q : q # r => (IsLive(h, q) <=> IsLive(heap, q)) /\ (IsLive(heap, q) => h[q] = heap[q])
    BY <1>1 DEF IsLive, StoreUpdate, Good, Typed, Row
  <1> HIDE DEF h, ix, i
  <1>5. SUFFICES ASSUME NEW c \in Indexes PROVE SoundIn(h, ix, c) /\ CompleteIn(h, ix, c)
    BY <1>2 DEF InStep
  <1>6. old[c] # Null => old[c] \in DOMAIN index[c] /\ index[c][old[c]] = r
    BY <1>1 DEF InStep, CompleteIn, LiveRows
  <1>7. \A k \in DOMAIN index[c] : /\ IsLive(heap, index[c][k]) /\ heap[index[c][k]].tuple[c] = k
                                   /\ index[c][k] = r => k = old[c]
                                   /\ k # Null
    <2>1. \A k \in DOMAIN index[c] : IsLive(heap, index[c][k]) /\ heap[index[c][k]].tuple[c] = k
      BY DEF InStep, SoundIn
    <2>2. Null \notin DOMAIN index[c]
      BY NullIsNoKey
    <2> QED BY <2>1, <2>2
  <1>8. \A q : IsLive(heap, q) /\ heap[q].tuple[c] # Null =>
                  heap[q].tuple[c] \in DOMAIN index[c] /\ index[c][heap[q].tuple[c]] = q
    BY DEF InStep, CompleteIn, LiveRows, IsLive
  <1>9. CASE old[c] = t[c]
    <2>1. ix[c] = index[c]
      BY <1>3, <1>9
    <2>2. ASSUME NEW k \in DOMAIN ix[c] PROVE IsLive(h, ix[c][k]) /\ h[ix[c][k]].tuple[c] = k
      <3>1. k \in DOMAIN index[c] /\ ix[c][k] = index[c][k]
        BY <2>1, <2>2
      <3>2. CASE index[c][k] = r
        <4>1. k = t[c]
          BY <1>7, <1>9, <3>1, <3>2
        <4> QED BY <1>4, <3>1, <3>2, <4>1
      <3>3. CASE index[c][k] # r
        <4>1. IsLive(heap, index[c][k]) /\ heap[index[c][k]].tuple[c] = k
          BY <1>7, <3>1
        <4> QED BY <1>4, <3>1, <3>3, <4>1
      <3> QED BY <3>2, <3>3
    <2>3. ASSUME NEW q, IsLive(h, q), h[q].tuple[c] # Null
          PROVE  h[q].tuple[c] \in DOMAIN ix[c] /\ ix[c][h[q].tuple[c]] = q
      BY <1>4, <1>6, <1>8, <1>9, <2>1, <2>3
    <2> QED BY <2>2, <2>3 DEF SoundIn, CompleteIn, LiveRows
  <1>10. CASE old[c] # t[c]
    <2>1. /\ DOMAIN ix[c] = KeysWith(DOMAIN index[c] \ {old[c]}, t[c])
          /\ t[c] # Null => ix[c][t[c]] = r
          /\ \A k \in DOMAIN index[c] \ {old[c]} : k # t[c] => ix[c][k] = index[c][k]
      <3>1. ix[c] = With(index, old, t, r, c)
        BY <1>3, <1>10
      <3>2. /\ DOMAIN Without(index, old, c) = DOMAIN index[c] \ {old[c]}
            /\ \A k \in DOMAIN index[c] \ {old[c]} : Without(index, old, c)[k] = index[c][k]
        BY <1>7 DEF Without, Remove
      <3> QED BY <3>1, <3>2 DEF With, KeysWith, Put
    <2>2. t[c] # Null => t[c] \notin DOMAIN index[c]
      BY <1>3, <1>10 DEF CanChange, HasKey
    <2>3. ASSUME NEW k \in DOMAIN ix[c] PROVE IsLive(h, ix[c][k]) /\ h[ix[c][k]].tuple[c] = k
      <3>1. CASE k = t[c] /\ t[c] # Null
        BY <1>4, <2>1, <3>1
      <3>2. CASE ~(k = t[c] /\ t[c] # Null)
        <4>1. k \in DOMAIN index[c] \ {old[c]} /\ k # t[c]
          <5>1. k \in KeysWith(DOMAIN index[c] \ {old[c]}, t[c])
            BY <2>1, <2>3
          <5>2. k \in DOMAIN index[c] \ {old[c]} \/ (k = t[c] /\ t[c] # Null)
            BY <5>1 DEF KeysWith
          <5>3. k \in DOMAIN index[c] => k # Null
            BY <1>7
          <5> QED BY <3>2, <5>2, <5>3
        <4>2. ix[c][k] = index[c][k]
          BY <2>1, <4>1
        <4>3. IsLive(heap, index[c][k]) /\ heap[index[c][k]].tuple[c] = k /\ index[c][k] # r
          BY <1>7, <4>1
        <4>4. IsLive(h, index[c][k]) /\ h[index[c][k]] = heap[index[c][k]]
          BY <1>4, <4>3
        <4> QED BY <4>2, <4>3, <4>4
      <3> QED BY <3>1, <3>2
    <2>4. ASSUME NEW q, IsLive(h, q), h[q].tuple[c] # Null
          PROVE  h[q].tuple[c] \in DOMAIN ix[c] /\ ix[c][h[q].tuple[c]] = q
      <3>1. CASE q = r
        BY <1>4, <2>1, <2>4, <3>1 DEF KeysWith
      <3>2. CASE q # r
        <4>1. IsLive(heap, q) /\ h[q] = heap[q]
          BY <1>4, <2>4, <3>2
        <4>2. heap[q].tuple[c] \in DOMAIN index[c] /\ index[c][heap[q].tuple[c]] = q
          BY <1>8, <2>4, <4>1
        <4>3. heap[q].tuple[c] # old[c] /\ heap[q].tuple[c] # t[c]
          BY <1>6, <2>2, <2>4, <3>2, <4>1, <4>2
        <4> QED BY <2>1, <4>1, <4>2, <4>3 DEF KeysWith
      <3> QED BY <3>1, <3>2
    <2> QED BY <2>3, <2>4 DEF SoundIn, CompleteIn, LiveRows
  <1> QED BY <1>9, <1>10

\* The history counts in natural numbers.
LEMMA CountersAreNat == ASSUME Base PROVE failed \in Nat /\ beyond \in Nat
  <1>1. MaxFailed \in Nat /\ MaxBeyond \in Nat
    BY VersionedTableAssumption
  <1>2. failed \in 0..MaxFailed /\ beyond \in 0..MaxBeyond
    BY DEF Base, TypeOK
  <1> QED BY <1>1, <1>2

\* A statement or an undone record that succeeds keeps all indexes in step.
LEMMA StatementInStep ==
    ASSUME Base, InStep(heap, index), NEW res, NEW record, Statement(res, record), res.ok \in BOOLEAN,
           res.ok => InStep(res.heap, res.index), failed' = 0
    PROVE  InStep(heap', index')
  <1>1. heap' = res.heap /\ index' = res.index
    BY DEF Statement, Apply
  <1>2. CASE res.ok
    BY <1>1, <1>2
  <1>3. CASE ~res.ok
    <2>1. failed \in Nat
      BY CountersAreNat
    <2>2. res = Failed
      BY <1>3, <2>1 DEF Statement
    <2> QED BY <1>1, <2>2 DEF Failed
  <1> QED BY <1>2, <1>3

\* An undone record that succeeds keeps every index in step with the heap.
LEMMA InverseInStep ==
    ASSUME Base, InStep(heap, index), NEW e \in Records, e.rid \in DOMAIN heap,
           e.op # "Insert" => e.before \in Tuples, ApplyInverseRecord(e).ok
    PROVE  InStep(ApplyInverseRecord(e).heap, ApplyInverseRecord(e).index)
  <1>1. Good(heap, index)
    BY DEF Base
  <1>2. CASE e.op = "Insert"
    <2>1. ApplyInverseRecord(e) = DeleteInternal(e.rid)
      BY <1>2 DEF ApplyInverseRecord
    <2> QED BY <1>1, <2>1, DeleteInStep
  <1>3. CASE e.op = "Delete"
    <2> DEFINE i == InsertIntoIndexes(index, e.before, e.rid)
    <2>1. ApplyInverseRecord(e) = RestoreInternal(e.rid, e.before)
      BY <1>3 DEF ApplyInverseRecord
    <2>2. ~IsLive(heap, e.rid)
      BY <2>1, LiveToChange
    <2>3. RestoreInternal(e.rid, e.before) = [ok |-> i.ok, index |-> i.index, heap |-> StoreRestore(e.rid, e.before)]
      BY <2>2 DEF RestoreInternal
    <2>4. i.ok
      <3>1. RestoreInternal(e.rid, e.before).ok
        BY <2>1
      <3> HIDE DEF i
      <3> QED BY <2>3, <3>1
    <2>5. e.before \in Tuples
      BY <1>3
    <2>6. InStep(Put(heap, e.rid, [tuple |-> e.before, deleted |-> FALSE]), i.index)
      BY <1>1, <2>2, <2>4, <2>5, PutRowInStep
    <2>7. StoreRestore(e.rid, e.before) = Put(heap, e.rid, [tuple |-> e.before, deleted |-> FALSE])
      BY DEF StoreRestore
    <2> HIDE DEF i
    <2>8. /\ ApplyInverseRecord(e).heap = StoreRestore(e.rid, e.before)
          /\ ApplyInverseRecord(e).index = i.index
      BY <2>1, <2>3
    <2> QED BY <2>6, <2>7, <2>8
  <1>4. CASE e.op = "Update"
    <2>1. ApplyInverseRecord(e) = UpdateInternal(e.rid, e.before)
      BY <1>4 DEF ApplyInverseRecord
    <2> QED BY <1>1, <1>4, <2>1, UpdateInStep
  <1> QED BY <1>2, <1>3, <1>4 DEF Records

AllInStep == failed = 0 /\ beyond = 0 => InStep(heap, index)

\* Every step keeps every index in step, until a statement fails midway or a
\* revert goes too far back.
LEMMA AllInStepStep == Inv /\ AllInStep /\ [Next]_vars => AllInStep'
  <1> SUFFICES ASSUME Inv, AllInStep, [Next]_vars, failed' = 0, beyond' = 0
               PROVE  InStep(heap', index')
    BY DEF AllInStep
  <1>1. Base /\ Good(heap, index) /\ failed \in Nat /\ beyond \in Nat
    <2>1. Base
      BY DEF Inv
    <2>2. Good(heap, index)
      BY <2>1 DEF Base
    <2> QED BY <2>1, <2>2, CountersAreNat
  <1>2. CASE UNCHANGED <<heap, index, failed, beyond>>
    BY <1>2 DEF AllInStep
  <1>3. ASSUME NEW res, NEW record, Statement(res, record) PROVE InStep(heap, index)
    <2>1. failed = 0 /\ beyond = 0
      BY <1>1, <1>3 DEF Statement
    <2> QED BY <2>1 DEF AllInStep
  <1>4. ASSUME NEW t \in Tuples, Insert(t) PROVE InStep(heap', index')
    <2> DEFINE i == InsertIntoIndexes(index, t, NextRid)
               record == Record("Insert", NextRid, NoTuple)
    <2>1. Statement(InsertInternal(t), record)
      BY <1>4 DEF Insert
    <2>2. InStep(heap, index) /\ InsertInternal(t).ok \in BOOLEAN /\ ~IsLive(heap, NextRid)
      BY <1>1, <1>3, <2>1, InsertGood, NextRidFresh DEF IsLive
    <2>3. InsertInternal(t) = [ok |-> i.ok, index |-> i.index, heap |-> StoreInsert(t)]
      BY DEF InsertInternal
    <2>4. InsertInternal(t).ok => InStep(InsertInternal(t).heap, InsertInternal(t).index)
      BY <1>1, <2>2, <2>3, PutRowInStep DEF StoreInsert
    <2> QED BY <1>1, <2>1, <2>2, <2>4, StatementInStep
  <1>5. ASSUME NEW r \in DOMAIN heap, NEW t \in Tuples, Update(r, t) PROVE InStep(heap', index')
    <2>1. Statement(UpdateInternal(r, t), Record("Update", r, heap[r].tuple))
      BY <1>5 DEF Update
    <2>2. InStep(heap, index) /\ UpdateInternal(r, t).ok \in BOOLEAN
      BY <1>1, <1>3, <2>1, EngineGood
    <2> QED BY <1>1, <2>1, <2>2, UpdateInStep, StatementInStep
  <1>6. ASSUME NEW r \in DOMAIN heap, Delete(r) PROVE InStep(heap', index')
    <2>1. Statement(DeleteInternal(r), Record("Delete", r, heap[r].tuple))
      BY <1>6 DEF Delete
    <2>2. InStep(heap, index) /\ DeleteInternal(r).ok \in BOOLEAN
      BY <1>1, <1>3, <2>1, DeleteGood
    <2> QED BY <1>1, <2>1, <2>2, DeleteInStep, StatementInStep
  <1>7. CASE RevertRecord
    <2> DEFINE e == log[revert.left]
               res == ApplyInverseRecord(e)
    <2>1. failed = 0 /\ beyond = 0 /\ InStep(heap, index) /\ revert.whole
      BY <1>1, <1>7 DEF RevertRecord, AllInStep, Inv
    <2>2. CASE ~IsAfter(e, revert.to)
      BY <1>7, <2>1, <2>2 DEF RevertRecord
    <2>3. CASE IsAfter(e, revert.to)
      <3>1. res.ok
        BY <1>7, <2>1, <2>3, UndoStep
      <3>2. heap' = res.heap /\ index' = res.index
        BY <1>7, <2>3 DEF RevertRecord, Apply
      <3>3. revert.left \in DOMAIN log
        BY <1>1, <1>7 DEF RevertRecord, Base, TypeOK
      <3>4. e \in Records /\ e.rid \in DOMAIN heap /\ (e.op # "Insert" => e.before \in Tuples)
        BY <1>1, <3>3 DEF Base, TypeOK
      <3> QED BY <1>1, <2>1, <3>1, <3>2, <3>4, InverseInStep
    <2> QED BY <2>2, <2>3
  <1>8. ASSUME NEW to \in 0..now, RevertBegin(to) PROVE InStep(heap', index')
    <2>1. heap' = heap /\ index' = index /\ failed' = failed /\ beyond = 0
      BY <1>1, <1>8 DEF RevertBegin
    <2> QED BY <2>1 DEF AllInStep
  <1>9. CASE Tick \/ RevertEnd \/ UNCHANGED vars
    BY <1>2, <1>9 DEF Tick, RevertEnd, vars
  <1> QED BY <1>4, <1>5, <1>6, <1>7, <1>8, <1>9 DEF Next

\* For any number of indexes, keys, rows and changes: as long as no statement
\* has failed midway and no revert has gone back beyond an earlier one, every
\* index has exactly the rows of the table, also between the steps of a revert.
THEOREM IndexesAlwaysMatch == Spec => []IndexesMatchHeap
  <1>1. Init => AllInStep
    BY DEF Init, AllInStep, InStep, SoundIn, CompleteIn, LiveRows
  <1>2. Inv /\ AllInStep => IndexesMatchHeap
    <2> SUFFICES ASSUME Inv, AllInStep, failed + beyond = 0 PROVE Matching
      BY DEF IndexesMatchHeap
    <2>1. failed \in Nat /\ beyond \in Nat
      BY CountersAreNat DEF Inv
    <2>2. failed = 0 /\ beyond = 0
      BY <2>1
    <2> QED BY <2>2 DEF AllInStep, InStep, SoundIn, CompleteIn, Matching, Sound
  <1> QED BY <1>1, <1>2, AllInStepStep, HistoryInvariance, PTL DEF Spec
=============================================================================
