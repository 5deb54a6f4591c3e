--------------------------- MODULE RowStoreProofs ---------------------------
(***************************************************************************)
(* RowStore keeps its pages sound and implements the map of HeapRows, for  *)
(* any tuples, sizes, page capacity and number of rows.                    *)
(*                                                                         *)
(* UsedBytes, Pack and FlattenSeq go through a list element by element.    *)
(* The first part shows that each of them is what a run of its step, a     *)
(* function from a value and an element to the next value, ends with; the  *)
(* rest uses only how a run starts and what one more element does to it.   *)
(***************************************************************************)
EXTENDS RowStore, TLAPS, WellFoundedInduction, FiniteSetTheorems, SequenceTheorems

\* A non-empty set of natural numbers has a least element.
LEMMA LeastNat ==
    ASSUME NEW T, T \subseteq Nat, T # {}
    PROVE  \E x \in T : \A y \in T : x <= y
<1>1. PICK x \in T : \A y \in T : ~(<<y, x>> \in OpToRel(<, Nat))
  BY NatLessThanWellFounded, WFMin, Zenon
<1>2. \A y \in T : ~(y < x)
  BY <1>1, Zenon DEF OpToRel
<1>3. QED
  BY <1>2

-----------------------------------------------------------------------------
(* Runs of a step over a list.                                             *)

\* g has the values of the run of step G from b over s.
Runs(g, G, b, s) ==
    /\ DOMAIN g = 0..Len(s) /\ g[0] = b
    /\ \A k \in 1..Len(s) : g[k] = G[<<g[k - 1], s[k]>>]

Final(G, b, s) == (CHOOSE g : Runs(g, G, b, s))[Len(s)]

IsStep(G, A, R) == G \in [A \X R -> A]

\* Every list has a run.
LEMMA RunExists ==
    ASSUME NEW A, NEW R, NEW b \in A, NEW G, IsStep(G, A, R), NEW s \in Seq(R)
    PROVE  \E g \in [0..Len(s) -> A] : Runs(g, G, b, s)
<1> DEFINE Upto(g, n) == g[0] = b /\ \A k \in 1..n : g[k] = G[<<g[k - 1], s[k]>>]
           T == {n \in 0..Len(s) : ~\E g \in [0..n -> A] : Upto(g, n)}
<1>1. Len(s) \in Nat /\ \A k \in 1..Len(s) : s[k] \in R
  OBVIOUS
<1>2. T = {}
  <2> SUFFICES ASSUME T # {} PROVE FALSE
    OBVIOUS
  <2>1. PICK n \in T : \A m \in T : n <= m
    <3>1. T \subseteq Nat
      BY <1>1
    <3> HIDE DEF T
    <3> QED BY <3>1, LeastNat, Zenon
  <2>2. n # 0
    <3>1. [k \in 0..0 |-> b] \in [0..0 -> A] /\ Upto([k \in 0..0 |-> b], 0)
      OBVIOUS
    <3> HIDE DEF Upto
    <3> QED BY <3>1, Zenon
  <2>3. n - 1 \in 0..Len(s) /\ ~(n <= n - 1) /\ n \in 1..Len(s)
    BY <1>1, <2>2
  <2>4. PICK g \in [0..(n - 1) -> A] : Upto(g, n - 1)
    BY <2>1, <2>3
  <2> DEFINE h == [k \in 0..n |-> IF k = n THEN G[<<g[n - 1], s[n]>>] ELSE g[k]]
  <2>5. G[<<g[n - 1], s[n]>>] \in A
    BY <1>1, <2>3 DEF IsStep
  <2>6. h \in [0..n -> A]
    BY <2>3, <2>5
  <2>7. h[0] = b
    BY <2>2, <2>3, <2>4
  <2>8. ASSUME NEW k \in 1..n PROVE h[k] = G[<<h[k - 1], s[k]>>]
    <3>1. h[k - 1] = g[k - 1]
      <4>1. k - 1 \in 0..n /\ k - 1 # n
        BY <2>3, <2>8
      <4> QED BY <4>1
    <3>2. CASE k = n
      <4>1. h[n] = G[<<g[n - 1], s[n]>>]
        BY <2>3
      <4> HIDE DEF h
      <4> QED BY <3>1, <3>2, <4>1
    <3>3. CASE k # n
      <4>1. k \in 1..(n - 1) /\ h[k] = g[k]
        BY <2>3, <2>8, <3>3
      <4> QED BY <2>4, <3>1, <4>1
    <3> QED BY <3>2, <3>3
  <2>9. Upto(h, n)
    BY <2>7, <2>8, Zenon
  <2> HIDE DEF h, Upto
  <2> QED BY <2>6, <2>9
<1>3. PICK g \in [0..Len(s) -> A] : Upto(g, Len(s))
  <2>1. Len(s) \in 0..Len(s)
    BY <1>1
  <2> HIDE DEF Upto
  <2> QED BY <1>2, <2>1
<1> QED BY <1>3 DEF Runs

Agree(s, t, n) == \A k \in 1..n : s[k] = t[k]

\* Runs agree as long as their lists do.
LEMMA RunsAgree ==
    ASSUME NEW G, NEW b, NEW s, NEW t, NEW g, NEW h, Runs(g, G, b, s), Runs(h, G, b, t),
           NEW n \in Nat, Len(s) \in Nat, Len(t) \in Nat, n <= Len(s), n <= Len(t), Agree(s, t, n)
    PROVE  \A k \in 0..n : g[k] = h[k]
<1> DEFINE T == {k \in 0..n : g[k] # h[k]}
<1> SUFFICES ASSUME T # {} PROVE FALSE
  OBVIOUS
<1>1. PICK k \in T : \A m \in T : k <= m
  <2>1. T \subseteq Nat
    OBVIOUS
  <2> HIDE DEF T
  <2> QED BY <2>1, LeastNat, Zenon
<1>2. k # 0
  BY DEF Runs
<1>3. k - 1 \in 0..n /\ ~(k <= k - 1) /\ k \in 1..n /\ k \in 1..Len(s) /\ k \in 1..Len(t)
  BY <1>2
<1>4. g[k - 1] = h[k - 1]
  BY <1>1, <1>3
<1>5. g[k] = G[<<g[k - 1], s[k]>>] /\ h[k] = G[<<h[k - 1], t[k]>>]
  BY <1>3 DEF Runs
<1>6. s[k] = t[k]
  BY <1>3 DEF Agree
<1> QED BY <1>4, <1>5, <1>6

\* What a run ends with.
LEMMA FinalOfRun ==
    ASSUME NEW G, NEW b, NEW s, NEW g, Runs(g, G, b, s), Len(s) \in Nat
    PROVE  Final(G, b, s) = g[Len(s)]
<1> DEFINE h == CHOOSE h : Runs(h, G, b, s)
<1>1. Runs(h, G, b, s)
  OBVIOUS
<1>2. Final(G, b, s) = h[Len(s)]
  BY DEF Final
<1> HIDE DEF h
<1>3. \A k \in 0..Len(s) : h[k] = g[k]
  <2>1. Agree(s, s, Len(s)) /\ Len(s) <= Len(s)
    BY DEF Agree
  <2> QED BY <1>1, <2>1, RunsAgree
<1> QED BY <1>2, <1>3

\* A run over no element stays where it starts; one more element is one more step.
LEMMA FinalFacts ==
    ASSUME NEW A, NEW R, NEW b \in A, NEW G, IsStep(G, A, R), NEW s \in Seq(R)
    PROVE  /\ Final(G, b, s) \in A
           /\ Final(G, b, <<>>) = b
           /\ \A x \in R : Final(G, b, Append(s, x)) = G[<<Final(G, b, s), x>>]
<1>1. PICK g \in [0..Len(s) -> A] : Runs(g, G, b, s)
  BY RunExists
<1>2. Final(G, b, s) = g[Len(s)] /\ Final(G, b, s) \in A
  BY <1>1, FinalOfRun
<1>3. Final(G, b, <<>>) = b
  <2>1. Runs([k \in 0..0 |-> b], G, b, <<>>)
    BY DEF Runs
  <2>2. Len(<<>>) = 0 /\ [k \in 0..0 |-> b][0] = b
    OBVIOUS
  <2> QED BY <2>1, <2>2, FinalOfRun
<1>4. ASSUME NEW x \in R PROVE Final(G, b, Append(s, x)) = G[<<Final(G, b, s), x>>]
  <2> DEFINE t == Append(s, x)
  <2>1. t \in Seq(R) /\ Len(t) = Len(s) + 1 /\ t[Len(t)] = x /\ \A k \in 1..Len(s) : t[k] = s[k]
    OBVIOUS
  <2>2. Len(s) \in Nat
    OBVIOUS
  <2> HIDE DEF t
  <2>3. PICK h \in [0..Len(t) -> A] : Runs(h, G, b, t)
    BY <2>1, RunExists
  <2>4. h[Len(s)] = g[Len(s)]
    <3>1. Len(t) \in Nat /\ Len(s) <= Len(t) /\ Len(s) <= Len(s) /\ Len(s) \in 0..Len(s)
      BY <2>1, <2>2
    <3>2. Agree(s, t, Len(s))
      BY <2>1 DEF Agree
    <3>3. \A k \in 0..Len(s) : g[k] = h[k]
      BY <1>1, <2>2, <2>3, <3>1, <3>2, RunsAgree
    <3> QED BY <3>1, <3>3
  <2>5. h[Len(t)] = G[<<h[Len(s)], x>>]
    BY <2>1, <2>2, <2>3 DEF Runs
  <2>6. Final(G, b, t) = h[Len(t)]
    BY <2>1, <2>2, <2>3, FinalOfRun
  <2> QED BY <1>2, <2>4, <2>5, <2>6 DEF t
<1> QED BY <1>2, <1>3, <1>4

\* The largest element of a non-empty part of a list's domain.
LEMMA MaxFacts ==
    ASSUME NEW n \in Nat, NEW T \in SUBSET (1..n), T # {}
    PROVE  Max(T) \in T /\ \A x \in T : x <= Max(T)
<1> DEFINE B == {m \in 0..n : \A x \in T : x <= m}
<1>1. n \in B /\ B \subseteq Nat
  OBVIOUS
<1>2. PICK m \in B : \A y \in B : m <= y
  <2> HIDE DEF B
  <2> QED BY <1>1, LeastNat, Zenon
<1>3. m \in T
  <2> SUFFICES ASSUME m \notin T PROVE FALSE
    OBVIOUS
  <2>1. \A x \in T : x <= m /\ x # m /\ x \in 1..n
    OBVIOUS
  <2>2. m # 0
    <3>1. PICK x : x \in T
      OBVIOUS
    <3> QED BY <2>1, <3>1
  <2>3. m - 1 \in 0..n /\ ~(m <= m - 1)
    BY <2>2
  <2>4. \A x \in T : x <= m - 1
    BY <2>1
  <2> QED BY <1>2, <2>3, <2>4
<1>4. \A x \in T : m >= x
  OBVIOUS
<1>5. Max(T) \in T /\ \A x \in T : Max(T) >= x
  BY <1>3, <1>4, Zenon DEF Max
<1> QED BY <1>5

\* The part of a list a fold has still to visit has a largest index.
LEMMA PartMax ==
    ASSUME NEW R, NEW s \in Seq(R), NEW T \in SUBSET DOMAIN s, T # {}
    PROVE  Max(T) \in T
<1>1. Len(s) \in Nat /\ T \in SUBSET (1..Len(s))
  OBVIOUS
<1> QED BY <1>1, MaxFacts, Zenon

\* The first k indexes are a part whose largest index is k.
LEMMA InitialPart ==
    ASSUME NEW R, NEW s \in Seq(R), NEW k \in 1..Len(s)
    PROVE  /\ 1..k \in SUBSET DOMAIN s /\ 1..k # {}
           /\ Max(1..k) = k /\ (1..k) \ {k} = 1..(k - 1)
<1>1. Len(s) \in Nat /\ DOMAIN s = 1..Len(s) /\ k \in Nat /\ k <= Len(s)
  OBVIOUS
<1>2. k \in 1..k /\ 1..k \in SUBSET DOMAIN s /\ 1..k # {}
  <2>1. k \in 1..k
    BY <1>1
  <2>2. \A x \in 1..k : x \in 1..Len(s)
    BY <1>1
  <2> QED BY <1>1, <2>1, <2>2, Zenon
<1>3. Max(1..k) \in 1..k /\ \A x \in 1..k : x <= Max(1..k)
  BY <1>1, <1>2, MaxFacts, Zenon
<1>4. Max(1..k) = k
  BY <1>1, <1>2, <1>3
<1>5. (1..k) \ {k} = 1..(k - 1)
  BY <1>1
<1> QED BY <1>2, <1>4, <1>5

\* The value a fold has on each part T of the list's domain.
PartRuns(h, G, b, s) ==
    h = [T \in SUBSET DOMAIN s |-> IF T = {} THEN b ELSE G[<<h[T \ {Max(T)}], s[Max(T)]>>]]

\* A fold is defined on every part.
LEMMA PartRunExists ==
    ASSUME NEW A, NEW R, NEW b \in A, NEW G, IsStep(G, A, R), NEW s \in Seq(R)
    PROVE  \E h \in [SUBSET DOMAIN s -> A] : PartRuns(h, G, b, s)
<1> DEFINE N == Len(s)
           Part(n) == {T \in SUBSET (1..N) : \A x \in T : x <= n}
           Ok(h, n) == \A T \in Part(n) : h[T] = IF T = {} THEN b ELSE G[<<h[T \ {Max(T)}], s[Max(T)]>>]
           Bad == {n \in 0..N : ~\E h \in [Part(n) -> A] : Ok(h, n)}
<1>1. N \in Nat /\ DOMAIN s = 1..N /\ \A k \in 1..N : s[k] \in R
  OBVIOUS
<1> HIDE DEF N
<1>2. Bad = {}
  <2> SUFFICES ASSUME Bad # {} PROVE FALSE
    BY Zenon
  <2>1. PICK n \in Bad : \A m \in Bad : n <= m
    <3>1. Bad \subseteq Nat
      BY <1>1
    <3> HIDE DEF Bad
    <3> QED BY <3>1, LeastNat, Zenon
  <2>2. n # 0
    <3>1. Part(0) = {{}}
      BY <1>1
    <3>2. [T \in Part(0) |-> b] \in [Part(0) -> A] /\ Ok([T \in Part(0) |-> b], 0)
      BY <3>1
    <3> HIDE DEF Ok, Part
    <3> QED BY <3>2
  <2>3. n - 1 \in 0..N /\ ~(n <= n - 1) /\ n \in 1..N
    BY <1>1, <2>2
  <2>4. PICK g \in [Part(n - 1) -> A] : Ok(g, n - 1)
    BY <2>1, <2>3, Zenon
  <2> DEFINE h == [T \in Part(n) |-> IF T = {} THEN b ELSE G[<<g[T \ {Max(T)}], s[Max(T)]>>]]
  <2>5. ASSUME NEW T \in Part(n), T # {}
        PROVE  T \ {Max(T)} \in Part(n - 1) /\ Max(T) \in 1..N
    <3>1. T \in SUBSET (1..N) /\ \A x \in T : x <= n
      OBVIOUS
    <3>2. Max(T) \in T /\ \A x \in T : x <= Max(T)
      BY <1>1, <2>5, <3>1, MaxFacts, Zenon
    <3>3. ASSUME NEW x \in T, x # Max(T) PROVE x <= n - 1
      <4> HIDE DEF Bad, Part
      <4>1. x \in 1..N /\ Max(T) \in 1..N
        BY <3>1, <3>2, Zenon
      <4>2. x <= Max(T) /\ Max(T) <= n
        BY <3>1, <3>2, Zenon
      <4>3. n \in 1..N
        BY <2>3
      <4>4. x \in Nat /\ Max(T) \in Nat /\ n \in Nat
        BY <1>1, <4>1, <4>3
      <4> QED BY <3>3, <4>2, <4>4
    <3> QED BY <3>1, <3>2, <3>3, Zenon
  <2>6. ASSUME NEW T \in Part(n - 1) PROVE T \in Part(n)
    BY <1>1, <2>3, <2>6
  <2> HIDE DEF Part
  <2>7. h \in [Part(n) -> A]
    BY <1>1, <2>5 DEF IsStep
  <2>8. ASSUME NEW T \in Part(n - 1) PROVE h[T] = g[T]
    BY <2>4, <2>6, <2>8, Zenon
  <2>9. ASSUME NEW T \in Part(n)
        PROVE  h[T] = IF T = {} THEN b ELSE G[<<h[T \ {Max(T)}], s[Max(T)]>>]
    <3>1. CASE T = {}
      BY <3>1
    <3>2. CASE T # {}
      BY <2>5, <2>8, <3>2, Zenon
    <3> QED BY <3>1, <3>2
  <2>10. Ok(h, n)
    <3> HIDE DEF h
    <3> QED BY <2>9, Zenon
  <2> HIDE DEF h, Ok
  <2> QED BY <2>7, <2>10
<1>3. PICK h \in [Part(N) -> A] : Ok(h, N)
  <2>1. N \in 0..N
    BY <1>1
  <2> HIDE DEF Ok, Part
  <2> QED BY <1>2, <2>1
<1>4. Part(N) = SUBSET DOMAIN s
  BY <1>1
<1>5. PartRuns(h, G, b, s)
  <2> HIDE DEF Part
  <2> QED BY <1>3, <1>4 DEF PartRuns
<1> QED BY <1>3, <1>4, <1>5, Zenon

Whole(h, s) == h[DOMAIN s]

\* On the initial parts it is the run over the list's beginning.
LEMMA PartRunFinal ==
    ASSUME NEW A, NEW R, NEW b \in A, NEW G, IsStep(G, A, R), NEW s \in Seq(R),
           NEW h, PartRuns(h, G, b, s)
    PROVE  Whole(h, s) = Final(G, b, s)
<1>1. Len(s) \in Nat /\ DOMAIN s = 1..Len(s)
  OBVIOUS
<1>2. \A T \in SUBSET DOMAIN s : h[T] = IF T = {} THEN b ELSE G[<<h[T \ {Max(T)}], s[Max(T)]>>]
  BY Zenon DEF PartRuns
<1>3. h[{}] = b
  BY <1>2, Zenon
<1>4. ASSUME NEW k \in 1..Len(s) PROVE h[1..k] = G[<<h[1..(k - 1)], s[k]>>]
  BY <1>2, InitialPart, Zenon
<1> DEFINE g == [k \in 0..Len(s) |-> h[1..k]]
<1>5. Runs(g, G, b, s)
  <2>1. g[0] = b
    <3>1. 1..0 = {}
      OBVIOUS
    <3> QED BY <1>1, <1>3, <3>1
  <2>2. ASSUME NEW k \in 1..Len(s) PROVE g[k] = G[<<g[k - 1], s[k]>>]
    <3>1. k \in 0..Len(s) /\ k - 1 \in 0..Len(s)
      BY <1>1
    <3> QED BY <1>4, <3>1
  <2>3. DOMAIN g = 0..Len(s)
    OBVIOUS
  <2> HIDE DEF g
  <2> QED BY <2>1, <2>2, <2>3 DEF Runs
<1>6. g[Len(s)] = h[1..Len(s)]
  BY <1>1
<1> HIDE DEF g
<1>7. Final(G, b, s) = g[Len(s)]
  BY <1>1, <1>5, FinalOfRun
<1> QED BY <1>1, <1>6, <1>7 DEF Whole

-----------------------------------------------------------------------------
(* The three operators, as runs.                                           *)

Row == [rid : 0..(MaxRid - 1), tuple : {t \in Tuples : Storable(t)}, deleted : BOOLEAN]

AddSize == [p \in Nat \X Row |-> p[1] + SizeOf[p[2].tuple]]
Concat(R) == [p \in Seq(R) \X Seq(R) |-> p[1] \o p[2]]
Place(batches, row) ==
    IF HasRoom(Last(batches), row.tuple)
    THEN ReplaceAt(batches, Len(batches), Append(Last(batches), row))
    ELSE Append(batches, <<row>>)
Batches == {b \in Seq(Seq(Row)) : Len(b) > 0}
PlaceRow == [p \in Batches \X Row |-> Place(p[1], p[2])]

\* The step of UsedBytes.
LEMMA AddSizeType == IsStep(AddSize, Nat, Row)
  BY RowStoreAssumption DEF IsStep, AddSize, Row

\* The step of FlattenSeq.
LEMMA ConcatType == \A R : IsStep(Concat(R), Seq(R), Seq(R))
  BY ConcatProperties DEF IsStep, Concat

\* The step of Pack.
LEMMA PlaceRowType == IsStep(PlaceRow, Batches, Row) /\ <<<<>>>> \in Batches
<1>1. ASSUME NEW b \in Batches, NEW row \in Row PROVE Place(b, row) \in Batches
  <2>1. b \in Seq(Seq(Row)) /\ Len(b) \in 1..Len(b) /\ b[Len(b)] \in Seq(Row)
    BY DEF Batches
  <2>2. Append(b[Len(b)], row) \in Seq(Row) /\ <<row>> \in Seq(Row)
    BY <2>1
  <2>3. /\ [b EXCEPT ![Len(b)] = Append(b[Len(b)], row)] \in Seq(Seq(Row))
        /\ Len([b EXCEPT ![Len(b)] = Append(b[Len(b)], row)]) = Len(b)
    BY <2>1, <2>2, ExceptSeq
  <2>4. Append(b, <<row>>) \in Seq(Seq(Row)) /\ Len(Append(b, <<row>>)) > 0
    BY <2>1, <2>2
  <2> QED BY <2>1, <2>3, <2>4 DEF Place, ReplaceAt, Last, Batches
<1>2. <<<<>>>> \in Batches
  BY DEF Batches
<1> QED BY <1>1, <1>2 DEF IsStep, PlaceRow

\* it takes the steps of h
Follows(it, h, s) ==
    /\ it[{}] = h[{}]
    /\ \A k \in 1..Len(s) : it[1..(k - 1)] = h[1..(k - 1)] => it[1..k] = h[1..k]

\* Two families of values that grow alike agree on the whole list.
LEMMA SameWhole ==
    ASSUME NEW R, NEW s \in Seq(R), NEW h, NEW it, Follows(it, h, s)
    PROVE  Whole(it, s) = Whole(h, s)
<1> DEFINE D == {k \in 0..Len(s) : it[1..k] # h[1..k]}
<1>1. Len(s) \in Nat /\ DOMAIN s = 1..Len(s)
  OBVIOUS
<1>2. D = {}
  <2> SUFFICES ASSUME D # {} PROVE FALSE
    OBVIOUS
  <2>1. PICK k \in D : \A m \in D : k <= m
    <3>1. D \subseteq Nat
      BY <1>1
    <3> HIDE DEF D
    <3> QED BY <3>1, LeastNat, Zenon
  <2>2. it[{}] = h[{}] /\ 1..0 = {}
    BY DEF Follows
  <2>3. k \in 1..Len(s) /\ k - 1 \in 0..Len(s) /\ ~(k <= k - 1)
    BY <1>1, <2>2
  <2>4. it[1..(k - 1)] = h[1..(k - 1)]
    BY <2>1, <2>3
  <2>5. it[1..k] = h[1..k]
    BY <2>3, <2>4 DEF Follows
  <2> QED BY <2>5
<1>3. Len(s) \in 0..Len(s)
  BY <1>1
<1> QED BY <1>1, <1>2, <1>3 DEF Whole

\* UsedBytes adds up the sizes.
LEMMA UsedBytesRuns ==
    ASSUME NEW s \in Seq(Row)
    PROVE  UsedBytes(s) = Final(AddSize, 0, s)
<1> DEFINE Eq(h) == h = [T \in SUBSET DOMAIN s |-> IF T = {} THEN 0
                                                  ELSE h[T \ {Max(T)}] + SizeOf[s[Max(T)].tuple]]
           it == CHOOSE h : Eq(h)
           zero == 0
           Sizes == Nat
<1>1. zero \in Sizes /\ IsStep(AddSize, Sizes, Row)
  BY AddSizeType
<1> HIDE DEF zero, Sizes
<1>2. PICK h : h \in [SUBSET DOMAIN s -> Sizes] /\ PartRuns(h, AddSize, zero, s)
  BY <1>1, PartRunExists, Zenon
<1>3. Whole(h, s) = Final(AddSize, zero, s)
  BY <1>1, <1>2, PartRunFinal
<1>4. Eq(h)
  <2>1. ASSUME NEW T \in SUBSET DOMAIN s, T # {}
        PROVE  AddSize[<<h[T \ {Max(T)}], s[Max(T)]>>] = h[T \ {Max(T)}] + SizeOf[s[Max(T)].tuple]
    <3>1. Max(T) \in DOMAIN s
      BY <2>1, PartMax
    <3>2. s[Max(T)] \in Row /\ h[T \ {Max(T)}] \in Nat
      BY <1>2, <3>1 DEF Sizes
    <3> QED BY <3>2 DEF AddSize
  <2> QED BY <1>2, <2>1, Zenon DEF PartRuns, zero
<1>5. Eq(it)
  BY <1>4, Zenon
<1>6. UsedBytes(s) = Whole(it, s)
  BY DEF UsedBytes, FoldLeft, MapThenFoldSet, Whole
<1> HIDE DEF it
<1>7. Follows(it, h, s)
  <2>1. it[{}] = h[{}]
    BY <1>4, <1>5
  <2>2. ASSUME NEW k \in 1..Len(s), it[1..(k - 1)] = h[1..(k - 1)]
        PROVE  it[1..k] = h[1..k]
    <3>1. 1..k \in SUBSET DOMAIN s /\ 1..k # {} /\ Max(1..k) = k /\ (1..k) \ {k} = 1..(k - 1)
      BY InitialPart
    <3>2. \A f : Eq(f) => f[1..k] = f[1..(k - 1)] + SizeOf[s[k].tuple]
      <4> SUFFICES ASSUME NEW f, Eq(f) PROVE f[1..k] = f[1..(k - 1)] + SizeOf[s[k].tuple]
        BY Zenon
      <4>1. f[1..k] = IF 1..k = {} THEN 0 ELSE f[(1..k) \ {Max(1..k)}] + SizeOf[s[Max(1..k)].tuple]
        BY <3>1, Zenon
      <4> QED BY <3>1, <4>1, Zenon
    <3> HIDE DEF Eq
    <3> QED BY <1>4, <1>5, <2>2, <3>2
  <2> HIDE DEF Eq
  <2> QED BY <2>1, <2>2 DEF Follows
<1>8. Whole(it, s) = Whole(h, s)
  BY <1>7, SameWhole
<1> QED BY <1>3, <1>6, <1>8 DEF zero

\* Pack places the rows one after the other.
LEMMA PackRuns ==
    ASSUME NEW s \in Seq(Row)
    PROVE  Pack(s) = Final(PlaceRow, <<<<>>>>, s)
<1> DEFINE Eq(h) == h = [T \in SUBSET DOMAIN s |-> IF T = {} THEN <<<<>>>>
                                                  ELSE Place(h[T \ {Max(T)}], s[Max(T)])]
           it == CHOOSE h : Eq(h)
           blank == <<<<>>>>
<1>1. blank \in Batches /\ IsStep(PlaceRow, Batches, Row)
  BY PlaceRowType
<1> HIDE DEF blank
<1>2. PICK h : h \in [SUBSET DOMAIN s -> Batches] /\ PartRuns(h, PlaceRow, blank, s)
  BY <1>1, PartRunExists, Zenon
<1>3. Whole(h, s) = Final(PlaceRow, blank, s)
  BY <1>1, <1>2, PartRunFinal
<1>4. Eq(h)
  <2>1. ASSUME NEW T \in SUBSET DOMAIN s, T # {}
        PROVE  PlaceRow[<<h[T \ {Max(T)}], s[Max(T)]>>] = Place(h[T \ {Max(T)}], s[Max(T)])
    <3>1. Max(T) \in DOMAIN s
      BY <2>1, PartMax
    <3>2. s[Max(T)] \in Row /\ h[T \ {Max(T)}] \in Batches
      BY <1>2, <3>1
    <3> QED BY <3>2 DEF PlaceRow
  <2> QED BY <1>2, <2>1, Zenon DEF PartRuns, blank
<1>5. Eq(it)
  BY <1>4, Zenon
<1>6. Pack(s) = Whole(it, s)
  BY DEF Pack, FoldLeft, MapThenFoldSet, Whole, Place
<1> HIDE DEF it
<1>7. Follows(it, h, s)
  <2>1. it[{}] = h[{}]
    BY <1>4, <1>5
  <2>2. ASSUME NEW k \in 1..Len(s), it[1..(k - 1)] = h[1..(k - 1)]
        PROVE  it[1..k] = h[1..k]
    <3>1. 1..k \in SUBSET DOMAIN s /\ 1..k # {} /\ Max(1..k) = k /\ (1..k) \ {k} = 1..(k - 1)
      BY InitialPart
    <3>2. \A f : Eq(f) => f[1..k] = Place(f[1..(k - 1)], s[k])
      <4> SUFFICES ASSUME NEW f, Eq(f) PROVE f[1..k] = Place(f[1..(k - 1)], s[k])
        BY Zenon
      <4>1. f[1..k] = IF 1..k = {} THEN <<<<>>>> ELSE Place(f[(1..k) \ {Max(1..k)}], s[Max(1..k)])
        BY <3>1, Zenon
      <4> QED BY <3>1, <4>1, Zenon
    <3> HIDE DEF Eq
    <3> QED BY <1>4, <1>5, <2>2, <3>2
  <2> HIDE DEF Eq
  <2> QED BY <2>1, <2>2 DEF Follows
<1>8. Whole(it, s) = Whole(h, s)
  BY <1>7, SameWhole
<1> QED BY <1>3, <1>6, <1>8 DEF blank

\* FlattenSeq concatenates the lists.
LEMMA FlattenRuns ==
    ASSUME NEW R, NEW s \in Seq(Seq(R))
    PROVE  FlattenSeq(s) = Final(Concat(R), <<>>, s)
<1> DEFINE Eq(f) == f = [i \in 1..Len(s) |-> IF i = 1 THEN s[i] ELSE f[i - 1] \o s[i]]
           it == CHOOSE f : Eq(f)
           none == <<>>
           Lists == Seq(R)
           step == Concat(R)
<1>1. none \in Lists /\ IsStep(step, Lists, Lists) /\ s \in Seq(Lists)
  BY ConcatType
<1>2. Len(s) \in Nat /\ \A k \in 1..Len(s) : s[k] \in Seq(R)
  OBVIOUS
<1> HIDE DEF none, Lists, step
<1>3. PICK g \in [0..Len(s) -> Lists] : Runs(g, step, none, s)
  BY <1>1, RunExists
<1>4. Final(step, none, s) = g[Len(s)]
  BY <1>2, <1>3, FinalOfRun
<1>5. ASSUME NEW k \in 1..Len(s) PROVE g[k] = g[k - 1] \o s[k] /\ g[k] \in Seq(R)
  <2>1. g[k] = step[<<g[k - 1], s[k]>>]
    BY <1>3, Zenon DEF Runs
  <2>2. k - 1 \in 0..Len(s) /\ k \in 0..Len(s)
    BY <1>2
  <2>3. g[k - 1] \in Seq(R) /\ g[k] \in Seq(R)
    BY <2>2, Zenon DEF Lists
  <2> QED BY <1>2, <2>1, <2>3, Zenon DEF step, Concat
<1>6. CASE Len(s) = 0
  <2>1. FlattenSeq(s) = s /\ s = <<>>
    BY <1>6 DEF FlattenSeq
  <2>2. g[0] = none
    BY <1>3 DEF Runs
  <2> QED BY <1>4, <1>6, <2>1, <2>2 DEF none, step
<1>7. CASE Len(s) # 0
  <2>1. g[1] = s[1]
    <3>1. 1 \in 1..Len(s) /\ g[0] = none
      BY <1>2, <1>3, <1>7 DEF Runs
    <3>2. PICK k \in 1..Len(s) : k = 1
      BY <3>1
    <3>3. g[k] = g[k - 1] \o s[k] /\ s[k] \in Seq(R)
      BY <1>2, <1>5, Zenon
    <3>4. k - 1 = 0
      BY <3>2
    <3>5. <<>> \o s[k] = s[k]
      BY <3>3
    <3> QED BY <3>1, <3>2, <3>3, <3>4, <3>5, Zenon DEF none
  <2> DEFINE f == [i \in 1..Len(s) |-> g[i]]
  <2>2. Eq(f)
    <3>1. ASSUME NEW i \in 1..Len(s), i # 1 PROVE i - 1 \in 1..Len(s) /\ f[i - 1] = g[i - 1]
      BY <1>2, <3>1
    <3>2. ASSUME NEW i \in 1..Len(s)
          PROVE  g[i] = IF i = 1 THEN s[i] ELSE f[i - 1] \o s[i]
      BY <1>5, <2>1, <3>1, Zenon
    <3> QED BY <3>2
  <2>3. Eq(it)
    <3> HIDE DEF f
    <3> QED BY <2>2, Zenon
  <2>4. FlattenSeq(s) = it[Len(s)]
    BY <1>7 DEF FlattenSeq
  <2> HIDE DEF it
  <2> DEFINE D == {k \in 1..Len(s) : it[k] # g[k]}
  <2>5. D = {}
    <3> SUFFICES ASSUME D # {} PROVE FALSE
      OBVIOUS
    <3>1. PICK k \in D : \A m \in D : k <= m
      <4>1. D \subseteq Nat
        BY <1>2
      <4> HIDE DEF D
      <4> QED BY <4>1, LeastNat, Zenon
    <3>2. it[1] = s[1]
      BY <1>2, <1>7, <2>3
    <3>3. k # 1
      BY <2>1, <3>2
    <3>4. k - 1 \in 1..Len(s) /\ ~(k <= k - 1)
      BY <1>2, <3>3
    <3>5. it[k - 1] = g[k - 1]
      BY <3>1, <3>4
    <3>6. it[k] = it[k - 1] \o s[k]
      BY <2>3, <3>3, Zenon
    <3> QED BY <1>5, <3>5, <3>6, Zenon
  <2>6. it[Len(s)] = g[Len(s)]
    <3>1. Len(s) \in 1..Len(s)
      BY <1>2, <1>7
    <3> QED BY <2>5, <3>1, Zenon
  <2> QED BY <1>4, <2>4, <2>6 DEF none, step
<1> QED BY <1>6, <1>7

-----------------------------------------------------------------------------
(* What the operators compute, one element at a time.                      *)

\* used_bytes of no rows, and of one row more.
LEMMA UsedBytesFacts ==
    /\ UsedBytes(<<>>) = 0
    /\ \A s \in Seq(Row) : UsedBytes(s) \in Nat
    /\ \A s \in Seq(Row), row \in Row :
         UsedBytes(Append(s, row)) = UsedBytes(s) + SizeOf[row.tuple]
<1> DEFINE zero == 0
           Sizes == Nat
<1>1. zero \in Sizes /\ IsStep(AddSize, Sizes, Row)
  BY AddSizeType
<1>2. \A s \in Seq(Row) : UsedBytes(s) = Final(AddSize, zero, s)
  BY UsedBytesRuns
<1> HIDE DEF zero, Sizes
<1>3. ASSUME NEW s \in Seq(Row)
      PROVE  /\ Final(AddSize, zero, s) \in Sizes
             /\ Final(AddSize, zero, <<>>) = zero
             /\ \A row \in Row : Final(AddSize, zero, Append(s, row))
                                   = AddSize[<<Final(AddSize, zero, s), row>>]
  BY <1>1, FinalFacts
<1>4. <<>> \in Seq(Row) /\ \A s \in Seq(Row), row \in Row : Append(s, row) \in Seq(Row)
  OBVIOUS
<1>5. UsedBytes(<<>>) = 0
  BY <1>2, <1>3, <1>4, Zenon DEF zero
<1>6. ASSUME NEW s \in Seq(Row) PROVE UsedBytes(s) \in Nat
  BY <1>2, <1>3 DEF Sizes
<1>7. ASSUME NEW s \in Seq(Row), NEW row \in Row
      PROVE  UsedBytes(Append(s, row)) = UsedBytes(s) + SizeOf[row.tuple]
  <2>1. UsedBytes(Append(s, row)) = AddSize[<<UsedBytes(s), row>>]
    BY <1>2, <1>3, <1>4, Zenon
  <2> QED BY <1>6, <2>1 DEF AddSize
<1> QED BY <1>5, <1>6, <1>7

\* The batches of no rows, and of one row more.
LEMMA PackFacts ==
    /\ Pack(<<>>) = <<<<>>>>
    /\ \A s \in Seq(Row) : Pack(s) \in Batches
    /\ \A s \in Seq(Row), row \in Row : Pack(Append(s, row)) = Place(Pack(s), row)
<1> DEFINE blank == <<<<>>>>
<1>1. blank \in Batches /\ IsStep(PlaceRow, Batches, Row)
  BY PlaceRowType
<1>2. \A s \in Seq(Row) : Pack(s) = Final(PlaceRow, blank, s)
  BY PackRuns
<1> HIDE DEF blank
<1>3. ASSUME NEW s \in Seq(Row)
      PROVE  /\ Final(PlaceRow, blank, s) \in Batches
             /\ Final(PlaceRow, blank, <<>>) = blank
             /\ \A row \in Row : Final(PlaceRow, blank, Append(s, row))
                                   = PlaceRow[<<Final(PlaceRow, blank, s), row>>]
  BY <1>1, FinalFacts
<1>4. <<>> \in Seq(Row) /\ \A s \in Seq(Row), row \in Row : Append(s, row) \in Seq(Row)
  OBVIOUS
<1>5. Pack(<<>>) = blank
  BY <1>2, <1>3, <1>4, Zenon
<1>6. ASSUME NEW s \in Seq(Row) PROVE Pack(s) \in Batches
  BY <1>2, <1>3
<1>7. ASSUME NEW s \in Seq(Row), NEW row \in Row
      PROVE  Pack(Append(s, row)) = Place(Pack(s), row)
  <2>1. Pack(Append(s, row)) = PlaceRow[<<Pack(s), row>>]
    BY <1>2, <1>3, <1>4, Zenon
  <2> QED BY <1>6, <2>1 DEF PlaceRow
<1> QED BY <1>5, <1>6, <1>7 DEF blank

\* The rows of no pages, and of one page more.
LEMMA FlattenFacts ==
    ASSUME NEW R
    PROVE  /\ FlattenSeq(<<>>) = <<>>
           /\ \A s \in Seq(Seq(R)) : FlattenSeq(s) \in Seq(R)
           /\ \A s \in Seq(Seq(R)), x \in Seq(R) : FlattenSeq(Append(s, x)) = FlattenSeq(s) \o x
<1> DEFINE none == <<>>
           Lists == Seq(R)
           step == Concat(R)
<1>1. none \in Lists /\ IsStep(step, Lists, Lists)
  BY ConcatType
<1>2. \A s \in Seq(Lists) : FlattenSeq(s) = Final(step, none, s)
  BY FlattenRuns
<1> HIDE DEF none, Lists, step
<1>3. ASSUME NEW s \in Seq(Lists)
      PROVE  /\ Final(step, none, s) \in Lists
             /\ Final(step, none, <<>>) = none
             /\ \A x \in Lists : Final(step, none, Append(s, x)) = step[<<Final(step, none, s), x>>]
  BY <1>1, FinalFacts
<1>4. <<>> \in Seq(Lists) /\ \A s \in Seq(Lists), x \in Lists : Append(s, x) \in Seq(Lists)
  OBVIOUS
<1>5. FlattenSeq(<<>>) = none
  BY <1>2, <1>3, <1>4, Zenon
<1>6. ASSUME NEW s \in Seq(Lists) PROVE FlattenSeq(s) \in Lists
  BY <1>2, <1>3
<1>7. ASSUME NEW s \in Seq(Lists), NEW x \in Lists
      PROVE  FlattenSeq(Append(s, x)) = FlattenSeq(s) \o x
  <2>1. FlattenSeq(Append(s, x)) = step[<<FlattenSeq(s), x>>]
    BY <1>2, <1>3, <1>4, Zenon
  <2>2. FlattenSeq(s) \in Seq(R) /\ x \in Seq(R)
    BY <1>6 DEF Lists
  <2> QED BY <2>1, <2>2, Zenon DEF step, Concat
<1> QED BY <1>5, <1>6, <1>7 DEF none, Lists

\* Induction over lists: what the empty list has, and Append preserves, every list has.
LEMMA EveryList ==
    ASSUME NEW R, NEW P, <<>> \in P,
           \A s \in Seq(R), x \in R : s \in P => Append(s, x) \in P
    PROVE  Seq(R) \subseteq P
<1> DEFINE D == {n \in Nat : \E s \in Seq(R) : Len(s) = n /\ s \notin P}
<1>1. D = {}
  <2> SUFFICES ASSUME D # {} PROVE FALSE
    OBVIOUS
  <2>1. PICK n \in D : \A m \in D : n <= m
    <3>1. D \subseteq Nat
      OBVIOUS
    <3> HIDE DEF D
    <3> QED BY <3>1, LeastNat, Zenon
  <2>2. PICK s \in Seq(R) : Len(s) = n /\ s \notin P
    OBVIOUS
  <2>3. s # <<>>
    BY <2>2
  <2>4. PICK t \in Seq(R), x \in R : s = Append(t, x)
    BY <2>3, SequenceEmptyOrAppend
  <2>5. Len(t) \in Nat /\ n = Len(t) + 1 /\ ~(n <= Len(t))
    BY <2>2, <2>4
  <2>6. t \in P
    BY <2>1, <2>5
  <2> QED BY <2>2, <2>4, <2>6
<1> QED BY <1>1

-----------------------------------------------------------------------------
(* Packing and padding.                                                    *)

Fits(page) == UsedBytes(page) <= Capacity

\* The last batch takes the row if it has room, and a row alone fits.
LEMMA PlaceFits ==
    ASSUME NEW b \in Batches, NEW row \in Row, \A p \in 1..Len(b) : Fits(b[p])
    PROVE  \A p \in 1..Len(Place(b, row)) : Fits(Place(b, row)[p])
<1>1. b \in Seq(Seq(Row)) /\ Len(b) \in 1..Len(b) /\ b[Len(b)] \in Seq(Row) /\ Len(b) \in Nat
  <2>1. b \in Seq(Seq(Row)) /\ Len(b) > 0
    BY DEF Batches
  <2>2. Len(b) \in Nat
    BY <2>1
  <2> QED BY <2>1, <2>2
<1>2. CASE HasRoom(Last(b), row.tuple)
  <2>1. Fits(Append(b[Len(b)], row))
    BY <1>1, <1>2, UsedBytesFacts DEF Fits, HasRoom, Last
  <2>2. Append(b[Len(b)], row) \in Seq(Row)
    BY <1>1
  <2>3. /\ Place(b, row) = [b EXCEPT ![Len(b)] = Append(b[Len(b)], row)]
    BY <1>2 DEF Place, ReplaceAt, Last
  <2> DEFINE c == [b EXCEPT ![Len(b)] = Append(b[Len(b)], row)]
  <2>4. Len(c) = Len(b) /\ \A p \in 1..Len(b) : c[p] = IF p = Len(b) THEN Append(b[Len(b)], row) ELSE b[p]
    BY <1>1, <2>2, ExceptSeq
  <2> HIDE DEF c
  <2>5. \A p \in 1..Len(c) : Fits(c[p])
    BY <2>1, <2>4
  <2> QED BY <2>3, <2>5 DEF c
<1>3. CASE ~HasRoom(Last(b), row.tuple)
  <2>1. Fits(<<row>>)
    <3>1. <<row>> = Append(<<>>, row) /\ <<>> \in Seq(Row)
      OBVIOUS
    <3>2. UsedBytes(<<row>>) = UsedBytes(<<>>) + SizeOf[row.tuple] /\ UsedBytes(<<>>) = 0
      BY <3>1, UsedBytesFacts, Zenon
    <3>3. SizeOf[row.tuple] \in Nat /\ SizeOf[row.tuple] <= Capacity
      BY RowStoreAssumption DEF Row, Storable
    <3> QED BY <3>2, <3>3 DEF Fits
  <2>2. <<row>> \in Seq(Row) /\ Place(b, row) = Append(b, <<row>>)
    BY <1>3 DEF Place
  <2> DEFINE c == Append(b, <<row>>)
  <2>3. Len(c) = Len(b) + 1 /\ c[Len(b) + 1] = <<row>> /\ \A p \in 1..Len(b) : c[p] = b[p]
    BY <1>1, <2>2, AppendProperties
  <2> HIDE DEF c
  <2>4. \A p \in 1..Len(c) : p = Len(b) + 1 \/ p \in 1..Len(b)
    BY <1>1, <2>3
  <2>5. \A p \in 1..Len(c) : Fits(c[p])
    BY <2>1, <2>3, <2>4
  <2> QED BY <2>2, <2>5 DEF c
<1> QED BY <1>2, <1>3

\* The row comes after all the others.
LEMMA PlaceLast ==
    ASSUME NEW b \in Batches, NEW row \in Row
    PROVE  FlattenSeq(Place(b, row)) = Append(FlattenSeq(b), row)
<1>1. b \in Seq(Seq(Row)) /\ b # <<>> /\ Len(b) \in 1..Len(b)
  BY DEF Batches
<1>2. PICK f \in Seq(Seq(Row)), l \in Seq(Row) : b = Append(f, l)
  BY <1>1, SequenceEmptyOrAppend
<1>3. Len(b) = Len(f) + 1 /\ Last(b) = l /\ b[Len(b)] = l /\ Len(f) \in Nat
  BY <1>2 DEF Last
<1>4. FlattenSeq(b) = FlattenSeq(f) \o l /\ FlattenSeq(f) \in Seq(Row) /\ FlattenSeq(b) \in Seq(Row)
  BY <1>1, <1>2, FlattenFacts, Zenon
<1>5. CASE HasRoom(Last(b), row.tuple)
  <2>1. Place(b, row) = [b EXCEPT ![Len(b)] = Append(l, row)]
    BY <1>3, <1>5 DEF Place, ReplaceAt
  <2>2. Append(l, row) \in Seq(Row)
    OBVIOUS
  <2>3. [b EXCEPT ![Len(b)] = Append(l, row)] = Append(f, Append(l, row))
    <3> DEFINE c == [b EXCEPT ![Len(b)] = Append(l, row)]
               d == Append(f, Append(l, row))
    <3>1. /\ c \in Seq(Seq(Row)) /\ Len(c) = Len(b)
          /\ \A p \in 1..Len(b) : c[p] = IF p = Len(b) THEN Append(l, row) ELSE b[p]
      BY <1>1, <2>2, ExceptSeq
    <3>2. /\ d \in Seq(Seq(Row)) /\ Len(d) = Len(f) + 1 /\ d[Len(f) + 1] = Append(l, row)
          /\ \A p \in 1..Len(f) : d[p] = f[p]
      BY <2>2, AppendProperties
    <3>3. \A p \in 1..Len(f) : b[p] = f[p]
      BY <1>2, AppendProperties
    <3> HIDE DEF c, d
    <3>4. \A p \in 1..Len(b) : p = Len(f) + 1 \/ (p \in 1..Len(f) /\ p # Len(b))
      BY <1>3
    <3>5. \A p \in 1..Len(c) : c[p] = d[p]
      BY <1>3, <3>1, <3>2, <3>3, <3>4, Zenon
    <3>6. c = d
      BY <1>3, <3>1, <3>2, <3>5, SeqEqual
    <3> QED BY <3>6 DEF c, d
  <2>4. FlattenSeq(Append(f, Append(l, row))) = FlattenSeq(f) \o Append(l, row)
    BY <2>2, FlattenFacts, Zenon
  <2>5. FlattenSeq(f) \o Append(l, row) = Append(FlattenSeq(f) \o l, row)
    BY <1>4
  <2> QED BY <1>4, <2>1, <2>3, <2>4, <2>5, Zenon
<1>6. CASE ~HasRoom(Last(b), row.tuple)
  <2>1. Place(b, row) = Append(b, <<row>>) /\ <<row>> \in Seq(Row)
    BY <1>6 DEF Place
  <2>2. FlattenSeq(Append(b, <<row>>)) = FlattenSeq(b) \o <<row>>
    BY <1>1, <2>1, FlattenFacts, Zenon
  <2>3. FlattenSeq(b) \o <<row>> = Append(FlattenSeq(b), row)
    BY <1>4, AppendIsConcat
  <2> QED BY <2>1, <2>2, <2>3, Zenon
<1> QED BY <1>5, <1>6

\* Packing keeps the rows and their order, on pages that fit.
LEMMA PackSound ==
    ASSUME NEW s \in Seq(Row)
    PROVE  /\ FlattenSeq(Pack(s)) = s
           /\ \A p \in 1..Len(Pack(s)) : Fits(Pack(s)[p])
<1> DEFINE P == {q \in Seq(Row) : /\ FlattenSeq(Pack(q)) = q
                                  /\ \A p \in 1..Len(Pack(q)) : Fits(Pack(q)[p])}
<1>1. <<>> \in P
  <2>1. Pack(<<>>) = <<<<>>>> /\ <<<<>>>> = Append(<<>>, <<>>)
    BY PackFacts
  <2>2. <<>> \in Seq(Row) /\ <<>> \in Seq(Seq(Row)) /\ <<>> \o <<>> = <<>>
    BY ConcatEmptySeq
  <2>3. FlattenSeq(Append(<<>>, <<>>)) = FlattenSeq(<<>>) \o <<>> /\ FlattenSeq(<<>>) = <<>>
    BY <2>2, FlattenFacts, Zenon
  <2>4. Fits(<<>>)
    BY UsedBytesFacts, RowStoreAssumption DEF Fits
  <2>5. Len(<<<<>>>>) = 1 /\ <<<<>>>>[1] = <<>> /\ \A p \in 1..1 : p = 1
    OBVIOUS
  <2> QED BY <2>1, <2>2, <2>3, <2>4, <2>5
<1>2. ASSUME NEW q \in Seq(Row), NEW row \in Row, q \in P PROVE Append(q, row) \in P
  <2>1. Pack(q) \in Batches /\ Pack(Append(q, row)) = Place(Pack(q), row)
    BY PackFacts
  <2>2. FlattenSeq(Place(Pack(q), row)) = Append(q, row)
    BY <1>2, <2>1, PlaceLast
  <2>3. \A p \in 1..Len(Pack(q)) : Fits(Pack(q)[p])
    BY <1>2
  <2>4. \A p \in 1..Len(Place(Pack(q), row)) : Fits(Place(Pack(q), row)[p])
    BY <2>1, <2>3, PlaceFits
  <2> QED BY <2>1, <2>2, <2>4
<1>3. Seq(Row) \subseteq P
  <2> HIDE DEF P
  <2> QED BY <1>1, <1>2, EveryList
<1> QED BY <1>3

\* b and then blank pages up to c
Pad(b, c) == [i \in 1..c |-> IF i <= Len(b) THEN b[i] ELSE <<>>]

\* The blank pages RewriteAllRows leaves at the end hold no row.
LEMMA PadFacts ==
    ASSUME NEW R, NEW b \in Seq(Seq(R)), NEW c \in Nat, Len(b) <= c
    PROVE  /\ Pad(b, c) \in Seq(Seq(R)) /\ Len(Pad(b, c)) = c
           /\ FlattenSeq(Pad(b, c)) = FlattenSeq(b)
<1>0. Len(b) \in Nat /\ \A i \in 1..Len(b) : b[i] \in Seq(R)
  OBVIOUS
<1>1. ASSUME NEW n \in Nat PROVE Pad(b, n) \in Seq(Seq(R)) /\ Len(Pad(b, n)) = n
  <2>1. \A i \in 1..n : (IF i <= Len(b) THEN b[i] ELSE <<>>) \in Seq(R)
    BY <1>0
  <2>2. Pad(b, n) \in [1..n -> Seq(R)]
    BY <2>1 DEF Pad
  <2>3. Pad(b, n) \in Seq(Seq(R))
    BY <2>2, SeqDef
  <2>4. DOMAIN Pad(b, n) = 1..n
    BY DEF Pad
  <2> QED BY <2>3, <2>4
<1> DEFINE D == {n \in Nat : Len(b) <= n /\ FlattenSeq(Pad(b, n)) # FlattenSeq(b)}
<1>2. D = {}
  <2> SUFFICES ASSUME D # {} PROVE FALSE
    OBVIOUS
  <2>1. PICK n \in D : \A m \in D : n <= m
    <3>1. D \subseteq Nat
      OBVIOUS
    <3> HIDE DEF D
    <3> QED BY <3>1, LeastNat, Zenon
  <2>2. Pad(b, Len(b)) = b
    <3>1. \A i \in 1..Len(b) : Pad(b, Len(b))[i] = b[i]
      BY <1>0 DEF Pad
    <3> QED BY <1>0, <1>1, <3>1, SeqEqual
  <2>3. n # Len(b)
    BY <2>2
  <2>4. PICK m \in Nat : n = m + 1 /\ Len(b) <= m /\ ~(n <= m)
    <3>1. n - 1 \in Nat /\ n = (n - 1) + 1 /\ Len(b) <= n - 1 /\ ~(n <= n - 1)
      BY <1>0, <2>3
    <3> QED BY <3>1
  <2>5. FlattenSeq(Pad(b, m)) = FlattenSeq(b)
    BY <2>1, <2>4
  <2>6. Pad(b, n) = Append(Pad(b, m), <<>>)
    <3> DEFINE c1 == Pad(b, n)
               d == Append(Pad(b, m), <<>>)
    <3>1. c1 \in Seq(Seq(R)) /\ Len(c1) = n
      BY <1>1
    <3>2. Pad(b, m) \in Seq(Seq(R)) /\ Len(Pad(b, m)) = m /\ <<>> \in Seq(R)
      BY <1>1, <2>4
    <3>3. d \in Seq(Seq(R)) /\ Len(d) = n /\ d[n] = <<>> /\ \A i \in 1..m : d[i] = Pad(b, m)[i]
      <4> DEFINE e == <<>>
                 f == Pad(b, m)
                 Lists == Seq(R)
      <4>1. e \in Lists /\ f \in Seq(Lists) /\ Len(f) = m
        BY <3>2
      <4> HIDE DEF e, f, Lists
      <4>2. /\ Append(f, e) \in Seq(Lists) /\ Len(Append(f, e)) = Len(f) + 1
            /\ Append(f, e)[Len(f) + 1] = e /\ \A i \in 1..Len(f) : Append(f, e)[i] = f[i]
        BY <4>1, AppendProperties
      <4> QED BY <2>4, <4>1, <4>2 DEF e, f, Lists
    <3>4. \A i \in 1..m : Pad(b, m)[i] = c1[i]
      BY <2>4 DEF Pad
    <3>5. c1[n] = <<>>
      BY <1>0, <2>4 DEF Pad
    <3>6. \A i \in 1..n : i = n \/ i \in 1..m
      BY <2>4
    <3> HIDE DEF c1, d
    <3>7. \A i \in 1..Len(c1) : c1[i] = d[i]
      BY <3>1, <3>3, <3>4, <3>5, <3>6, Zenon
    <3>8. c1 = d
      BY <3>1, <3>3, <3>7, SeqEqual
    <3> QED BY <3>8 DEF c1, d
  <2>7. FlattenSeq(Append(Pad(b, m), <<>>)) = FlattenSeq(b) \o <<>>
    <3>1. Pad(b, m) \in Seq(Seq(R)) /\ <<>> \in Seq(R)
      BY <1>1, <2>4
    <3> QED BY <2>5, <3>1, FlattenFacts, Zenon
  <2>8. FlattenSeq(b) \o <<>> = FlattenSeq(b)
    BY FlattenFacts, ConcatEmptySeq
  <2> QED BY <2>6, <2>7, <2>8, Zenon
<1> QED BY <1>1, <1>2, Zenon

-----------------------------------------------------------------------------
(* A row more, wherever it goes.                                           *)

\* The members of two lists one after the other.
LEMMA ToSetConcat ==
    ASSUME NEW R, NEW s \in Seq(R), NEW t \in Seq(R)
    PROVE  ToSet(s \o t) = ToSet(s) \cup ToSet(t)
<1>1. ToSet(s) = Range(s) /\ ToSet(t) = Range(t) /\ ToSet(s \o t) = Range(s \o t)
  BY DEF ToSet, Range
<1> QED BY <1>1, RangeConcatenation

\* The members of a list with one more.
LEMMA ToSetAppend ==
    ASSUME NEW R, NEW s \in Seq(R), NEW x \in R
    PROVE  ToSet(Append(s, x)) = ToSet(s) \cup {x} /\ Len(Append(s, x)) = Len(s) + 1
<1> DEFINE t == <<x>>
<1>1. Append(s, x) = s \o t /\ t \in Seq(R)
  BY AppendIsConcat
<1>2. ToSet(t) = {x}
  BY DEF ToSet
<1> HIDE DEF t
<1>3. ToSet(Append(s, x)) = ToSet(s) \cup {x}
  BY <1>1, <1>2, ToSetConcat
<1>4. Len(Append(s, x)) = Len(s) + 1
  BY AppendProperties
<1> QED BY <1>3, <1>4

\* The indexes of a list with one more element.
LEMMA LastIndex ==
    ASSUME NEW n \in Nat
    PROVE  /\ \A i \in 1..(n + 1) : i = n + 1 \/ i \in 1..n
           /\ n + 1 \in 1..(n + 1) /\ \A i \in 1..n : i \in 1..(n + 1) /\ i # n + 1
  OBVIOUS

\* t has the elements of s and x
OneMore(t, s, x) == ToSet(t) = ToSet(s) \cup {x} /\ Len(t) = Len(s) + 1

\* One element more in the first of two lists is one more in both.
LEMMA OneMoreConcat ==
    ASSUME NEW R, NEW s \in Seq(R), NEW t \in Seq(R), NEW u \in Seq(R), NEW x, OneMore(t, s, x)
    PROVE  OneMore(t \o u, s \o u, x) /\ OneMore(u \o t, u \o s, x)
<1>1. /\ ToSet(t \o u) = ToSet(t) \cup ToSet(u) /\ ToSet(s \o u) = ToSet(s) \cup ToSet(u)
      /\ ToSet(u \o t) = ToSet(u) \cup ToSet(t) /\ ToSet(u \o s) = ToSet(u) \cup ToSet(s)
  BY ToSetConcat
<1>2. /\ Len(t \o u) = Len(t) + Len(u) /\ Len(s \o u) = Len(s) + Len(u)
      /\ Len(u \o t) = Len(u) + Len(t) /\ Len(u \o s) = Len(u) + Len(s)
  BY ConcatProperties
<1>3. Len(s) \in Nat /\ Len(t) \in Nat /\ Len(u) \in Nat
  OBVIOUS
<1>4. ToSet(t) = ToSet(s) \cup {x} /\ Len(t) = Len(s) + 1
  BY DEF OneMore
<1>5. ToSet(t \o u) = ToSet(s \o u) \cup {x} /\ ToSet(u \o t) = ToSet(u \o s) \cup {x}
  BY <1>1, <1>4
<1>6. Len(t \o u) = Len(s \o u) + 1 /\ Len(u \o t) = Len(u \o s) + 1
  BY <1>2, <1>3, <1>4
<1> QED BY <1>5, <1>6 DEF OneMore

Grown(s, p, row) == [s EXCEPT ![p] = Append(s[p], row)]

\* the pages with a row more on page p
LEMMA GrowPage ==
    ASSUME NEW R, NEW pages \in Seq(Seq(R)), NEW p \in 1..Len(pages), NEW row \in R
    PROVE  /\ Grown(pages, p, row) \in Seq(Seq(R)) /\ Len(Grown(pages, p, row)) = Len(pages)
           /\ \A q \in 1..Len(pages) :
                Grown(pages, p, row)[q] = IF q = p THEN Append(pages[p], row) ELSE pages[q]
           /\ OneMore(FlattenSeq(Grown(pages, p, row)), FlattenSeq(pages), row)
<1>0. ASSUME NEW s \in Seq(Seq(R)), NEW q \in 1..Len(s)
      PROVE  /\ Grown(s, q, row) \in Seq(Seq(R)) /\ Len(Grown(s, q, row)) = Len(s)
             /\ \A i \in 1..Len(s) : Grown(s, q, row)[i] = IF i = q THEN Append(s[q], row) ELSE s[i]
  <2>1. s[q] \in Seq(R) /\ Append(s[q], row) \in Seq(R)
    <3>1. s[q] \in Seq(R)
      BY ElementOfSeq
    <3> QED BY <3>1
  <2> QED BY <2>1, ExceptSeq DEF Grown
<1> DEFINE P == {s \in Seq(Seq(R)) :
                   \A q \in 1..Len(s) : OneMore(FlattenSeq(Grown(s, q, row)), FlattenSeq(s), row)}
           Lists == Seq(R)
<1>1. <<>> \in P
  OBVIOUS
<1>2. ASSUME NEW s \in Seq(Seq(R)), NEW x \in Seq(R), s \in P, NEW q \in 1..Len(Append(s, x))
      PROVE  OneMore(FlattenSeq(Grown(Append(s, x), q, row)), FlattenSeq(Append(s, x)), row)
  <2>0. Len(s) \in Nat /\ Append(s, x) \in Seq(Seq(R)) /\ Len(Append(s, x)) = Len(s) + 1
    OBVIOUS
  <2>1. FlattenSeq(Append(s, x)) = FlattenSeq(s) \o x /\ FlattenSeq(s) \in Seq(R)
    BY FlattenFacts, Zenon
  <2> DEFINE g == Grown(Append(s, x), q, row)
  <2>2. /\ g \in Seq(Seq(R)) /\ Len(g) = Len(s) + 1
        /\ \A i \in 1..(Len(s) + 1) : g[i] = IF i = q THEN Append(Append(s, x)[q], row)
                                                      ELSE Append(s, x)[i]
    BY <1>0, <2>0, Zenon
  <2>3. Append(s, x)[Len(s) + 1] = x /\ \A i \in 1..Len(s) : Append(s, x)[i] = s[i]
    <3> HIDE DEF P
    <3> QED BY <2>0, AppendProperties
  <2>4. \A i \in 1..(Len(s) + 1) : i = Len(s) + 1 \/ i \in 1..Len(s)
    BY <2>0, LastIndex, Zenon
  <2>40. Len(s) + 1 \in 1..(Len(s) + 1) /\ \A i \in 1..Len(s) : i \in 1..(Len(s) + 1) /\ i # Len(s) + 1
    BY <2>0, LastIndex
  <2> HIDE DEF g
  <2>5. CASE q = Len(s) + 1
    <3>1. Append(x, row) \in Seq(R)
      OBVIOUS
    <3> DEFINE d == Append(s, Append(x, row))
    <3>2. /\ d \in Seq(Seq(R)) /\ Len(d) = Len(s) + 1 /\ d[Len(s) + 1] = Append(x, row)
          /\ \A i \in 1..Len(s) : d[i] = s[i]
      BY <3>1, AppendProperties
    <3> HIDE DEF d
    <3>3. g[Len(s) + 1] = Append(x, row) /\ \A i \in 1..Len(s) : g[i] = s[i]
      BY <2>2, <2>3, <2>40, <2>5, Zenon
    <3>4. \A i \in 1..Len(g) : g[i] = d[i]
      BY <2>2, <2>4, <3>2, <3>3, Zenon
    <3>5. g = d
      <4>1. g \in Seq(Lists) /\ d \in Seq(Lists) /\ Len(g) = Len(d)
        BY <2>2, <3>2, Zenon
      <4> HIDE DEF Lists
      <4> QED BY <3>4, <4>1, SeqEqual, Zenon
    <3>6. FlattenSeq(d) = FlattenSeq(s) \o Append(x, row)
      BY <3>1, FlattenFacts, Zenon DEF d
    <3>7. OneMore(Append(x, row), x, row)
      BY ToSetAppend DEF OneMore
    <3>8. OneMore(FlattenSeq(s) \o Append(x, row), FlattenSeq(s) \o x, row)
      BY <2>1, <3>1, <3>7, OneMoreConcat, Zenon
    <3> QED BY <2>1, <3>5, <3>6, <3>8 DEF g
  <2>6. CASE q \in 1..Len(s)
    <3> DEFINE h == Grown(s, q, row)
               d == Append(h, x)
    <3>1. /\ h \in Seq(Seq(R)) /\ Len(h) = Len(s)
          /\ \A i \in 1..Len(s) : h[i] = IF i = q THEN Append(s[q], row) ELSE s[i]
      BY <1>0, <2>6
    <3>2. OneMore(FlattenSeq(h), FlattenSeq(s), row)
      BY <1>2, <2>6
    <3> HIDE DEF h
    <3>3. /\ d \in Seq(Seq(R)) /\ Len(d) = Len(s) + 1 /\ d[Len(s) + 1] = x
          /\ \A i \in 1..Len(s) : d[i] = h[i]
      BY <3>1, AppendProperties
    <3> HIDE DEF d
    <3>4. g[Len(s) + 1] = x
      BY <2>2, <2>3, <2>40, <2>6
    <3>5. \A i \in 1..Len(s) : g[i] = h[i]
      BY <2>2, <2>3, <2>40, <2>6, <3>1, Zenon
    <3>6. \A i \in 1..Len(g) : g[i] = d[i]
      BY <2>2, <2>4, <3>3, <3>4, <3>5, Zenon
    <3>7. g = d
      <4>1. g \in Seq(Lists) /\ d \in Seq(Lists) /\ Len(g) = Len(d)
        BY <2>2, <3>3, Zenon
      <4> HIDE DEF Lists
      <4> QED BY <3>6, <4>1, SeqEqual, Zenon
    <3>8. FlattenSeq(d) = FlattenSeq(h) \o x /\ FlattenSeq(h) \in Seq(R)
      BY <3>1, FlattenFacts, Zenon DEF d
    <3>9. OneMore(FlattenSeq(h) \o x, FlattenSeq(s) \o x, row)
      BY <2>1, <3>2, <3>8, OneMoreConcat
    <3> QED BY <2>1, <3>7, <3>8, <3>9 DEF g
  <2> QED BY <2>0, <2>4, <2>5, <2>6
<1>3. ASSUME NEW s \in Seq(Seq(R)), NEW x \in Seq(R), s \in P PROVE Append(s, x) \in P
  <2>1. Append(s, x) \in Seq(Seq(R))
    OBVIOUS
  <2> QED BY <1>2, <1>3, <2>1
<1>4. Seq(Lists) \subseteq P
  <2>1. \A s \in Seq(Lists), x \in Lists : s \in P => Append(s, x) \in P
    BY <1>3, Zenon
  <2> HIDE DEF P, Lists
  <2> QED BY <1>1, <2>1, EveryList
<1> QED BY <1>0, <1>4

-----------------------------------------------------------------------------
(* Sets of rows under changes of one row.                                  *)

Unique(S) == \A q, w \in S : q.rid = w.rid => q = w
Live(S) == {q \in S : ~q.deleted}
Put(S, row) == {q \in S : q.rid # row.rid} \cup {row}
LiveOf(row) == IF row.deleted THEN 0 ELSE 1

\* Replacing the row of an id keeps one row per id.
LEMMA PutUnique ==
    ASSUME NEW S, Unique(S), NEW row PROVE Unique(Put(S, row))
  BY DEF Unique, Put

\* a new id
LEMMA PutNew ==
    ASSUME NEW S, NEW row, IsFiniteSet(S), IsFiniteSet(Live(S)),
           \A q \in S : q.rid # row.rid, ~row.deleted
    PROVE  /\ Put(S, row) = S \cup {row}
           /\ Cardinality(S \cup {row}) = Cardinality(S) + 1
           /\ Cardinality(Live(S \cup {row})) = Cardinality(Live(S)) + 1
<1>1. Put(S, row) = S \cup {row} /\ row \notin S
  BY DEF Put
<1>2. Live(S \cup {row}) = Live(S) \cup {row} /\ row \notin Live(S)
  BY <1>1 DEF Live
<1>3. Cardinality(S \cup {row}) = Cardinality(S) + 1
  BY <1>1, FS_AddElement, Zenon
<1>4. Cardinality(Live(S) \cup {row}) = Cardinality(Live(S)) + 1
  BY <1>2, FS_AddElement
<1> QED BY <1>1, <1>2, <1>3, <1>4, Zenon

Swap(S, old, row) == (S \ {old}) \cup {row}

\* Replacing a member by another keeps the size of the set.
LEMMA SwapCard ==
    ASSUME NEW S, IsFiniteSet(S), NEW old \in S, NEW row, row \notin S \ {old}
    PROVE  Cardinality(Swap(S, old, row)) = Cardinality(S)
<1> DEFINE T == S \ {old}
<1>1. IsFiniteSet(T) /\ Cardinality(T) = Cardinality(S) - 1
  BY FS_RemoveElement
<1>2. row \notin T
  OBVIOUS
<1>3. Swap(S, old, row) = T \cup {row}
  BY DEF Swap
<1> HIDE DEF T
<1>4. Cardinality(T \cup {row}) = Cardinality(T) + 1
  BY <1>1, <1>2, FS_AddElement
<1>5. Cardinality(S) \in Nat
  BY FS_CardinalityType
<1> QED BY <1>1, <1>3, <1>4, <1>5

\* an id that is there
LEMMA PutOld ==
    ASSUME NEW S, NEW row, NEW old \in S, IsFiniteSet(S), IsFiniteSet(Live(S)),
           Unique(S), row.rid = old.rid
    PROVE  /\ Put(S, row) = Swap(S, old, row)
           /\ Cardinality(Put(S, row)) = Cardinality(S)
           /\ Cardinality(Live(Put(S, row))) = Cardinality(Live(S)) - LiveOf(old) + LiveOf(row)
<1>1. Put(S, row) = Swap(S, old, row)
  BY DEF Put, Swap, Unique
<1>2. row \notin S \ {old}
  BY DEF Unique
<1>3. Cardinality(Put(S, row)) = Cardinality(S)
  BY <1>1, <1>2, SwapCard
<1>4. Cardinality(Live(S)) \in Nat
  BY FS_CardinalityType
<1>5. CASE ~old.deleted /\ ~row.deleted
  <2>1. Live(Put(S, row)) = Swap(Live(S), old, row)
    BY <1>1, <1>5 DEF Live, Swap
  <2>2. old \in Live(S) /\ row \notin Live(S) \ {old}
    BY <1>2, <1>5 DEF Live
  <2>3. Cardinality(Swap(Live(S), old, row)) = Cardinality(Live(S))
    BY <2>2, SwapCard
  <2> QED BY <1>1, <1>3, <1>4, <1>5, <2>1, <2>3 DEF LiveOf
<1>6. CASE ~old.deleted /\ row.deleted
  <2>1. Live(Put(S, row)) = Live(S) \ {old} /\ old \in Live(S)
    BY <1>1, <1>2, <1>6 DEF Live, Swap
  <2>2. Cardinality(Live(S) \ {old}) = Cardinality(Live(S)) - 1
    BY <2>1, FS_RemoveElement, Zenon
  <2> QED BY <1>1, <1>3, <1>4, <1>6, <2>1, <2>2 DEF LiveOf
<1>7. CASE old.deleted /\ ~row.deleted
  <2>1. Live(Put(S, row)) = Live(S) \cup {row} /\ row \notin Live(S)
    BY <1>1, <1>2, <1>7 DEF Live, Swap
  <2>2. Cardinality(Live(S) \cup {row}) = Cardinality(Live(S)) + 1
    BY <2>1, FS_AddElement, Zenon
  <2> QED BY <1>1, <1>3, <1>4, <1>7, <2>1, <2>2 DEF LiveOf
<1>8. CASE old.deleted /\ row.deleted
  <2>1. Live(Put(S, row)) = Live(S)
    BY <1>1, <1>8 DEF Live, Swap
  <2> QED BY <1>1, <1>3, <1>4, <1>8, <2>1 DEF LiveOf
<1> QED BY <1>5, <1>6, <1>7, <1>8

-----------------------------------------------------------------------------
(* Lists of rows.                                                          *)

\* The rows that n and a, the allocator and the number of live rows, describe.
Sound(F, n, a) ==
    /\ F \in Seq(Row)
    /\ Cardinality(ToSet(F)) = Len(F)
    /\ Unique(ToSet(F))
    /\ \A row \in ToSet(F) : row.rid < n
    /\ a = Cardinality(Live(ToSet(F)))

\* There are n indexes from 1 to n.
LEMMA IntervalCard ==
    ASSUME NEW n \in Nat PROVE IsFiniteSet(1..n) /\ Cardinality(1..n) = n
<1>1. 1 \in Int /\ n \in Int
  OBVIOUS
<1>2. IsFiniteSet(1..n) /\ Cardinality(1..n) = IF 1 > n THEN 0 ELSE n - 1 + 1
  BY <1>1, FS_Interval
<1> QED BY <1>2

\* A list has no more members than elements, and as many only when none
\* is repeated.
LEMMA SeqElements ==
    ASSUME NEW R, NEW F \in Seq(R)
    PROVE  /\ ToSet(F) \subseteq R
           /\ IsFiniteSet(ToSet(F))
           /\ \A i \in 1..Len(F) : F[i] \in ToSet(F)
           /\ \A x \in ToSet(F) : \E i \in 1..Len(F) : x = F[i]
           /\ Cardinality(ToSet(F)) = Len(F) =>
                \A i, j \in 1..Len(F) : F[i] = F[j] => i = j
<1>1. Len(F) \in Nat /\ DOMAIN F = 1..Len(F) /\ \A i \in 1..Len(F) : F[i] \in R
  OBVIOUS
<1>2. ToSet(F) = {F[i] : i \in 1..Len(F)}
  BY <1>1 DEF ToSet
<1>3. F \in Surjection(1..Len(F), ToSet(F))
  <2>1. F \in [1..Len(F) -> ToSet(F)]
    BY <1>1, <1>2
  <2> QED BY <1>2, <2>1 DEF Surjection
<1>4. IsFiniteSet(1..Len(F)) /\ Cardinality(1..Len(F)) = Len(F)
  BY <1>1, IntervalCard
<1>5. IsFiniteSet(ToSet(F))
  BY <1>3, <1>4, FS_Surjection
<1>6. ASSUME Cardinality(ToSet(F)) = Len(F)
      PROVE  \A i, j \in 1..Len(F) : F[i] = F[j] => i = j
  <2>1. F \in Injection(1..Len(F), ToSet(F))
    BY <1>3, <1>4, <1>6, FS_SurjSameCardinalityImpliesInj
  <2> QED BY <1>1, <2>1 DEF Injection, IsInjective
<1> QED BY <1>1, <1>2, <1>5, <1>6

\* Finitely many rows have finitely many live ones.
LEMMA LiveFinite ==
    ASSUME NEW S, IsFiniteSet(S) PROVE IsFiniteSet(Live(S))
  BY FS_Subset DEF Live

Fresh(S, row) == \A q \in S : q.rid # row.rid

\* A row with a fresh id keeps the list sound, with one more live row.
LEMMA SoundGrows ==
    ASSUME NEW F, NEW G \in Seq(Row), NEW n \in Nat, NEW m \in Nat, NEW a, Sound(F, n, a),
           NEW row \in Row, OneMore(G, F, row), ~row.deleted,
           Fresh(ToSet(F), row), n <= m, row.rid < m
    PROVE  Sound(G, m, a + 1) /\ ToSet(G) = Put(ToSet(F), row)
<1> DEFINE S == ToSet(F)
<1>1. /\ F \in Seq(Row) /\ Cardinality(S) = Len(F) /\ Unique(S) /\ \A q \in S : q.rid < n
      /\ a = Cardinality(Live(S))
  BY DEF Sound
<1>2. IsFiniteSet(S) /\ S \subseteq Row
  BY <1>1, SeqElements
<1>3. IsFiniteSet(Live(S))
  BY <1>2, LiveFinite
<1>4. ToSet(G) = S \cup {row} /\ Len(G) = Len(F) + 1
  BY DEF OneMore
<1>5. \A q \in S : q.rid # row.rid
  BY DEF Fresh
<1> HIDE DEF S
<1>6. /\ Put(S, row) = S \cup {row}
      /\ Cardinality(S \cup {row}) = Cardinality(S) + 1
      /\ Cardinality(Live(S \cup {row})) = Cardinality(Live(S)) + 1
  BY <1>2, <1>3, <1>5, PutNew, Zenon
<1>7. Unique(ToSet(G))
  BY <1>1, <1>4, <1>6, PutUnique, Zenon
<1>8. \A q \in ToSet(G) : q.rid < m
  <2>1. ASSUME NEW q \in S PROVE q.rid < m
    <3>1. q.rid < n /\ q.rid \in 0..(MaxRid - 1)
      BY <1>1, <1>2 DEF Row
    <3>2. q.rid \in Int
      BY <3>1, RowStoreAssumption
    <3> QED BY <3>1, <3>2
  <2> QED BY <1>4, <2>1
<1>9. Sound(G, m, a + 1)
  BY <1>1, <1>4, <1>6, <1>7, <1>8 DEF Sound
<1> QED BY <1>4, <1>6, <1>9 DEF S

\* Replacing a row by one of the same id keeps the list sound, with the count
\* of live rows moved by the difference.
LEMMA SoundEdited ==
    ASSUME NEW F, NEW n \in Nat, NEW m \in Nat, NEW a, Sound(F, n, a), NEW i \in 1..Len(F),
           NEW row \in Row, row.rid = F[i].rid, n <= m
    PROVE  /\ Sound([F EXCEPT ![i] = row], m, a - LiveOf(F[i]) + LiveOf(row))
           /\ ToSet([F EXCEPT ![i] = row]) = Put(ToSet(F), row)
<1> DEFINE S == ToSet(F)
           G == [F EXCEPT ![i] = row]
           old == F[i]
<1>1. /\ F \in Seq(Row) /\ Cardinality(S) = Len(F) /\ Unique(S) /\ \A q \in S : q.rid < n
      /\ a = Cardinality(Live(S))
  BY DEF Sound
<1>2. /\ IsFiniteSet(S) /\ S \subseteq Row /\ \A j \in 1..Len(F) : F[j] \in S
      /\ \A q \in S : \E j \in 1..Len(F) : q = F[j]
      /\ \A j, k \in 1..Len(F) : F[j] = F[k] => j = k
  BY <1>1, SeqElements
<1>3. IsFiniteSet(Live(S))
  BY <1>2, LiveFinite
<1>4. G \in Seq(Row) /\ Len(G) = Len(F) /\ \A j \in 1..Len(F) : G[j] = IF j = i THEN row ELSE F[j]
  BY <1>1, ExceptSeq
<1>5. old \in S /\ old.rid = row.rid /\ old \in Row
  BY <1>2
<1>7. ToSet(G) = Swap(S, old, row)
  <2>1. /\ \A j \in 1..Len(F) : G[j] \in ToSet(G)
        /\ \A q \in ToSet(G) : \E j \in 1..Len(F) : q = G[j]
    <3> HIDE DEF G
    <3> QED BY <1>4, SeqElements
  <2>2. ASSUME NEW q \in ToSet(G) PROVE q \in Swap(S, old, row)
    <3>1. PICK j \in 1..Len(F) : q = G[j]
      BY <2>1, Zenon
    <3>2. CASE j = i
      BY <1>4, <3>1, <3>2 DEF Swap
    <3>3. CASE j # i
      <4>1. q = F[j] /\ q \in S /\ q # old
        BY <1>2, <1>4, <3>1, <3>3
      <4> QED BY <4>1 DEF Swap
    <3> QED BY <3>2, <3>3
  <2>3. ASSUME NEW q \in Swap(S, old, row) PROVE q \in ToSet(G)
    <3>1. CASE q = row
      BY <1>4, <2>1, <3>1, Zenon
    <3>2. CASE q # row
      <4>1. q \in S /\ q # old
        BY <2>3, <3>2 DEF Swap
      <4>2. PICK j \in 1..Len(F) : q = F[j]
        BY <1>2, <4>1
      <4>3. j # i
        BY <4>1, <4>2
      <4>4. G[j] = q
        BY <1>4, <4>2, <4>3
      <4> QED BY <2>1, <4>4, Zenon
    <3> QED BY <3>1, <3>2
  <2> HIDE DEF G, S, old
  <2> QED BY <2>2, <2>3, Zenon
<1> HIDE DEF S, old
<1>8. /\ Put(S, row) = Swap(S, old, row)
      /\ Cardinality(Put(S, row)) = Cardinality(S)
      /\ Cardinality(Live(Put(S, row))) = Cardinality(Live(S)) - LiveOf(old) + LiveOf(row)
  BY <1>1, <1>2, <1>3, <1>5, PutOld
<1>9. Unique(ToSet(G))
  <2> HIDE DEF G
  <2> QED BY <1>1, <1>7, <1>8, PutUnique
<1>10. \A q \in ToSet(G) : q.rid < m
  <2>1. ASSUME NEW q \in S PROVE q.rid < m
    <3>1. q.rid < n /\ q.rid \in 0..(MaxRid - 1)
      BY <1>1, <1>2 DEF Row
    <3>2. q.rid \in Int
      BY <3>1, RowStoreAssumption
    <3> QED BY <3>1, <3>2
  <2>2. row.rid < m
    BY <1>5, <2>1
  <2> HIDE DEF G
  <2> QED BY <1>7, <2>1, <2>2 DEF Swap
<1>11. Sound(G, m, a - LiveOf(old) + LiveOf(row))
  <2> HIDE DEF G
  <2> QED BY <1>1, <1>4, <1>7, <1>8, <1>9, <1>10 DEF Sound
<1> QED BY <1>7, <1>8, <1>11 DEF S, old

-----------------------------------------------------------------------------
(* The invariant.                                                          *)

\* The pages, and the metadata that describes them.
Stored(pages, n, c, a) ==
    /\ pages \in Seq(Seq(Row))
    /\ \A p \in 1..Len(pages) : Fits(pages[p])
    /\ c = Len(pages)
    /\ n \in 0..MaxRid
    /\ Sound(FlattenSeq(pages), n, a)

Good(f) ==
    /\ f.meta = Meta(f.meta[1], f.meta[2], f.meta[3])
    /\ Stored(f.pages, f.meta[1], f.meta[2], f.meta[3])

\* The file is there or not; an open store has its metadata page in memory.
RInv ==
    /\ open \in BOOLEAN
    /\ file = NoFile \/ Good(file)
    /\ open => Good(file) /\ file.meta = Meta(next, count, active)
    /\ ~open => next = 0 /\ count = 0 /\ active = 0

\* SelectInSeq picks an element of the set of matches.
LEMMA MinFacts ==
    ASSUME NEW n \in Nat, NEW I \in SUBSET (1..n), I # {}
    PROVE  Min(I) \in I
<1>1. I \subseteq Nat
  OBVIOUS
<1>2. PICK x \in I : \A y \in I : x <= y
  BY <1>1, LeastNat, Zenon
<1> QED BY <1>2, Zenon DEF Min

\* The index is that of a row with the id, or 0 and no row has it.
LEMMA RowIndex ==
    ASSUME NEW F \in Seq(Row), NEW r
    PROVE  \/ FindRowIndexById(F, r) \in 1..Len(F) /\ F[FindRowIndexById(F, r)].rid = r
           \/ FindRowIndexById(F, r) = 0 /\ \A q \in ToSet(F) : q.rid # r
<1> DEFINE I == {i \in 1..Len(F) : F[i].rid = r}
<1>1. FindRowIndexById(F, r) = IF I # {} THEN Min(I) ELSE 0
  BY DEF FindRowIndexById, SelectInSeq
<1>2. Len(F) \in Nat /\ I \in SUBSET (1..Len(F))
  OBVIOUS
<1>3. CASE I # {}
  <2>1. Min(I) \in I
    <3> HIDE DEF I
    <3> QED BY <1>2, <1>3, MinFacts, Zenon
  <2> QED BY <1>1, <1>3, <2>1
<1>4. CASE I = {}
  <2>1. \A q \in ToSet(F) : \E i \in 1..Len(F) : q = F[i]
    BY SeqElements
  <2>2. \A q \in ToSet(F) : q.rid # r
    BY <1>4, <2>1
  <2>3. FindRowIndexById(F, r) = 0
    <3> HIDE DEF I
    <3> QED BY <1>1, <1>4
  <2> QED BY <2>2, <2>3
<1> QED BY <1>3, <1>4

\* The page found has room, or it is a new one.
LEMMA PageIndex ==
    ASSUME NEW t, Stored(file.pages, next, count, active)
    PROVE  \/ /\ FindPageWithFreeSpace(t) \in 1..count
              /\ HasRoom(file.pages[FindPageWithFreeSpace(t)], t)
           \/ FindPageWithFreeSpace(t) = count + 1
<1> DEFINE I == {i \in 1..Len(file.pages) : HasRoom(file.pages[i], t)}
<1>0. count = Len(file.pages) /\ file.pages \in Seq(Seq(Row))
  BY DEF Stored
<1>1. SubSeq(file.pages, 1, count) = file.pages
  BY <1>0, SubSeqFull
<1>2. FindPageWithFreeSpace(t) = IF (IF I # {} THEN Min(I) ELSE 0) = 0 THEN count + 1
                                 ELSE (IF I # {} THEN Min(I) ELSE 0)
  BY <1>0, <1>1, Zenon DEF FindPageWithFreeSpace, SelectInSeq
<1>3. Len(file.pages) \in Nat /\ I \in SUBSET (1..Len(file.pages))
  BY <1>0
<1>4. CASE I # {}
  <2>1. Min(I) \in I
    <3> HIDE DEF I
    <3> QED BY <1>3, <1>4, MinFacts, Zenon
  <2>2. Min(I) # 0
    BY <1>3, <2>1
  <2>3. FindPageWithFreeSpace(t) = Min(I)
    <3> HIDE DEF I
    <3> QED BY <1>2, <1>4, <2>2
  <2> QED BY <1>0, <2>1, <2>3
<1>5. CASE I = {}
  <2> HIDE DEF I
  <2> QED BY <1>2, <1>5
<1> QED BY <1>4, <1>5

\* What the open store has.
LEMMA OpenFacts ==
    ASSUME RInv, open
    PROVE  /\ file.meta = Meta(next, count, active) /\ file # NoFile
           /\ Stored(file.pages, next, count, active)
           /\ LoadAllRows = FlattenSeq(file.pages)
           /\ Sound(LoadAllRows, next, active) /\ LoadAllRows \in Seq(Row)
           /\ next \in Nat /\ next <= MaxRid /\ count \in Nat /\ active \in Nat
<1>1. Good(file) /\ file.meta = Meta(next, count, active)
  BY DEF RInv
<1>2. file.meta[1] = next /\ file.meta[2] = count /\ file.meta[3] = active
  BY <1>1 DEF Meta
<1>3. Stored(file.pages, next, count, active)
  BY <1>1, <1>2 DEF Good
<1>4. file.pages \in Seq(Seq(Row)) /\ count = Len(file.pages) /\ next \in 0..MaxRid
  BY <1>3 DEF Stored
<1>5. SubSeq(file.pages, 1, count) = file.pages
  BY <1>4, SubSeqFull
<1>6. LoadAllRows = FlattenSeq(file.pages)
  BY <1>5, Zenon DEF LoadAllRows
<1>7. Sound(LoadAllRows, next, active) /\ LoadAllRows \in Seq(Row)
  BY <1>3, <1>6 DEF Stored, Sound
<1>8. active \in Nat
  <2>1. IsFiniteSet(Live(ToSet(LoadAllRows)))
    BY <1>7, SeqElements, LiveFinite
  <2>2. active = Cardinality(Live(ToSet(LoadAllRows)))
    BY <1>7 DEF Sound
  <2> QED BY <2>1, <2>2, FS_CardinalityType
<1>9. file # NoFile
  BY <1>1 DEF NoFile, Meta
<1>10. next \in Nat /\ next <= MaxRid /\ count \in Nat
  BY <1>4, RowStoreAssumption
<1> QED BY <1>1, <1>3, <1>6, <1>7, <1>8, <1>9, <1>10

\* A change leaves an open store whose metadata describes the pages.
Written(n) ==
    /\ file'.meta = Meta(next', count', active')
    /\ Stored(file'.pages, next', count', active')
    /\ next' = n

\* The pages of a rewrite hold exactly the rows given.
LEMMA RewriteStep ==
    ASSUME RInv, open, NEW F, NEW n \in 0..MaxRid, NEW a, Sound(F, n, a), RewriteAllRows(F, n, a)
    PROVE  Written(n) /\ FlattenSeq(file'.pages) = F
<1> DEFINE b == PageBatches(F)
           c == IF Len(b) > count THEN Len(b) ELSE count
<1>1. F \in Seq(Row)
  BY DEF Sound
<1>2. /\ b \in Seq(Seq(Row)) /\ FlattenSeq(b) = F
      /\ \A p \in 1..Len(b) : Fits(b[p])
  <2>1. CASE F = <<>>
    <3>1. b = <<>>
      BY <2>1 DEF PageBatches
    <3> HIDE DEF b
    <3>2. FlattenSeq(<<>>) = <<>>
      BY FlattenFacts
    <3> QED BY <2>1, <3>1, <3>2
  <2>2. CASE F # <<>>
    <3>1. b = Pack(F)
      BY <2>2 DEF PageBatches
    <3>2. Pack(F) \in Seq(Seq(Row))
      BY <1>1, PackFacts DEF Batches
    <3> HIDE DEF b
    <3> QED BY <1>1, <3>1, <3>2, PackSound
  <2> QED BY <2>1, <2>2
<1> HIDE DEF b
<1>3. count \in Nat /\ Len(b) \in Nat
  BY <1>2, OpenFacts
<1>4. c \in Nat /\ Len(b) <= c
  BY <1>3
<1>5. file' = WriteMetadataPage(Pad(b, c), n, c, a) /\ count' = c /\ next' = n /\ active' = a
  BY DEF RewriteAllRows, Pad, b
<1> HIDE DEF c
<1>6. file'.pages = Pad(b, c) /\ file'.meta = Meta(n, c, a)
  BY <1>5 DEF WriteMetadataPage
<1>7. Pad(b, c) \in Seq(Seq(Row)) /\ Len(Pad(b, c)) = c /\ FlattenSeq(Pad(b, c)) = F
  BY <1>2, <1>4, PadFacts
<1>8. ASSUME NEW p \in 1..c PROVE Fits(Pad(b, c)[p])
  <2>1. Fits(<<>>)
    BY UsedBytesFacts, RowStoreAssumption DEF Fits
  <2>2. Pad(b, c)[p] = IF p <= Len(b) THEN b[p] ELSE <<>>
    BY DEF Pad
  <2>3. p <= Len(b) => p \in 1..Len(b)
    BY <1>3, <1>4
  <2> QED BY <1>2, <2>1, <2>2, <2>3
<1>9. Stored(Pad(b, c), n, c, a)
  BY <1>7, <1>8 DEF Stored
<1> QED BY <1>5, <1>6, <1>7, <1>9 DEF Written

\* What has been written satisfies the invariant.
LEMMA WrittenInv ==
    ASSUME RInv, open, UNCHANGED open, NEW n, Written(n) PROVE RInv'
<1>1. file'.meta = Meta(next', count', active') /\ Stored(file'.pages, next', count', active')
  BY DEF Written
<1>2. file'.meta[1] = next' /\ file'.meta[2] = count' /\ file'.meta[3] = active'
  BY <1>1 DEF Meta
<1>3. Good(file')
  BY <1>1, <1>2 DEF Good
<1> QED BY <1>1, <1>3 DEF RInv

-----------------------------------------------------------------------------
(* The actions.  Each of the four changes puts one row.                    *)

\* AllRows has the row now, under its id, and nothing else changed.
Puts(row) == AllRows' = Put(AllRows, row)

\* There is no file to begin with.
LEMMA InitRInv == Init => RInv
  BY Zenon DEF Init, RInv

\* Open creates the file or reads the counters back from its metadata.
LEMMA OpenStep ==
    ASSUME RInv, Open PROVE RInv' /\ AllRows' = AllRows /\ NextId' = NextId
<1>1. CASE file = NoFile
  <2>1. file' = [pages |-> <<>>, meta |-> Meta(0, 0, 0)] /\ next' = 0 /\ count' = 0 /\ active' = 0
    BY <1>1 DEF Open
  <2>2. file'.pages = <<>> /\ file'.meta = Meta(0, 0, 0) /\ file.pages = <<>>
    BY <1>1, <2>1 DEF NoFile
  <2>3. Stored(<<>>, 0, 0, 0)
    <3>1. FlattenSeq(<<>>) = <<>> /\ ToSet(<<>>) = {} /\ Live({}) = {}
      BY FlattenFacts DEF ToSet, Live
    <3>2. Cardinality({}) = 0
      BY FS_EmptySet
    <3>3. Sound(<<>>, 0, 0)
      <4>1. <<>> \in Seq(Row) /\ Len(<<>>) = 0
        OBVIOUS
      <4> DEFINE e == <<>>
      <4>2. e \in Seq(Row) /\ Len(e) = 0 /\ ToSet(e) = {}
        BY <3>1, <4>1
      <4> HIDE DEF e
      <4>3. Sound(e, 0, 0)
        BY <3>1, <3>2, <4>2, Zenon DEF Sound, Unique
      <4> QED BY <4>3 DEF e
    <3> QED BY <3>1, <3>3, RowStoreAssumption DEF Stored
  <2>4. file'.meta[1] = 0 /\ file'.meta[2] = 0 /\ file'.meta[3] = 0
    BY <2>2 DEF Meta
  <2>5. Good(file')
    BY <2>2, <2>3, <2>4 DEF Good
  <2>6. open' = TRUE
    BY DEF Open
  <2>7. RInv'
    BY <2>1, <2>2, <2>5, <2>6 DEF RInv
  <2>8. file' # NoFile
    BY <2>2 DEF NoFile, Meta
  <2>9. NextId' = NextId
    BY <1>1, <2>4, <2>8 DEF NextId, NoFile
  <2> QED BY <2>2, <2>7, <2>9 DEF AllRows
<1>2. CASE file # NoFile
  <2>1. /\ next' = file.meta[1] /\ count' = file.meta[2] /\ active' = file.meta[3]
        /\ file' = file /\ open' = TRUE
    BY <1>2 DEF Open
  <2>2. Good(file)
    BY <1>2 DEF RInv
  <2>3. file.meta = Meta(file.meta[1], file.meta[2], file.meta[3])
    BY <2>2 DEF Good
  <2>4. RInv'
    BY <2>1, <2>2, <2>3 DEF RInv
  <2> QED BY <2>1, <2>4 DEF AllRows, NextId, NoFile
<1> QED BY <1>1, <1>2

\* Close forgets the counters and leaves the file.
LEMMA CloseStep ==
    ASSUME RInv, Close PROVE RInv' /\ AllRows' = AllRows /\ NextId' = NextId
<1>1. file' = file /\ open' = FALSE /\ next' = 0 /\ count' = 0 /\ active' = 0 /\ Good(file)
  BY DEF Close, RInv
<1>2. RInv'
  BY <1>1, Zenon DEF RInv
<1> QED BY <1>1, <1>2 DEF AllRows, NextId, NoFile

RowFor(r, t, gone) == [rid |-> r, tuple |-> t, deleted |-> gone]

\* Insert adds a row with the next id, on a page that has room or a new one.
LEMMA InsertStep ==
    ASSUME RInv, NEW t \in Tuples, Insert(t)
    PROVE  /\ RInv' /\ Written(next + 1)
           /\ Puts(RowFor(next, t, FALSE))
<1> DEFINE row == RowFor(next, t, FALSE)
           p == FindPageWithFreeSpace(t)
           pages == file.pages
           F == FlattenSeq(pages)
<1>1. open /\ next < MaxRid /\ Storable(t) /\ open' = open
  BY DEF Insert
<1>2. /\ Stored(pages, next, count, active) /\ Sound(F, next, active) /\ F \in Seq(Row)
      /\ next \in Nat /\ count \in Nat /\ active \in Nat
  BY <1>1, OpenFacts
<1>3. pages \in Seq(Seq(Row)) /\ count = Len(pages) /\ \A q \in 1..Len(pages) : Fits(pages[q])
  BY <1>2 DEF Stored
<1>4. row \in Row /\ row.rid = next /\ row.tuple = t /\ ~row.deleted
  BY <1>1, <1>2, RowStoreAssumption DEF Row, RowFor
<1>5. Fresh(ToSet(F), row)
  <2>1. ASSUME NEW q \in ToSet(F) PROVE q.rid # next
    <3>1. q.rid < next /\ q \in Row
      BY <1>2, SeqElements DEF Sound
    <3>2. q.rid \in Int
      BY <3>1, RowStoreAssumption DEF Row
    <3> QED BY <1>2, <3>1, <3>2
  <2> QED BY <1>4, <2>1, Zenon DEF Fresh
<1>6. next + 1 \in Nat /\ next <= next + 1 /\ row.rid < next + 1 /\ next + 1 \in 0..MaxRid
  <2> HIDE DEF row, pages, F, p
  <2>1. next \in Nat /\ next < MaxRid /\ MaxRid \in Nat /\ row.rid = next
    BY <1>1, <1>2, <1>4, RowStoreAssumption
  <2> QED BY <2>1
<1>7. \/ p \in 1..count /\ HasRoom(pages[p], t)
      \/ p = count + 1
  BY <1>2, PageIndex
<1>8. /\ file' = WriteMetadataPage(IF p <= count THEN Grown(pages, p, row) ELSE Append(pages, <<row>>),
                                   next + 1, IF p <= count THEN count ELSE count + 1, active + 1)
      /\ next' = next + 1 /\ count' = (IF p <= count THEN count ELSE count + 1)
      /\ active' = active + 1
  BY DEF Insert, Grown, RowFor
<1> HIDE DEF row, p
<1>9. ASSUME NEW G, G \in Seq(Seq(Row)), OneMore(FlattenSeq(G), F, row),
             \A q \in 1..Len(G) : Fits(G[q]), count' = Len(G),
             file' = WriteMetadataPage(G, next + 1, count', active + 1)
      PROVE  RInv' /\ Written(next + 1) /\ Puts(row)
  <2>1. file'.pages = G /\ file'.meta = Meta(next', count', active')
    BY <1>8, <1>9 DEF WriteMetadataPage
  <2>2. FlattenSeq(G) \in Seq(Row)
    BY <1>9, FlattenFacts
  <2>3. Sound(FlattenSeq(G), next + 1, active + 1) /\ ToSet(FlattenSeq(G)) = Put(ToSet(F), row)
    <3> DEFINE m == next + 1
               H == FlattenSeq(G)
    <3>1. /\ H \in Seq(Row) /\ next \in Nat /\ m \in Nat /\ Sound(F, next, active) /\ row \in Row
          /\ OneMore(H, F, row) /\ ~row.deleted /\ Fresh(ToSet(F), row) /\ next <= m /\ row.rid < m
      BY <1>2, <1>4, <1>5, <1>6, <1>9, <2>2
    <3> HIDE DEF m, H, F
    <3>2. Sound(H, m, active + 1) /\ ToSet(H) = Put(ToSet(F), row)
      BY <3>1, SoundGrows
    <3> QED BY <3>2 DEF m, H
  <2>4. Stored(G, next + 1, count', active + 1)
    BY <1>6, <1>9, <2>3 DEF Stored
  <2>5. Written(next + 1)
    BY <1>8, <2>1, <2>4 DEF Written
  <2>6. RInv'
    BY <1>1, <2>5, WrittenInv
  <2>7. Puts(row)
    BY <2>1, <2>3 DEF Puts, AllRows
  <2> QED BY <2>5, <2>6, <2>7
<1>10. CASE p \in 1..count /\ HasRoom(pages[p], t)
  <2>1. p <= count /\ p \in 1..Len(pages)
    BY <1>2, <1>3, <1>10
  <2> DEFINE G == Grown(pages, p, row)
  <2>2. /\ G \in Seq(Seq(Row)) /\ Len(G) = Len(pages) /\ OneMore(FlattenSeq(G), F, row)
        /\ \A q \in 1..Len(pages) : G[q] = IF q = p THEN Append(pages[p], row) ELSE pages[q]
    <3>1. pages \in Seq(Seq(Row)) /\ p \in 1..Len(pages) /\ row \in Row
      BY <1>3, <1>4, <2>1
    <3> HIDE DEF pages
    <3> QED BY <3>1, GrowPage
  <2>3. file' = WriteMetadataPage(G, next + 1, count', active + 1) /\ count' = Len(G)
    BY <1>3, <1>8, <2>1, <2>2
  <2> HIDE DEF G
  <2>4. Fits(Append(pages[p], row))
    <3>1. pages[p] \in Seq(Row)
      BY <1>3, <2>1, ElementOfSeq
    <3>2. UsedBytes(Append(pages[p], row)) = UsedBytes(pages[p]) + SizeOf[t]
      BY <1>4, <3>1, UsedBytesFacts
    <3> QED BY <1>10, <3>2 DEF Fits, HasRoom
  <2>5. \A q \in 1..Len(G) : Fits(G[q])
    BY <1>3, <2>2, <2>4, Zenon
  <2> QED BY <1>9, <2>2, <2>3, <2>5, Zenon DEF row
<1>11. CASE p = count + 1
  <2>1. ~(p <= count)
    BY <1>2, <1>11
  <2> DEFINE x == <<row>>
             G == Append(pages, x)
  <2>2. x \in Seq(Row) /\ OneMore(Append(F, row), F, row) /\ Append(F, row) = F \o x
    BY <1>2, <1>4, ToSetAppend, AppendIsConcat DEF OneMore
  <2>3. Fits(x)
    <3>1. x = Append(<<>>, row) /\ <<>> \in Seq(Row)
      OBVIOUS
    <3>2. UsedBytes(x) = UsedBytes(<<>>) + SizeOf[row.tuple] /\ UsedBytes(<<>>) = 0
      BY <1>4, <3>1, UsedBytesFacts, Zenon
    <3>3. SizeOf[row.tuple] \in Nat /\ SizeOf[row.tuple] <= Capacity
      BY <1>1, <1>4, RowStoreAssumption DEF Storable
    <3> HIDE DEF x
    <3> QED BY <3>2, <3>3 DEF Fits
  <2>4. file' = WriteMetadataPage(G, next + 1, count', active + 1) /\ count' = Len(pages) + 1
    BY <1>3, <1>8, <2>1
  <2> HIDE DEF x
  <2>5. /\ G \in Seq(Seq(Row)) /\ Len(G) = Len(pages) + 1 /\ G[Len(pages) + 1] = x
        /\ \A q \in 1..Len(pages) : G[q] = pages[q]
    BY <1>3, <2>2, AppendProperties
  <2>6. FlattenSeq(G) = F \o x
    BY <1>3, <2>2, FlattenFacts
  <2> HIDE DEF G
  <2>7. \A q \in 1..Len(G) : q = Len(pages) + 1 \/ q \in 1..Len(pages)
    BY <1>2, <1>3, <2>5, LastIndex
  <2>8. \A q \in 1..Len(G) : Fits(G[q])
    BY <1>3, <2>3, <2>5, <2>7, Zenon
  <2>9. OneMore(FlattenSeq(G), F, row)
    BY <2>2, <2>6
  <2> QED BY <1>9, <2>4, <2>5, <2>8, <2>9, Zenon DEF row
<1> QED BY <1>7, <1>10, <1>11, Zenon

\* Rewriting the rows with one of them replaced.
LEMMA EditStep ==
    ASSUME RInv, open, UNCHANGED open, NEW i \in 1..Len(LoadAllRows), NEW row \in Row,
           row.rid = LoadAllRows[i].rid, NEW n \in 0..MaxRid, next <= n, NEW a,
           a = active - LiveOf(LoadAllRows[i]) + LiveOf(row),
           RewriteAllRows([LoadAllRows EXCEPT ![i] = row], n, a)
    PROVE  RInv' /\ Written(n) /\ Puts(row)
<1> DEFINE F == LoadAllRows
           G == [F EXCEPT ![i] = row]
<1>1. Sound(F, next, active) /\ F = FlattenSeq(file.pages) /\ next \in Nat
  BY OpenFacts
<1>2. n \in Nat
  BY RowStoreAssumption
<1>3. i \in 1..Len(F) /\ row.rid = F[i].rid /\ a = active - LiveOf(F[i]) + LiveOf(row)
  OBVIOUS
<1>4. RewriteAllRows(G, n, a)
  OBVIOUS
<1> HIDE DEF F
<1>5. Sound(G, n, a) /\ ToSet(G) = Put(ToSet(F), row)
  <2>1. /\ Sound([F EXCEPT ![i] = row], n, active - LiveOf(F[i]) + LiveOf(row))
        /\ ToSet([F EXCEPT ![i] = row]) = Put(ToSet(F), row)
    BY <1>1, <1>2, <1>3, SoundEdited
  <2> QED BY <1>3, <2>1
<1> HIDE DEF G
<1>6. Written(n) /\ FlattenSeq(file'.pages) = G
  BY <1>4, <1>5, RewriteStep
<1>7. RInv'
  BY <1>6, WrittenInv
<1>8. Puts(row)
  BY <1>1, <1>5, <1>6 DEF Puts, AllRows
<1> QED BY <1>6, <1>7, <1>8

\* what the index says of the row
LEMMA RowAt ==
    ASSUME RInv, open, NEW r, FindRowIndexById(LoadAllRows, r) # 0
    PROVE  /\ FindRowIndexById(LoadAllRows, r) \in 1..Len(LoadAllRows)
           /\ LoadAllRows[FindRowIndexById(LoadAllRows, r)] \in Row
           /\ LoadAllRows[FindRowIndexById(LoadAllRows, r)] \in AllRows
           /\ LoadAllRows[FindRowIndexById(LoadAllRows, r)].rid = r
<1> DEFINE F == LoadAllRows
           i == FindRowIndexById(F, r)
<1>1. F \in Seq(Row) /\ AllRows = ToSet(F)
  BY OpenFacts DEF AllRows
<1>2. i # 0
  OBVIOUS
<1> HIDE DEF F
<1>3. i \in 1..Len(F) /\ F[i].rid = r
  BY <1>1, <1>2, RowIndex
<1> HIDE DEF i
<1>4. F[i] \in AllRows /\ F[i] \in Row
  BY <1>1, <1>3, SeqElements
<1> QED BY <1>3, <1>4 DEF i, F

\* Update replaces the tuple of a live row.
LEMMA UpdateStep ==
    ASSUME RInv, NEW r \in 0..(MaxRid - 1), NEW t \in Tuples, Update(r, t)
    PROVE  /\ RInv' /\ Written(next) /\ open
           /\ Puts(RowFor(r, t, FALSE))
           /\ \E old \in AllRows : old.rid = r /\ ~old.deleted
<1> DEFINE F == LoadAllRows
           i == FindRowIndexById(F, r)
           old == F[i]
           row == RowFor(r, t, FALSE)
<1>1. /\ open /\ i # 0 /\ ~old.deleted /\ Storable(t) /\ open' = open
      /\ RewriteAllRows([F EXCEPT ![i].tuple = t], next, active)
  BY DEF Update
<1>2. i \in 1..Len(F) /\ old \in Row /\ old \in AllRows /\ old.rid = r
  BY <1>1, RowAt
<1>3. next \in 0..MaxRid /\ next <= next /\ active \in Nat /\ F \in Seq(Row)
  BY <1>1, OpenFacts, RowStoreAssumption
<1> HIDE DEF F, i
<1>4. old = [rid |-> r, tuple |-> old.tuple, deleted |-> FALSE]
  BY <1>1, <1>2, Zenon DEF Row
<1>5. [F EXCEPT ![i].tuple = t] = [F EXCEPT ![i] = row]
  <2>1. [old EXCEPT !.tuple = t] = row
    <3> DEFINE new == [old EXCEPT !.tuple = t]
    <3>1. old.deleted = FALSE /\ old.rid = r /\ old \in Row
      BY <1>2, <1>4
    <3> HIDE DEF old
    <3>2. new \in Row
      BY <1>1, <3>1 DEF Row
    <3>3. new.rid = r /\ new.tuple = t /\ new.deleted = FALSE
      BY <3>1 DEF Row
    <3> HIDE DEF new
    <3>4. new = [rid |-> new.rid, tuple |-> new.tuple, deleted |-> new.deleted]
      BY <3>2 DEF Row
    <3>5. new = row
      BY <3>3, <3>4 DEF RowFor
    <3> QED BY <3>5 DEF new
  <2> HIDE DEF row
  <2> QED BY <2>1, Zenon
<1>6. row \in Row /\ row.rid = old.rid
  BY <1>1, <1>2 DEF RowFor, Row
<1>7. active = active - LiveOf(old) + LiveOf(row)
  <2>1. LiveOf(old) = 1 /\ LiveOf(row) = 1
    BY <1>1 DEF LiveOf, RowFor
  <2> HIDE DEF old, row
  <2> QED BY <1>3, <2>1
<1>8. RewriteAllRows([F EXCEPT ![i] = row], next, active)
  BY <1>1, <1>5
<1> HIDE DEF row
<1>9. RInv' /\ Written(next) /\ Puts(row)
  BY <1>1, <1>2, <1>3, <1>6, <1>7, <1>8, EditStep DEF F
<1> QED BY <1>1, <1>2, <1>9, Zenon DEF row

\* Delete marks a live row deleted.
LEMMA DeleteStep ==
    ASSUME RInv, NEW r \in 0..(MaxRid - 1), Delete(r)
    PROVE  /\ RInv' /\ Written(next) /\ open
           /\ \E old \in AllRows : /\ old.rid = r /\ ~old.deleted
                                   /\ Puts(RowFor(r, old.tuple, TRUE))
<1> DEFINE F == LoadAllRows
           i == FindRowIndexById(F, r)
           old == F[i]
           row == RowFor(r, old.tuple, TRUE)
<1>1. /\ open /\ i # 0 /\ ~old.deleted /\ open' = open
      /\ RewriteAllRows([F EXCEPT ![i].deleted = TRUE], next, active - 1)
  BY DEF Delete, IsLiveRow
<1>2. i \in 1..Len(F) /\ old \in Row /\ old \in AllRows /\ old.rid = r
  BY <1>1, RowAt
<1>3. next \in 0..MaxRid /\ next <= next /\ active \in Nat /\ F \in Seq(Row)
  BY <1>1, OpenFacts, RowStoreAssumption
<1> HIDE DEF F, i
<1>4. old = [rid |-> r, tuple |-> old.tuple, deleted |-> FALSE]
  BY <1>1, <1>2, Zenon DEF Row
<1>5. [F EXCEPT ![i].deleted = TRUE] = [F EXCEPT ![i] = row]
  <2>1. [old EXCEPT !.deleted = TRUE] = row
    <3> DEFINE new == [old EXCEPT !.deleted = TRUE]
    <3>1. old.deleted = FALSE /\ old.rid = r /\ old \in Row
      BY <1>2, <1>4
    <3> HIDE DEF old
    <3>2. new \in Row
      BY <1>1, <3>1, Zenon DEF Row
    <3>3. new.rid = r /\ new.tuple = old.tuple /\ new.deleted = TRUE
      BY <3>1 DEF Row
    <3> HIDE DEF new
    <3>4. new = [rid |-> new.rid, tuple |-> new.tuple, deleted |-> new.deleted]
      BY <3>2 DEF Row
    <3>5. new = row
      BY <3>3, <3>4 DEF RowFor
    <3> QED BY <3>5 DEF new
  <2> HIDE DEF row
  <2> QED BY <2>1, Zenon
<1>6. row \in Row /\ row.rid = old.rid
  BY <1>2 DEF RowFor, Row
<1>7. active - 1 = active - LiveOf(old) + LiveOf(row)
  <2>1. LiveOf(old) = 1 /\ LiveOf(row) = 0
    BY <1>1 DEF LiveOf, RowFor
  <2> HIDE DEF old, row
  <2> QED BY <1>3, <2>1
<1>8. RewriteAllRows([F EXCEPT ![i] = row], next, active - 1)
  BY <1>1, <1>5
<1> DEFINE a == active - 1
<1>9. a = active - LiveOf(old) + LiveOf(row) /\ RewriteAllRows([F EXCEPT ![i] = row], next, a)
  BY <1>7, <1>8, Zenon
<1> HIDE DEF row, a
<1>10. RInv' /\ Written(next) /\ Puts(row)
  BY <1>1, <1>2, <1>3, <1>6, <1>9, EditStep DEF F
<1> QED BY <1>1, <1>2, <1>10, Zenon DEF row

\* Restore puts a row back under its own id.
LEMMA RestoreStep ==
    ASSUME RInv, NEW r \in 0..(MaxRid - 1), NEW t \in Tuples, Restore(r, t)
    PROVE  /\ RInv' /\ Written(NextBeyond(r)) /\ open
           /\ Puts(RowFor(r, t, FALSE))
<1> DEFINE F == LoadAllRows
           i == FindRowIndexById(F, r)
           old == F[i]
           row == RowFor(r, t, FALSE)
           n == NextBeyond(r)
<1>1. open /\ Storable(t) /\ open' = open
  BY DEF Restore
<1>2. /\ next \in Nat /\ next <= MaxRid /\ active \in Nat /\ F \in Seq(Row)
      /\ Sound(F, next, active) /\ F = FlattenSeq(file.pages)
  BY <1>1, OpenFacts
<1>3. n \in 0..MaxRid /\ n \in Nat /\ next <= n /\ r < n
  <2>1. r \in Nat /\ r <= MaxRid - 1 /\ MaxRid \in Nat
    BY RowStoreAssumption
  <2> HIDE DEF F, i
  <2> QED BY <1>2, <2>1 DEF NextBeyond
<1>4. row \in Row /\ row.rid = r /\ ~row.deleted /\ LiveOf(row) = 1
  BY <1>1 DEF Row, RowFor, LiveOf
<1>5. CASE i # 0
  <2>1. RewriteAllRows([F EXCEPT ![i] = row], n, IF old.deleted THEN active + 1 ELSE active)
    BY <1>5 DEF Restore, RowFor
  <2>2. i \in 1..Len(F) /\ old \in Row /\ old \in AllRows /\ old.rid = r
    BY <1>1, <1>5, RowAt
  <2> DEFINE a == IF old.deleted THEN active + 1 ELSE active
  <2> HIDE DEF F, i, row, n
  <2>3. a = active - LiveOf(old) + LiveOf(row)
    BY <1>2, <1>4 DEF LiveOf
  <2>4. RewriteAllRows([F EXCEPT ![i] = row], n, a) /\ row.rid = old.rid
    BY <1>4, <2>1, <2>2
  <2> HIDE DEF a
  <2>5. RInv' /\ Written(n) /\ Puts(row)
    BY <1>1, <1>3, <1>4, <2>2, <2>3, <2>4, EditStep DEF F
  <2> QED BY <1>1, <2>5, Zenon DEF row, n
<1>6. CASE i = 0
  <2> DEFINE G == Append(F, row)
             a == active + 1
  <2>1. RewriteAllRows(G, n, a)
    BY <1>6 DEF Restore, RowFor
  <2>2. Fresh(ToSet(F), row)
    <3>1. \A q \in ToSet(F) : q.rid # r
      <4> HIDE DEF F
      <4>1. ~(i \in 1..Len(F))
        BY <1>6
      <4> QED BY <1>2, <4>1, RowIndex
    <3> QED BY <1>4, <3>1, Zenon DEF Fresh
  <2> HIDE DEF F, i, row, n
  <2>3. G \in Seq(Row) /\ OneMore(G, F, row)
    BY <1>2, <1>4, ToSetAppend DEF OneMore
  <2>4. row.rid < n
    BY <1>3, <1>4
  <2> HIDE DEF G
  <2>5. Sound(G, n, active + 1) /\ ToSet(G) = Put(ToSet(F), row)
    BY <1>2, <1>3, <1>4, <2>2, <2>3, <2>4, SoundGrows
  <2>6. Sound(G, n, a)
    BY <2>5
  <2> HIDE DEF a
  <2>7. Written(n) /\ FlattenSeq(file'.pages) = G
    BY <1>1, <1>3, <2>1, <2>6, RewriteStep
  <2>8. RInv'
    BY <1>1, <2>7, WrittenInv
  <2>9. Puts(row)
    BY <1>2, <2>5, <2>7 DEF Puts, AllRows
  <2> QED BY <1>1, <2>7, <2>8, <2>9, Zenon DEF row, n
<1> QED BY <1>5, <1>6, Zenon

\* Every step keeps the invariant.
LEMMA NextRInv == ASSUME RInv, [Next]_vars PROVE RInv'
<1>1. CASE Open
  BY <1>1, OpenStep
<1>2. CASE Close
  BY <1>2, CloseStep
<1>3. CASE \E t \in Tuples : Insert(t)
  BY <1>3, InsertStep, Zenon
<1>4. CASE \E r \in 0..(MaxRid - 1), t \in Tuples : Update(r, t) \/ Restore(r, t)
  BY <1>4, UpdateStep, RestoreStep, Zenon
<1>5. CASE \E r \in 0..(MaxRid - 1) : Delete(r)
  BY <1>5, DeleteStep, Zenon
<1>6. CASE UNCHANGED vars
  BY <1>6 DEF vars, RInv
<1> QED BY <1>1, <1>2, <1>3, <1>4, <1>5, <1>6 DEF Next

\* The invariant holds in every reachable state.
LEMMA RowStoreInvariant == Spec => []RInv
<1>1. RInv /\ [Next]_vars => RInv'
  BY NextRInv
<1> QED BY InitRInv, <1>1, PTL DEF Spec

\* The invariant gives the property.
LEMMA RInvSound == RInv => PagesSound
<1> SUFFICES ASSUME RInv PROVE PagesSound
  OBVIOUS
<1> DEFINE Described(n, c, a) ==
             /\ c = Len(file.pages)
             /\ a = Cardinality({row \in AllRows : ~row.deleted})
             /\ Cardinality(AllRows) = Len(FlattenSeq(file.pages))
             /\ \A row, other \in AllRows : row.rid = other.rid => row = other
             /\ \A row \in AllRows : row.rid < n
           Readable == \A p \in DOMAIN file.pages : UsedBytes(file.pages[p]) <= Capacity
<1>1. ASSUME NEW n, NEW c, NEW a, Stored(file.pages, n, c, a)
      PROVE  AllRows \subseteq Row /\ Readable /\ Described(n, c, a)
  <2>1. file.pages \in Seq(Seq(Row)) /\ \A p \in 1..Len(file.pages) : Fits(file.pages[p])
    BY <1>1, Zenon DEF Stored
  <2>2. Sound(FlattenSeq(file.pages), n, a) /\ c = Len(file.pages)
    BY <1>1, Zenon DEF Stored
  <2>3. AllRows \subseteq Row
    BY <2>2, SeqElements DEF Sound, AllRows
  <2>4. Readable
    <3>1. DOMAIN file.pages = 1..Len(file.pages)
      BY <2>1
    <3> QED BY <2>1, <3>1 DEF Fits
  <2>5. /\ a = Cardinality(Live(AllRows)) /\ Cardinality(AllRows) = Len(FlattenSeq(file.pages))
        /\ Unique(AllRows) /\ \A row \in AllRows : row.rid < n
    BY <2>2 DEF Sound, AllRows
  <2> QED BY <2>2, <2>3, <2>4, <2>5 DEF Unique, Live
<1>2. Row \subseteq [rid : 0..(MaxRid - 1), tuple : Tuples, deleted : BOOLEAN]
  BY DEF Row
<1>3. open \in BOOLEAN
  BY DEF RInv
<1>4. CASE open
  <2>1. /\ file.meta = Meta(next, count, active) /\ Stored(file.pages, next, count, active)
        /\ next \in Nat /\ next <= MaxRid /\ count \in Nat /\ active \in Nat
    BY <1>4, OpenFacts
  <2>2. next \in 0..MaxRid
    BY <2>1, RowStoreAssumption
  <2>3. AllRows \subseteq Row
    <3> HIDE DEF Readable, Described
    <3> QED BY <1>1, <2>1
  <2>4. TypeOK
    BY <1>2, <1>3, <2>1, <2>2, <2>3 DEF TypeOK
  <2>5. Readable /\ Described(next, count, active)
    <3> HIDE DEF Readable, Described
    <3> QED BY <1>1, <2>1
  <2> QED BY <2>1, <2>4, <2>5 DEF PagesSound
<1>5. CASE ~open
  <2>1. next = 0 /\ count = 0 /\ active = 0
    BY <1>5 DEF RInv
  <2>2. 0 \in 0..MaxRid /\ 0 \in Nat
    BY RowStoreAssumption
  <2>3. AllRows \subseteq Row /\ Readable
    <3>1. CASE file = NoFile
      <4>1. file.pages = <<>>
        BY <3>1 DEF NoFile
      <4>2. FlattenSeq(<<>>) = <<>> /\ ToSet(<<>>) = {} /\ DOMAIN <<>> = {}
        BY FlattenFacts DEF ToSet
      <4> QED BY <4>1, <4>2 DEF AllRows
    <3>2. CASE file # NoFile
      <4>1. Stored(file.pages, file.meta[1], file.meta[2], file.meta[3])
        BY <3>2 DEF RInv, Good
      <4> HIDE DEF Readable, Described
      <4> QED BY <1>1, <4>1
    <3> QED BY <3>1, <3>2
  <2>4. TypeOK
    BY <1>2, <1>3, <2>1, <2>2, <2>3 DEF TypeOK
  <2> QED BY <1>5, <2>3, <2>4 DEF PagesSound
<1> QED BY <1>3, <1>4, <1>5

\* Every page can be read back, and the allocator, the page count and the row
\* count describe the pages whenever the store is open: no order of inserts,
\* updates, deletes, restores and reopenings leaves a page too full, a row twice
\* or a wrong metadata page.
THEOREM PagesStaySound == Spec => []PagesSound
  BY RowStoreInvariant, RInvSound, PTL

-----------------------------------------------------------------------------
(* The refinement.                                                         *)

The(S, r) == CHOOSE row \in S : row.rid = r
MapOf(S) == [r \in {row.rid : row \in S} |->
                [tuple |-> The(S, r).tuple, deleted |-> The(S, r).deleted]]

\* With one row per id, the row of an id is the one that has it.
LEMMA TheFacts ==
    ASSUME NEW S, Unique(S), NEW row \in S
    PROVE  The(S, row.rid) = row
  BY DEF The, Unique

Entry(row) == [tuple |-> row.tuple, deleted |-> row.deleted]

\* Putting a row sets its entry of the map.
LEMMA MapPut ==
    ASSUME NEW S, Unique(S), NEW row
    PROVE  MapOf(Put(S, row)) = [q \in DOMAIN MapOf(S) \cup {row.rid} |->
                                    IF q = row.rid THEN Entry(row) ELSE MapOf(S)[q]]
<1> DEFINE T == Put(S, row)
           D == {w.rid : w \in S}
<1>1. Unique(T) /\ row \in T
  BY PutUnique DEF Put
<1>2. {w.rid : w \in T} = D \cup {row.rid}
  BY DEF Put
<1>3. DOMAIN MapOf(S) = D
  BY DEF MapOf
<1>4. ASSUME NEW q \in D \cup {row.rid}
      PROVE  Entry(The(T, q)) = IF q = row.rid THEN Entry(row) ELSE MapOf(S)[q]
  <2>1. CASE q = row.rid
    <3> HIDE DEF T
    <3>1. The(T, row.rid) = row
      BY <1>1, TheFacts
    <3> QED BY <2>1, <3>1
  <2>2. CASE q # row.rid
    <3>1. PICK w \in S : w.rid = q
      BY <2>2
    <3>2. w \in T
      BY <2>2, <3>1 DEF Put
    <3> HIDE DEF T
    <3>3. The(T, q) = w /\ The(S, q) = w
      BY <1>1, <3>1, <3>2, TheFacts
    <3>4. MapOf(S)[q] = Entry(The(S, q))
      BY <3>1 DEF MapOf, Entry
    <3> QED BY <2>2, <3>3, <3>4
  <2> QED BY <2>1, <2>2
<1>5. MapOf(T) = [q \in D \cup {row.rid} |-> Entry(The(T, q))]
  BY <1>2 DEF MapOf, Entry
<1> HIDE DEF T, D
<1>6. MapOf(T) = [q \in D \cup {row.rid} |-> IF q = row.rid THEN Entry(row) ELSE MapOf(S)[q]]
  BY <1>4, <1>5
<1> QED BY <1>3, <1>6 DEF T

\* The mapping, as a function of the set of rows.
LEMMA RowMapIs == RowMap = MapOf(AllRows) /\ RowMap' = MapOf(AllRows')
  BY DEF RowMap, RowOf, MapOf, The

\* No two stored rows have the same id.
LEMMA UniqueRows == ASSUME RInv PROVE Unique(AllRows)
<1>1. CASE file = NoFile
  <2>1. FlattenSeq(<<>>) = <<>> /\ ToSet(<<>>) = {}
    BY FlattenFacts DEF ToSet
  <2>2. AllRows = {}
    BY <1>1, <2>1 DEF AllRows, NoFile
  <2> QED BY <2>2 DEF Unique
<1>2. CASE file # NoFile
  BY <1>2 DEF RInv, Good, Stored, Sound, AllRows
<1> QED BY <1>1, <1>2

\* A change that puts a row, seen from above.
LEMMA PutsMap ==
    ASSUME RInv, NEW r, NEW t, NEW gone, Puts(RowFor(r, t, gone))
    PROVE  RowMap' = HR!With(r, HR!Row(t, gone)) /\ r \in DOMAIN RowMap' /\ RowMap'[r].tuple = t
<1> DEFINE row == RowFor(r, t, gone)
<1>1. row.rid = r /\ Entry(row) = [tuple |-> t, deleted |-> gone]
  BY DEF RowFor, Entry
<1>2. AllRows' = Put(AllRows, row)
  BY DEF Puts
<1> HIDE DEF row
<1>3. MapOf(Put(AllRows, row)) = [q \in DOMAIN MapOf(AllRows) \cup {row.rid} |->
                                    IF q = row.rid THEN Entry(row) ELSE MapOf(AllRows)[q]]
  <2>1. Unique(AllRows)
    BY UniqueRows
  <2> QED BY <2>1, MapPut
<1>4. RowMap' = [q \in DOMAIN RowMap \cup {r} |->
                    IF q = r THEN [tuple |-> t, deleted |-> gone] ELSE RowMap[q]]
  BY <1>1, <1>2, <1>3, RowMapIs
<1>5. RowMap' = HR!With(r, HR!Row(t, gone))
  BY <1>4 DEF HR!With, HR!Row
<1> QED BY <1>4, <1>5

\* The initial state is an empty map.
LEMMA InitRefines == Init => HR!Init
<1> SUFFICES ASSUME Init PROVE HR!Init
  OBVIOUS
<1>1. file = NoFile
  BY DEF Init
<1>2. FlattenSeq(<<>>) = <<>> /\ ToSet(<<>>) = {}
  BY FlattenFacts DEF ToSet
<1>3. AllRows = {}
  BY <1>1, <1>2 DEF AllRows, NoFile
<1>4. RowMap = [r \in {} |-> 0]
  BY <1>3 DEF RowMap, RowOf
<1>5. NextId = 0
  BY <1>1 DEF NextId
<1> QED BY <1>4, <1>5 DEF HR!Init

\* The allocator of an open store is the one of the file.
LEMMA NextIdOpen == ASSUME RInv, open PROVE NextId = next
  BY OpenFacts DEF NextId, Meta

\* A write stores the next id.
LEMMA NextIdWritten == ASSUME NEW n, Written(n) PROVE NextId' = n
<1>1. file'.meta = Meta(n, count', active')
  BY DEF Written
<1>2. file' # NoFile
  BY <1>1 DEF NoFile, Meta
<1>3. file'.meta[1] = n
  BY <1>1 DEF Meta
<1> QED BY <1>2, <1>3 DEF NextId, NoFile

\* A live row is a live entry.
LEMMA LiveEntry ==
    ASSUME RInv, NEW old \in AllRows
    PROVE  old.rid \in DOMAIN RowMap /\ RowMap[old.rid] = Entry(old)
<1>1. The(AllRows, old.rid) = old
  BY UniqueRows, TheFacts
<1>2. RowMap = MapOf(AllRows)
  BY RowMapIs
<1> QED BY <1>1, <1>2 DEF MapOf, Entry

\* Every step is a step of the map or leaves it alone.
LEMMA NextRefines ==
    ASSUME RInv, [Next]_vars PROVE [HR!Next]_<<RowMap, NextId>>
<1>1. ASSUME AllRows' = AllRows, NextId' = NextId
      PROVE  UNCHANGED <<RowMap, NextId>>
  BY <1>1, RowMapIs
<1>2. CASE Open
  BY <1>1, <1>2, OpenStep
<1>3. CASE Close
  BY <1>1, <1>3, CloseStep
<1>4. ASSUME NEW t \in Tuples, Insert(t) PROVE HR!Next
  <2>1. Written(next + 1) /\ Puts(RowFor(next, t, FALSE)) /\ open
    BY <1>4, InsertStep, Zenon DEF Insert
  <2>2. NextId = next /\ NextId' = next + 1
    BY <2>1, NextIdOpen, NextIdWritten
  <2>3. RowMap' = HR!With(next, HR!Row(t, FALSE))
    BY <2>1, PutsMap, Zenon
  <2>4. HR!Insert(t)
    BY <2>2, <2>3 DEF HR!Insert
  <2> QED BY <2>4 DEF HR!Next
<1>5. ASSUME NEW r \in 0..(MaxRid - 1), NEW t \in Tuples, Update(r, t) PROVE HR!Next
  <2>1. Written(next) /\ open /\ Puts(RowFor(r, t, FALSE))
    BY <1>5, UpdateStep, Zenon
  <2>2. PICK old \in AllRows : old.rid = r /\ ~old.deleted
    BY <1>5, UpdateStep, Zenon
  <2>3. NextId = next /\ NextId' = next
    BY <2>1, NextIdOpen, NextIdWritten
  <2>4. RowMap' = HR!With(r, HR!Row(t, FALSE))
    BY <2>1, PutsMap, Zenon
  <2>5. r \in DOMAIN RowMap /\ ~RowMap[r].deleted
    <3>1. r \in DOMAIN RowMap /\ RowMap[r] = Entry(old)
      BY <2>2, LiveEntry
    <3>2. Entry(old).deleted = old.deleted
      BY DEF Entry
    <3> QED BY <2>2, <3>1, <3>2
  <2>6. HR!Update(r, t)
    BY <2>3, <2>4, <2>5 DEF HR!Update
  <2> QED BY <2>5, <2>6 DEF HR!Next
<1>6. ASSUME NEW r \in 0..(MaxRid - 1), Delete(r) PROVE HR!Next
  <2>1. Written(next) /\ open
    BY <1>6, DeleteStep, Zenon
  <2>2. PICK old \in AllRows : old.rid = r /\ ~old.deleted /\ Puts(RowFor(r, old.tuple, TRUE))
    BY <1>6, DeleteStep, Zenon
  <2>3. NextId = next /\ NextId' = next
    BY <2>1, NextIdOpen, NextIdWritten
  <2>4. RowMap' = HR!With(r, HR!Row(old.tuple, TRUE))
    BY <2>2, PutsMap, Zenon
  <2>5. r \in DOMAIN RowMap /\ ~RowMap[r].deleted /\ RowMap[r].tuple = old.tuple
    <3>1. r \in DOMAIN RowMap /\ RowMap[r] = Entry(old)
      BY <2>2, LiveEntry
    <3>2. Entry(old).deleted = old.deleted /\ Entry(old).tuple = old.tuple
      BY DEF Entry
    <3> QED BY <2>2, <3>1, <3>2
  <2>6. HR!Delete(r)
    BY <2>3, <2>4, <2>5 DEF HR!Delete
  <2> QED BY <2>5, <2>6 DEF HR!Next
<1>7. ASSUME NEW r \in 0..(MaxRid - 1), NEW t \in Tuples, Restore(r, t) PROVE HR!Next
  <2>1. Written(NextBeyond(r)) /\ open /\ Puts(RowFor(r, t, FALSE))
    BY <1>7, RestoreStep, Zenon
  <2>2. NextId = next /\ NextId' = NextBeyond(r)
    BY <2>1, NextIdOpen, NextIdWritten
  <2>3. RowMap' = HR!With(r, HR!Row(t, FALSE)) /\ r \in DOMAIN RowMap' /\ RowMap'[r].tuple = t
    BY <2>1, PutsMap, Zenon
  <2>4. HR!Restore(r, RowMap'[r].tuple)
    BY <2>2, <2>3, Zenon DEF HR!Restore, NextBeyond
  <2> QED BY <2>3, <2>4, Zenon DEF HR!Next
<1>8. CASE UNCHANGED vars
  <2>1. AllRows' = AllRows /\ NextId' = NextId
    BY <1>8 DEF vars, AllRows, NextId, NoFile
  <2> QED BY <1>1, <2>1
<1> QED BY <1>2, <1>3, <1>4, <1>5, <1>6, <1>7, <1>8 DEF Next

\* The page file implements the map of rows: repacking, page allocation and
\* reopening never lose, duplicate or change a row but the one addressed.
THEOREM RowStoreImplementsHeapRows == Spec => ImplementsHeapRows
<1>1. RInv /\ [Next]_vars => [HR!Next]_<<RowMap, NextId>>
  BY NextRefines
<1> QED BY InitRefines, RowStoreInvariant, <1>1, PTL DEF Spec, ImplementsHeapRows, HR!Spec
=============================================================================
