----------------------------- MODULE LoggerProofs -----------------------------
(***************************************************************************)
(* Proofs about the logger, for every number of threads and lines and      *)
(* every size of the queue.  A line is always in one of four places: on    *)
(* disk, in the writer's batch, in the queue, or pushed out; the first     *)
(* three follow each other in the order of queueing.                       *)
(***************************************************************************)
EXTENDS Logger, TLAPS

-----------------------------------------------------------------------------
(* Sequences of entries.                                                   *)

\* Appending adds one member.
LEMMA AppendMembers ==
    ASSUME NEW S, NEW s \in Seq(S), NEW e \in S
    PROVE  Append(s, e) \in Seq(S) /\ ToSet(Append(s, e)) = ToSet(s) \cup {e}
  <1>1. Append(s, e) \in Seq(S) /\ Len(Append(s, e)) = Len(s) + 1 /\ Len(s) \in Nat
    OBVIOUS
  <1>2. \A i \in 1..Len(s) : Append(s, e)[i] = s[i]
    OBVIOUS
  <1>3. Append(s, e)[Len(s) + 1] = e
    OBVIOUS
  <1>4. DOMAIN Append(s, e) = 1..(Len(s) + 1) /\ DOMAIN s = 1..Len(s)
    BY <1>1
  <1>5. DOMAIN Append(s, e) = DOMAIN s \cup {Len(s) + 1}
    BY <1>1, <1>4
  <1> QED BY <1>1, <1>2, <1>3, <1>4, <1>5 DEF ToSet

\* A sequence that is not empty has its head and the members of its tail.
LEMMA HeadTailMembers ==
    ASSUME NEW S, NEW s \in Seq(S), s # <<>>
    PROVE  Head(s) \in S /\ Tail(s) \in Seq(S) /\ ToSet(s) = ToSet(Tail(s)) \cup {Head(s)}
  <1>1. Len(s) \in Nat /\ Len(s) # 0 /\ Tail(s) \in Seq(S) /\ Len(Tail(s)) = Len(s) - 1
    OBVIOUS
  <1>2. Head(s) = s[1] /\ \A i \in 1..(Len(s) - 1) : Tail(s)[i] = s[i + 1]
    BY <1>1
  <1>3. DOMAIN s = 1..Len(s) /\ DOMAIN Tail(s) = 1..(Len(s) - 1)
    BY <1>1
  <1>4. ASSUME NEW x \in ToSet(s) PROVE x \in ToSet(Tail(s)) \cup {Head(s)}
    <2>1. PICK i \in 1..Len(s) : x = s[i]
      BY <1>3 DEF ToSet
    <2>2. CASE i = 1
      BY <1>2, <2>1, <2>2
    <2>3. CASE i # 1
      <3>1. i - 1 \in 1..(Len(s) - 1) /\ (i - 1) + 1 = i
        BY <1>1, <2>3
      <3>2. Tail(s)[i - 1] = x
        BY <1>2, <2>1, <3>1
      <3> QED BY <1>3, <3>1, <3>2, Zenon DEF ToSet
    <2> QED BY <2>2, <2>3
  <1>5. ASSUME NEW x \in ToSet(Tail(s)) PROVE x \in ToSet(s)
    <2>1. PICK i \in 1..(Len(s) - 1) : x = Tail(s)[i]
      BY <1>3 DEF ToSet
    <2>2. i + 1 \in 1..Len(s) /\ x = s[i + 1]
      BY <1>1, <1>2, <2>1
    <2> QED BY <1>3, <2>2 DEF ToSet
  <1>6. 1 \in DOMAIN s
    BY <1>1, <1>3
  <1>7. Head(s) \in ToSet(s) /\ Head(s) \in S
    BY <1>2, <1>6 DEF ToSet
  <1> QED BY <1>1, <1>4, <1>5, <1>7

\* An empty queue or batch has no entry.
LEMMA EmptyMembers == ToSet(<<>>) = {}
  BY DEF ToSet

\* The entries of a queue are of its type.
LEMMA MembersOf == ASSUME NEW S, NEW s \in Seq(S) PROVE ToSet(s) \subseteq S
  BY DEF ToSet

\* in the order of queueing
Sorted(s) == \A i, j \in 1..Len(s) : i < j /\ Marker \notin {s[i], s[j]} => s[i].line < s[j].line

Before(A, B) == \A x \in A, y \in B : Marker \notin {x, y} => x.line < y.line

\* Appending a later line keeps the order.
LEMMA AppendSorted ==
    ASSUME NEW S, NEW s \in Seq(S), NEW e \in S, Sorted(s), Before(ToSet(s), {e})
    PROVE  Sorted(Append(s, e))
  <1> DEFINE t == Append(s, e)
  <1>1. Len(t) = Len(s) + 1 /\ Len(s) \in Nat /\ t[Len(s) + 1] = e /\ \A i \in 1..Len(s) : t[i] = s[i] /\ s[i] \in ToSet(s)
    BY DEF ToSet
  <1>2. SUFFICES ASSUME NEW i \in 1..Len(t), NEW j \in 1..Len(t), i < j, Marker \notin {t[i], t[j]}
                 PROVE  t[i].line < t[j].line
    BY DEF Sorted
  <1> HIDE DEF t
  <1>3. i \in 1..Len(s) /\ (j \in 1..Len(s) \/ j = Len(s) + 1)
    BY <1>1, <1>2
  <1>4. CASE j \in 1..Len(s)
    BY <1>1, <1>2, <1>3, <1>4 DEF Sorted
  <1>5. CASE j = Len(s) + 1
    BY <1>1, <1>2, <1>3, <1>5 DEF Before
  <1> QED BY <1>3, <1>4, <1>5

\* Taking the head off keeps the order, and the head was the earliest.
LEMMA TailSorted ==
    ASSUME NEW S, NEW s \in Seq(S), s # <<>>, Sorted(s)
    PROVE  Sorted(Tail(s)) /\ Before({Head(s)}, ToSet(Tail(s)))
  <1> DEFINE t == Tail(s)
  <1>1. Len(s) \in Nat /\ Len(s) # 0 /\ Len(t) = Len(s) - 1 /\ t \in Seq(S)
    OBVIOUS
  <1>2. Head(s) = s[1] /\ (\A i \in 1..Len(t) : t[i] = s[i + 1]) /\ DOMAIN t = 1..Len(t)
    BY <1>1
  <1> HIDE DEF t
  <1>3. \A i \in 1..Len(t) : i + 1 \in 1..Len(s) /\ 1 < i + 1 /\ 1 \in 1..Len(s)
    BY <1>1
  <1>4. \A i, j \in 1..Len(t) : i < j => i + 1 < j + 1
    BY <1>1
  <1>5. Sorted(t)
    BY <1>2, <1>3, <1>4 DEF Sorted
  <1>6. Before({Head(s)}, ToSet(t))
    BY <1>2, <1>3 DEF Sorted, Before, ToSet
  <1> QED BY <1>5, <1>6 DEF t

-----------------------------------------------------------------------------
(* The places of the n lines queued so far: w on disk, b in the writer's   *)
(* batch, q in the queue, d pushed out.                                    *)

Places(w, b, q, d) == (ToSet(w) \cup ToSet(b) \cup ToSet(q) \cup d) \ {Marker}

Ordered(w, b, q) ==
    /\ Sorted(w) /\ Sorted(b) /\ Sorted(q)
    /\ Before(ToSet(w), ToSet(b)) /\ Before(ToSet(w), ToSet(q)) /\ Before(ToSet(b), ToSet(q))

Complete(w, b, q, d, n) ==
    /\ \A e \in Places(w, b, q, d) : e.line \in 1..n
    /\ \A i \in 1..n : \E e \in Places(w, b, q, d) : e.line = i

\* Swapping the queue with the empty batch keeps order and places.
LEMMA SwapKeeps ==
    ASSUME NEW w, NEW q, NEW d, NEW n
    PROVE  /\ Ordered(w, <<>>, q) <=> Ordered(w, q, <<>>)
           /\ Complete(w, <<>>, q, d, n) <=> Complete(w, q, <<>>, d, n)
  <1>1. Sorted(<<>>)
    BY DEF Sorted
  <1>2. Ordered(w, <<>>, q) <=> Ordered(w, q, <<>>)
    BY <1>1, EmptyMembers DEF Ordered, Before
  <1>3. Places(w, <<>>, q, d) = Places(w, q, <<>>, d)
    BY EmptyMembers DEF Places
  <1> QED BY <1>2, <1>3 DEF Complete

\* what is on disk after an entry has been handed to WriteToFile
Put(w, e) == IF e = Marker THEN w ELSE Append(w, e)

\* Writing the first entry of the batch keeps order and places.
LEMMA WriteKeeps ==
    ASSUME NEW w \in Seq(Lines), NEW b \in Seq(Entries), NEW q \in Seq(Entries), NEW d, NEW n, b # <<>>
    PROVE  /\ Put(w, Head(b)) \in Seq(Lines) /\ Tail(b) \in Seq(Entries)
           /\ Ordered(w, b, q) => Ordered(Put(w, Head(b)), Tail(b), q)
           /\ Complete(w, b, q, d, n) => Complete(Put(w, Head(b)), Tail(b), q, d, n)
  <1> DEFINE e == Head(b)
             v == Put(w, e)
             c == Tail(b)
  <1>1. e \in Entries /\ c \in Seq(Entries) /\ ToSet(b) = ToSet(c) \cup {e}
    BY HeadTailMembers
  <1>2. v \in Seq(Lines) /\ (e = Marker => v = w) /\ (e # Marker => ToSet(v) = ToSet(w) \cup {e})
    <2>1. CASE e = Marker
      BY <2>1 DEF Put
    <2>2. CASE e # Marker
      <3>1. e \in Lines BY <1>1, <2>2 DEF Entries
      <3> QED BY <2>2, <3>1, AppendMembers DEF Put
    <2> QED BY <2>1, <2>2
  <1>3. Places(w, b, q, d) = Places(v, c, q, d)
    BY <1>1, <1>2 DEF Places
  <1>4. ASSUME Ordered(w, b, q) PROVE Ordered(v, c, q)
    <2>1. Sorted(c) /\ Before({e}, ToSet(c))
      BY <1>4, TailSorted DEF Ordered
    <2>2. CASE e = Marker
      BY <1>1, <1>2, <1>4, <2>1, <2>2 DEF Ordered, Before
    <2>3. CASE e # Marker
      <3>1. e \in Lines /\ v = Append(w, e)
        BY <1>1, <2>3 DEF Entries, Put
      <3>2. Before(ToSet(w), {e})
        BY <1>1, <1>4 DEF Ordered, Before
      <3>3. Sorted(v)
        BY <1>4, <3>1, <3>2, AppendSorted, Zenon DEF Ordered
      <3>4. Before(ToSet(v), ToSet(c)) /\ Before(ToSet(v), ToSet(q)) /\ Before(ToSet(c), ToSet(q))
        BY <1>1, <1>2, <1>4, <2>1, <2>3 DEF Ordered, Before
      <3> QED BY <1>4, <2>1, <3>3, <3>4 DEF Ordered
    <2> QED BY <2>2, <2>3
  <1> QED BY <1>1, <1>2, <1>3, <1>4 DEF Complete

\* Draining the queue when the batch is empty is the same.
LEMMA DrainKeeps ==
    ASSUME NEW w \in Seq(Lines), NEW q \in Seq(Entries), NEW d, NEW n, q # <<>>,
           Ordered(w, <<>>, q), Complete(w, <<>>, q, d, n)
    PROVE  /\ Put(w, Head(q)) \in Seq(Lines) /\ Tail(q) \in Seq(Entries)
           /\ Ordered(Put(w, Head(q)), <<>>, Tail(q))
           /\ Complete(Put(w, Head(q)), <<>>, Tail(q), d, n)
  <1>1. <<>> \in Seq(Entries)
    OBVIOUS
  <1>2. Ordered(w, q, <<>>) /\ Complete(w, q, <<>>, d, n)
    BY SwapKeeps
  <1>3. /\ Put(w, Head(q)) \in Seq(Lines) /\ Tail(q) \in Seq(Entries)
        /\ Ordered(Put(w, Head(q)), Tail(q), <<>>) /\ Complete(Put(w, Head(q)), Tail(q), <<>>, d, n)
    BY <1>1, <1>2, WriteKeeps, Zenon
  <1> QED BY <1>3, SwapKeeps

\* What Room leaves is in the queue already, and in order.
LEMMA RoomKeeps ==
    ASSUME NEW q \in Seq(Entries)
    PROVE  Room(q) \in Seq(Entries) /\ ToSet(Room(q)) \subseteq ToSet(q) /\ (Sorted(q) => Sorted(Room(q)))
  <1>1. CASE Len(q) >= MaxQueue
    <2>1. q # <<>>
      BY <1>1, LoggerAssumption
    <2> QED BY <1>1, <2>1, HeadTailMembers, TailSorted, Zenon DEF Room
  <1>2. CASE ~(Len(q) >= MaxQueue)
    BY <1>2 DEF Room
  <1> QED BY <1>1, <1>2

\* Queueing an entry that is a marker or the next line keeps the order, also
\* behind a queue that has lost its oldest entry.
LEMMA QueueKeepsOrder ==
    ASSUME NEW w \in Seq(Lines), NEW b \in Seq(Entries), NEW q \in Seq(Entries), NEW p \in Seq(Entries),
           NEW e \in Entries, Ordered(w, b, q), Sorted(p), ToSet(p) \subseteq ToSet(q),
           \A x \in (ToSet(w) \cup ToSet(b) \cup ToSet(q)) : Marker \notin {x, e} => x.line < e.line
    PROVE  Ordered(w, b, Append(p, e))
  <1>1. ToSet(Append(p, e)) = ToSet(p) \cup {e}
    BY AppendMembers
  <1>2. Before(ToSet(p), {e})
    BY DEF Before
  <1>3. Sorted(Append(p, e))
    BY <1>2, AppendSorted
  <1>4. Before(ToSet(w), ToSet(Append(p, e))) /\ Before(ToSet(b), ToSet(Append(p, e)))
    BY <1>1 DEF Ordered, Before
  <1> QED BY <1>3, <1>4 DEF Ordered

-----------------------------------------------------------------------------
(* The inductive invariant.                                                *)

\* Who may be where: the batch is empty unless the writer is writing it, the
\* writer leaves its loop only after running_ was cleared, and once it has
\* left, what is queued came after Shutdown was called.
Control ==
    /\ writer # "write" => batch = <<>>
    /\ writer = None <=> ~initialized
    /\ ~initialized => stopper = "idle"
    /\ running <=> initialized /\ stopper = "idle"
    /\ running => writer \notin {"drain", "done"}
    /\ writer \in {None, "done"} => \A e \in ToSet(queue) \ {Marker} : due < e.line

Inv ==
    /\ TypeOK
    /\ Ordered(written, batch, queue)
    /\ Complete(written, batch, queue, dropped, pushed)
    /\ Control

\* The logger starts with nothing queued.
LEMMA InvInit == Init => Inv
  <1> SUFFICES ASSUME Init PROVE Inv
    OBVIOUS
  <1>1. TypeOK
    <2>1. {initialized, running} \subseteq BOOLEAN /\ pending \in [Threads -> Sinks \cup {None, "flush"}]
      BY Zenon DEF Init
    <2>2. queue \in Seq(Entries) /\ batch \in Seq(Entries) /\ written \in Seq(Lines) /\ dropped \subseteq Entries
      BY DEF Init
    <2>3. pushed \in 0..MaxLines /\ due \in 0..pushed /\ flushes \in 0..MaxFlushes
      BY LoggerAssumption DEF Init
    <2> QED BY <2>1, <2>2, <2>3 DEF Init, TypeOK
  <1>2. Sorted(<<>>)
    BY DEF Sorted
  <1>3. Ordered(written, batch, queue)
    BY <1>2, EmptyMembers DEF Init, Ordered, Before
  <1>4. Complete(written, batch, queue, dropped, pushed)
    BY EmptyMembers DEF Init, Complete, Places
  <1>5. Control
    BY EmptyMembers DEF Init, Control, None
  <1> QED BY <1>1, <1>3, <1>4, <1>5 DEF Inv

\* A call only notes what the thread is about to push.
LEMMA CallKeeps == ASSUME Inv, NEW t \in Threads, NEW what \in Sinks \cup {"flush"}, Call(t, what) PROVE Inv'
  <1>1. TypeOK'
    BY DEF Inv, Call, TypeOK, queueVars, diskVars
  <1>2. UNCHANGED <<initialized, running, writer, stopper, queue, batch, pushed, dropped, written, due>>
    BY DEF Call, queueVars, diskVars
  <1> QED BY <1>1, <1>2 DEF Inv, Ordered, Complete, Places, Control

\* Push makes room and queues the next line.
LEMMA PushKeeps == ASSUME Inv, NEW t \in Threads, Push(t) PROVE Inv'
  <1> DEFINE e == Line(pushed + 1, pending[t])
             p == Room(queue)
  <1>1. /\ queue \in Seq(Entries) /\ batch \in Seq(Entries) /\ written \in Seq(Lines)
        /\ pushed \in 0..MaxLines /\ dropped \subseteq Entries /\ due \in 0..pushed
        /\ Ordered(written, batch, queue) /\ Complete(written, batch, queue, dropped, pushed) /\ Control
    BY DEF Inv, TypeOK
  <1>2. /\ queue' = Append(p, e) /\ dropped' = dropped \cup (ToSet(queue) \ ToSet(queue')) /\ pushed' = pushed + 1
        /\ writer' = Notify /\ pending' = [pending EXCEPT ![t] = None]
        /\ UNCHANGED <<initialized, running, stopper, batch, flushes, written, due>>
        /\ pending[t] \in Sinks /\ pushed < MaxLines
    BY DEF Push, diskVars
  <1>3. e \in Lines /\ e.line = pushed + 1 /\ e # Marker
    BY <1>1, <1>2, LoggerAssumption DEF Lines, Line, Marker
  <1>4. e \in Entries
    BY <1>3 DEF Entries
  <1>5. p \in Seq(Entries) /\ ToSet(p) \subseteq ToSet(queue) /\ Sorted(p)
    BY <1>1, RoomKeeps DEF Ordered
  <1> HIDE DEF e, p
  <1>6. queue' \in Seq(Entries) /\ ToSet(queue') = ToSet(p) \cup {e}
    BY <1>2, <1>4, <1>5, AppendMembers
  <1>7. TypeOK'
    <2>1. dropped' \subseteq Entries
      BY <1>1, <1>2, MembersOf
    <2>2. pushed' \in 0..MaxLines /\ due' \in 0..pushed'
      BY <1>1, <1>2, LoggerAssumption
    <2>3. writer' \in {None, "check", "block", "wait", "write", "drain", "done"}
      BY <1>2 DEF Inv, TypeOK, Notify
    <2>4. pending' \in [Threads -> Sinks \cup {None, "flush"}]
      BY <1>2 DEF Inv, TypeOK
    <2> QED BY <1>2, <1>6, <2>1, <2>2, <2>3, <2>4 DEF Inv, TypeOK
  <1>8. \A x \in ToSet(written) \cup ToSet(batch) \cup ToSet(queue) : Marker \notin {x, e} => x.line < e.line
    <2>1. \A x \in Places(written, batch, queue, dropped) : x.line \in 1..pushed
      BY <1>1 DEF Complete
    <2> QED BY <1>1, <1>3, <2>1 DEF Places
  <1>9. Ordered(written, batch, queue)'
    BY <1>1, <1>2, <1>4, <1>5, <1>8, QueueKeepsOrder
  <1>10. Complete(written, batch, queue, dropped, pushed)'
    <2>1. Places(written, batch, queue, dropped)' = Places(written, batch, queue, dropped) \cup {e}
      BY <1>2, <1>3, <1>5, <1>6 DEF Places
    <2>2. 1..pushed' = 1..pushed \cup {pushed + 1}
      BY <1>1, <1>2
    <2> QED BY <1>1, <1>3, <2>1, <2>2 DEF Complete
  <1>11. Control'
    <2>1. writer' = writer \/ (writer = "wait" /\ writer' = "check")
      BY <1>2 DEF Notify
    <2>2. ASSUME writer' \in {None, "done"}, NEW x \in ToSet(queue') \ {Marker} PROVE due' < x.line
      <3>1. writer = writer'
        BY <2>1, <2>2 DEF None
      <3>2. CASE x = e
        BY <1>1, <1>2, <1>3, <3>2
      <3>3. CASE x # e
        BY <1>1, <1>2, <1>5, <1>6, <2>2, <3>1, <3>3 DEF Control
      <3> QED BY <3>2, <3>3
    <2> QED BY <1>1, <1>2, <2>1, <2>2 DEF Control, None
  <1> QED BY <1>7, <1>9, <1>10, <1>11 DEF Inv

\* Flush queues a marker, past the limit if need be.
LEMMA FlushKeeps == ASSUME Inv, NEW t \in Threads, FlushImpl(t) PROVE Inv'
  <1>1. /\ queue \in Seq(Entries) /\ batch \in Seq(Entries) /\ written \in Seq(Lines) /\ Marker \in Entries
        /\ Ordered(written, batch, queue) /\ Complete(written, batch, queue, dropped, pushed) /\ Control
    BY DEF Inv, TypeOK, Entries
  <1>2. /\ queue' = Append(queue, Marker) /\ writer' = Notify /\ flushes' = flushes + 1 /\ flushes < MaxFlushes
        /\ pending' = [pending EXCEPT ![t] = None]
        /\ UNCHANGED <<initialized, running, stopper, batch, pushed, dropped, written, due>>
    BY DEF FlushImpl, diskVars
  <1>3. queue' \in Seq(Entries) /\ ToSet(queue') = ToSet(queue) \cup {Marker}
    BY <1>1, <1>2, AppendMembers
  <1>4. writer' = writer \/ (writer = "wait" /\ writer' = "check")
    BY <1>2 DEF Notify
  <1>5. TypeOK'
    <2>1. flushes' \in 0..MaxFlushes
      BY <1>2, LoggerAssumption DEF Inv, TypeOK
    <2> QED BY <1>2, <1>3, <1>4, <2>1 DEF Inv, TypeOK
  <1>6. Ordered(written, batch, queue)'
    BY <1>1, <1>2, QueueKeepsOrder DEF Ordered
  <1>7. Complete(written, batch, queue, dropped, pushed)'
    BY <1>1, <1>2, <1>3 DEF Complete, Places
  <1>8. Control'
    BY <1>1, <1>2, <1>3, <1>4 DEF Control, None
  <1> QED BY <1>5, <1>6, <1>7, <1>8 DEF Inv

\* The writer swaps the queue out or goes to sleep.
LEMMA CheckKeeps == ASSUME Inv, Check PROVE Inv'
  <1>1. /\ UNCHANGED <<initialized, running, stopper, pending, pushed, flushes, dropped, written, due>>
        /\ writer = "check"
    BY DEF Check, diskVars
  <1>2. batch = <<>>
    BY <1>1 DEF Inv, Control
  <1>3. CASE batch' = queue /\ queue' = <<>> /\ writer' = "write"
    <2>1. TypeOK'
      BY <1>1, <1>3 DEF Inv, TypeOK
    <2>2. Ordered(written, batch, queue)' /\ Complete(written, batch, queue, dropped, pushed)'
      BY <1>1, <1>2, <1>3, SwapKeeps DEF Inv
    <2>3. Control'
      BY <1>1, <1>3 DEF Inv, Control, None
    <2> QED BY <2>1, <2>2, <2>3 DEF Inv
  <1>4. CASE UNCHANGED <<queue, batch>> /\ writer' = "block"
    <2>1. TypeOK'
      BY <1>1, <1>4 DEF Inv, TypeOK
    <2>2. Ordered(written, batch, queue)' /\ Complete(written, batch, queue, dropped, pushed)'
      BY <1>1, <1>4 DEF Inv
    <2>3. Control'
      BY <1>1, <1>2, <1>4 DEF Inv, Control, None
    <2> QED BY <2>1, <2>2, <2>3 DEF Inv
  <1> QED BY <1>3, <1>4 DEF Check, QueueSwapped

\* Handing an entry to WriteToFile appends a line and ignores a marker.
LEMMA WriteEffect == ASSUME NEW e, WriteToFile(e) PROVE written' = Put(written, e)
  BY DEF WriteToFile, Put, diskVars

\* The writer writes the first entry of its batch.
LEMMA WriteBatchKeeps == ASSUME Inv, WriteBatch PROVE Inv'
  <1>1. /\ batch # <<>> /\ batch' = Tail(batch) /\ writer = "write" /\ written' = Put(written, Head(batch))
        /\ UNCHANGED <<initialized, running, writer, stopper, pending, queue, pushed, flushes, dropped, due>>
    BY WriteEffect DEF WriteBatch
  <1>2. queue \in Seq(Entries) /\ batch \in Seq(Entries) /\ written \in Seq(Lines)
    BY DEF Inv, TypeOK
  <1>3. /\ written' \in Seq(Lines) /\ batch' \in Seq(Entries)
        /\ Ordered(written', batch', queue) /\ Complete(written', batch', queue, dropped, pushed)
    BY <1>1, <1>2, WriteKeeps DEF Inv
  <1>4. TypeOK'
    BY <1>1, <1>3 DEF Inv, TypeOK
  <1>5. Control'
    BY <1>1 DEF Inv, Control, None
  <1> QED BY <1>1, <1>3, <1>4, <1>5 DEF Inv

\* The writer drains the queue, holding the mutex.
LEMMA DrainStepKeeps == ASSUME Inv, Drain PROVE Inv'
  <1>1. /\ writer = "drain" /\ batch = <<>>
        /\ UNCHANGED <<initialized, running, stopper, pending, batch, pushed, flushes, dropped, due>>
    BY DEF Drain, Inv, Control
  <1>2. CASE queue = <<>>
    <2>1. writer' = "done" /\ UNCHANGED <<queue, written>>
      BY <1>2 DEF Drain, diskVars
    <2>2. TypeOK'
      BY <1>1, <2>1 DEF Inv, TypeOK
    <2>3. ~running
      BY <1>1 DEF Inv, Control
    <2>4. Control'
      BY <1>1, <1>2, <2>1, <2>3, EmptyMembers DEF Inv, Control, None
    <2> QED BY <1>1, <2>1, <2>2, <2>4 DEF Inv
  <1>3. CASE queue # <<>>
    <2>1. queue' = Tail(queue) /\ writer' = writer /\ written' = Put(written, Head(queue))
      BY <1>3, WriteEffect DEF Drain
    <2>2. queue \in Seq(Entries) /\ written \in Seq(Lines)
      BY DEF Inv, TypeOK
    <2>3. /\ written' \in Seq(Lines) /\ queue' \in Seq(Entries)
          /\ Ordered(written', <<>>, queue') /\ Complete(written', <<>>, queue', dropped, pushed)
      BY <1>1, <1>3, <2>1, <2>2, DrainKeeps DEF Inv
    <2>4. TypeOK'
      BY <1>1, <2>1, <2>3 DEF Inv, TypeOK
    <2>5. Control'
      BY <1>1, <2>1 DEF Inv, Control, None
    <2> QED BY <1>1, <2>3, <2>4, <2>5 DEF Inv
  <1> QED BY <1>2, <1>3

\* The steps that move no entry: the writer blocks, wakes or finishes a batch,
\* and Init and Shutdown run.
LEMMA ControlKeeps ==
    ASSUME Inv, Block \/ SpuriousWakeup \/ BatchDone \/ InitImpl \/ ClearRunning \/ NotifyWriter \/ Join
    PROVE  Inv'
  <1>1. UNCHANGED <<pending, queue, batch, pushed, flushes, dropped, written>>
    BY DEF Block, SpuriousWakeup, BatchDone, InitImpl, ClearRunning, NotifyWriter, Join, queueVars, diskVars
  <1>2. Ordered(written, batch, queue)' /\ Complete(written, batch, queue, dropped, pushed)'
    BY <1>1 DEF Inv
  <1>3. due' = due \/ due' = pushed
    BY DEF Block, SpuriousWakeup, BatchDone, InitImpl, ClearRunning, NotifyWriter, Join
  <1>4. pushed \in Nat
    BY LoggerAssumption DEF Inv, TypeOK
  <1>5. due' \in 0..pushed'
    BY <1>1, <1>3, <1>4 DEF Inv, TypeOK
  <1>6. {initialized', running'} \subseteq BOOLEAN
    BY Zenon DEF Inv, TypeOK, Block, SpuriousWakeup, BatchDone, InitImpl, ClearRunning, NotifyWriter, Join
  <1>7. /\ writer' \in {None, "check", "block", "wait", "write", "drain", "done"}
        /\ stopper' \in {"idle", "notify", "join"}
    BY DEF Inv, TypeOK, Block, SpuriousWakeup, BatchDone, InitImpl, ClearRunning, NotifyWriter, Join, Notify, AfterBatch
  <1>8. TypeOK'
    BY <1>1, <1>5, <1>6, <1>7 DEF Inv, TypeOK
  <1>9. Control'
    <2>1. CASE Block \/ SpuriousWakeup
      BY <1>1, <2>1 DEF Inv, Control, Block, SpuriousWakeup, None
    <2>2. CASE BatchDone
      BY <1>1, <2>2 DEF Inv, Control, BatchDone, AfterBatch, None
    <2>3. CASE InitImpl
      <3>1. ~initialized /\ initialized' /\ running' /\ writer' = "check" /\ stopper' = stopper /\ due' = due
        BY <2>3 DEF InitImpl
      <3>2. writer = None /\ stopper = "idle"
        BY <3>1 DEF Inv, Control
      <3> QED BY <1>1, <3>1, <3>2 DEF Inv, Control, None
    <2>4. CASE ClearRunning
      BY <1>1, <2>4 DEF Inv, Control, ClearRunning, None
    <2>5. CASE NotifyWriter
      BY <1>1, <2>5 DEF Inv, Control, NotifyWriter, Notify, None
    <2>6. CASE Join
      BY <1>1, <2>6 DEF Inv, Control, Join, None
    <2> QED BY <2>1, <2>2, <2>3, <2>4, <2>5, <2>6
  <1> QED BY <1>2, <1>8, <1>9 DEF Inv

\* Every step preserves the invariant.
LEMMA InvStep == Inv /\ [Next]_vars => Inv'
  <1> SUFFICES ASSUME Inv, [Next]_vars PROVE Inv'
    OBVIOUS
  <1>1. CASE UNCHANGED vars
    <2>1. UNCHANGED <<initialized, running, writer, stopper, pending, queue, batch, pushed, flushes, dropped, written, due>>
      BY <1>1 DEF vars, queueVars, diskVars
    <2> QED BY <2>1 DEF Inv, TypeOK, Ordered, Complete, Places, Control
  <1> QED BY <1>1, CallKeeps, PushKeeps, FlushKeeps, CheckKeeps, WriteBatchKeeps, DrainStepKeeps, ControlKeeps DEF Next

\* The invariant holds in every reachable state.
THEOREM LoggerInvariance == Spec => []Inv
  BY InvInit, InvStep, PTL DEF Spec

-----------------------------------------------------------------------------
(* The theorems.                                                           *)

\* The three sequences one after the other are in order when each is and they
\* follow each other.
LEMMA ConcatSorted ==
    ASSUME NEW S, NEW s \in Seq(S), NEW t \in Seq(S), Sorted(s), Sorted(t), Before(ToSet(s), ToSet(t))
    PROVE  s \o t \in Seq(S) /\ Sorted(s \o t) /\ ToSet(s \o t) = ToSet(s) \cup ToSet(t)
  <1> DEFINE u == s \o t
             m == Len(s)
             n == Len(t)
  <1>1. u \in Seq(S) /\ m \in Nat /\ n \in Nat /\ Len(u) = m + n
    OBVIOUS
  <1>2. \A i \in 1..m : u[i] = s[i] /\ s[i] \in ToSet(s)
    BY DEF ToSet
  <1>3. \A i \in 1..n : u[m + i] = t[i] /\ t[i] \in ToSet(t)
    BY DEF ToSet
  <1>4. DOMAIN u = 1..(m + n) /\ DOMAIN s = 1..m /\ DOMAIN t = 1..n
    BY <1>1
  <1> HIDE DEF u, m, n
  <1>5. \A i \in 1..(m + n) : i \in 1..m \/ (i - m \in 1..n /\ m + (i - m) = i)
    BY <1>1
  <1>6. \A i \in 1..m : i \in 1..(m + n)
    BY <1>1
  <1>7. \A i \in 1..n : m + i \in 1..(m + n)
    BY <1>1
  <1>8. ToSet(u) = ToSet(s) \cup ToSet(t)
    <2>1. ASSUME NEW x \in ToSet(u) PROVE x \in ToSet(s) \cup ToSet(t)
      <3>1. PICK i \in 1..(m + n) : x = u[i]
        BY <1>4 DEF ToSet
      <3> QED BY <1>2, <1>3, <1>5, <3>1
    <2>2. ASSUME NEW x \in ToSet(s) PROVE x \in ToSet(u)
      <3>1. PICK i \in 1..m : x = s[i]
        BY <1>4 DEF ToSet
      <3> QED BY <1>2, <1>4, <1>6, <3>1 DEF ToSet
    <2>3. ASSUME NEW x \in ToSet(t) PROVE x \in ToSet(u)
      <3>1. PICK i \in 1..n : x = t[i]
        BY <1>4 DEF ToSet
      <3>2. x = u[m + i] /\ m + i \in DOMAIN u
        BY <1>3, <1>4, <1>7, <3>1
      <3> QED BY <3>2 DEF ToSet
    <2> QED BY <2>1, <2>2, <2>3
  <1>9. ASSUME NEW i \in 1..(m + n), NEW j \in 1..(m + n), i < j, Marker \notin {u[i], u[j]}
        PROVE  u[i].line < u[j].line
    <2>1. CASE j \in 1..m
      <3>1. i \in 1..m
        BY <1>1, <1>9, <2>1
      <3> QED BY <1>2, <1>9, <2>1, <3>1 DEF Sorted, m
    <2>2. CASE i \in 1..m /\ j \notin 1..m
      <3>1. u[i] \in ToSet(s) /\ u[j] \in ToSet(t)
        BY <1>2, <1>3, <1>5, <2>2
      <3> QED BY <1>9, <3>1 DEF Before
    <2>3. CASE i \notin 1..m /\ j \notin 1..m
      <3>1. i - m \in 1..n /\ j - m \in 1..n /\ u[i] = t[i - m] /\ u[j] = t[j - m]
        BY <1>3, <1>5, <2>3
      <3>2. i - m < j - m
        BY <1>1, <1>9
      <3> QED BY <1>9, <3>1, <3>2 DEF Sorted, n
    <2> QED BY <2>1, <2>2, <2>3
  <1>10. Sorted(u)
    BY <1>1, <1>9 DEF Sorted
  <1> QED BY <1>1, <1>8, <1>10 DEF u

\* For any number of threads and lines and any size of the queue: the lines on
\* disk, taken and queued are in the order of queueing, each once, and only a
\* line pushed out of the full queue is missing.
THEOREM LinesInOrder == Spec => []InOrderAndComplete
  <1>1. Inv => InOrderAndComplete
    <2> SUFFICES ASSUME Inv PROVE InOrderAndComplete
      OBVIOUS
    <2>1. /\ queue \in Seq(Entries) /\ batch \in Seq(Entries) /\ written \in Seq(Entries) /\ pushed \in Nat
          /\ Ordered(written, batch, queue) /\ Complete(written, batch, queue, dropped, pushed)
      BY LoggerAssumption DEF Inv, TypeOK, Entries
    <2>2. /\ written \o batch \in Seq(Entries) /\ Sorted(written \o batch)
          /\ ToSet(written \o batch) = ToSet(written) \cup ToSet(batch)
      BY <2>1, ConcatSorted DEF Ordered
    <2>3. Before(ToSet(written \o batch), ToSet(queue))
      BY <2>1, <2>2 DEF Ordered, Before
    <2>4. /\ InFlight \in Seq(Entries) /\ Sorted(InFlight)
          /\ ToSet(InFlight) = ToSet(written) \cup ToSet(batch) \cup ToSet(queue)
      <3> DEFINE front == written \o batch
      <3>1. front \in Seq(Entries) /\ Sorted(front) /\ Sorted(queue) /\ Before(ToSet(front), ToSet(queue))
        BY <2>1, <2>2, <2>3 DEF Ordered
      <3>2. InFlight = front \o queue
        BY DEF InFlight
      <3>3. ToSet(front) = ToSet(written) \cup ToSet(batch)
        BY <2>2
      <3> HIDE DEF front
      <3>4. /\ front \o queue \in Seq(Entries) /\ Sorted(front \o queue)
            /\ ToSet(front \o queue) = ToSet(front) \cup ToSet(queue)
        BY <2>1, <3>1, ConcatSorted
      <3> QED BY <3>2, <3>3, <3>4
    <2>5. DOMAIN InFlight = 1..Len(InFlight)
      BY <2>4
    <2>6. \A i, j \in DOMAIN InFlight :
              i < j /\ Marker \notin {InFlight[i], InFlight[j]} => InFlight[i].line < InFlight[j].line
      BY <2>4, <2>5 DEF Sorted
    <2>7. (ToSet(InFlight) \cup dropped) \ {Marker} = Places(written, batch, queue, dropped)
      BY <2>4 DEF Places
    <2>8. {e.line : e \in Places(written, batch, queue, dropped)} = 1..pushed
      BY <2>1 DEF Complete
    <2> QED BY <2>6, <2>7, <2>8 DEF Inv, InOrderAndComplete
  <1> QED BY <1>1, LoggerInvariance, PTL

\* For any number of threads and lines and any size of the queue: when Shutdown
\* has returned, every line queued before it was called is on disk or was
\* pushed out of the full queue.
THEOREM ShutdownAlwaysDrains == Spec => []ShutdownDrains
  <1>1. Inv => ShutdownDrains
    <2> SUFFICES ASSUME Inv, ~initialized, NEW n \in 1..due
                 PROVE  \E e \in ToSet(written) \cup dropped : e.line = n
      BY DEF ShutdownDrains
    <2>1. pushed \in Nat /\ due \in 0..pushed
      BY LoggerAssumption DEF Inv, TypeOK
    <2>2. batch = <<>> /\ \A e \in ToSet(queue) \ {Marker} : due < e.line
      BY DEF Inv, Control, None
    <2>3. n \in 1..pushed
      BY <2>1
    <2>4. PICK e \in Places(written, batch, queue, dropped) : e.line = n
      BY <2>3 DEF Inv, Complete
    <2>5. e \notin ToSet(batch)
      BY <2>2, EmptyMembers
    <2>6. e \notin ToSet(queue) \ {Marker}
      BY <2>1, <2>2, <2>4
    <2> QED BY <2>4, <2>5, <2>6 DEF Places
  <1> QED BY <1>1, LoggerInvariance, PTL
-----------------------------------------------------------------------------
(* Rotation.  f is the current file of a sink, r its rotated files, W the  *)
(* lines written to the sink.                                              *)

FileAt(f, r, i) == IF i = 0 THEN f ELSE r[i]
DiskOf(f, r) == UNION {ToSet(FileAt(f, r, i)) : i \in 0..Len(r)}
Increasing(f) == \A j, k \in DOMAIN f : j < k => f[j] < f[k]
Older(f, g) == \A m \in ToSet(f), n \in ToSet(g) : n < m

Kept(f, r, W) ==
    /\ f \in Seq(Nat) /\ r \in Seq(Seq(Nat)) /\ Len(f) <= MaxFileLines
    /\ \A i \in 0..Len(r) : Increasing(FileAt(f, r, i))
    /\ \A i, j \in 0..Len(r) : i < j => Older(FileAt(f, r, i), FileAt(f, r, j))
    /\ \A i \in 1..Len(r) : Len(FileAt(f, r, i)) = MaxFileLines
    /\ DiskOf(f, r) \subseteq W
    /\ \A n \in W \ DiskOf(f, r) :
           /\ \A m \in DiskOf(f, r) : n < m
           /\ Len(r) >= MaxFiles - 1 /\ f # <<>>

\* A sink starts with an empty file and nothing written.
LEMMA KeptInit == Kept(<<>>, <<>>, {})
  <1>1. FileAt(<<>>, <<>>, 0) = <<>> /\ 0..Len(<<>>) = {0} /\ 1..Len(<<>>) = {}
    BY DEF FileAt
  <1>2. Increasing(<<>>)
    BY DEF Increasing
  <1>3. DiskOf(<<>>, <<>>) = {}
    BY <1>1, EmptyMembers DEF DiskOf
  <1>4. <<>> \in Seq(Nat) /\ <<>> \in Seq(Seq(Nat)) /\ Len(<<>>) <= MaxFileLines
    BY LoggerAssumption
  <1>5. \A i, j \in 0..Len(<<>>) : ~(i < j)
    BY <1>1
  <1> QED BY <1>1, <1>2, <1>3, <1>4, <1>5 DEF Kept

\* A line later than all others goes to a file that is not full.
LEMMA KeptAppend ==
    ASSUME NEW f, NEW r, NEW W \in SUBSET Nat, NEW n \in Nat, Kept(f, r, W), \A m \in W : m < n,
           ~(Len(f) >= MaxFileLines)
    PROVE  Kept(Append(f, n), r, W \cup {n})
  <1> DEFINE g == Append(f, n)
  <1>1. f \in Seq(Nat) /\ r \in Seq(Seq(Nat)) /\ Len(r) \in Nat /\ Len(f) \in Nat
    BY DEF Kept
  <1>2. g \in Seq(Nat) /\ Len(g) = Len(f) + 1 /\ g # <<>> /\ ToSet(g) = ToSet(f) \cup {n}
    <2> DEFINE N == Nat
    <2>1. f \in Seq(N) /\ n \in N
      BY <1>1
    <2> HIDE DEF N
    <2>2. ToSet(g) = ToSet(f) \cup {n}
      BY <2>1, AppendMembers
    <2>3. g \in Seq(Nat) /\ Len(g) = Len(f) + 1
      BY <1>1
    <2>4. Len(g) # 0
      BY <1>1, <2>3
    <2>5. g # <<>>
      BY <2>4
    <2> QED BY <2>2, <2>3, <2>5
  <1>3. (\A j \in 1..Len(f) : g[j] = f[j]) /\ g[Len(f) + 1] = n
    BY <1>1
  <1>4. DOMAIN f = 1..Len(f) /\ DOMAIN g = 1..(Len(f) + 1)
    BY <1>1, <1>2
  <1> HIDE DEF g
  <1>5. Len(g) <= MaxFileLines
    BY <1>1, <1>2, LoggerAssumption
  <1>6. FileAt(f, r, 0) = f /\ FileAt(g, r, 0) = g /\ 0 \in 0..Len(r)
    BY <1>1 DEF FileAt
  <1>7. \A i \in 1..Len(r) : FileAt(g, r, i) = FileAt(f, r, i)
    BY <1>1 DEF FileAt
  <1>8. \A i \in 0..Len(r) : i = 0 \/ i \in 1..Len(r)
    BY <1>1
  <1>9. DiskOf(g, r) = DiskOf(f, r) \cup {n}
    <2>1. ASSUME NEW m \in DiskOf(g, r) PROVE m \in DiskOf(f, r) \cup {n}
      <3>1. PICK i \in 0..Len(r) : m \in ToSet(FileAt(g, r, i))
        BY DEF DiskOf
      <3>2. m = n \/ m \in ToSet(FileAt(f, r, i))
        BY <1>2, <1>6, <1>7, <1>8, <3>1
      <3> QED BY <3>2 DEF DiskOf
    <2>2. ASSUME NEW m \in DiskOf(f, r) PROVE m \in DiskOf(g, r)
      <3>1. PICK i \in 0..Len(r) : m \in ToSet(FileAt(f, r, i))
        BY DEF DiskOf
      <3>2. m \in ToSet(FileAt(g, r, i))
        BY <1>2, <1>6, <1>7, <1>8, <3>1
      <3> QED BY <3>2 DEF DiskOf
    <2>3. n \in DiskOf(g, r)
      BY <1>2, <1>6 DEF DiskOf
    <2> QED BY <2>1, <2>2, <2>3, Zenon
  <1>10. DiskOf(f, r) \subseteq W /\ ToSet(f) \subseteq DiskOf(f, r)
    BY <1>6 DEF Kept, DiskOf
  <1>11. \A m \in DiskOf(f, r) : m < n
    BY <1>10, Zenon
  <1>12. Increasing(g)
    <2> SUFFICES ASSUME NEW j \in DOMAIN g, NEW k \in DOMAIN g, j < k PROVE g[j] < g[k]
      BY DEF Increasing
    <2>1. j \in DOMAIN f /\ (k \in DOMAIN f \/ k = Len(f) + 1)
      BY <1>1, <1>4
    <2>2. f[j] \in ToSet(f) /\ g[j] = f[j]
      BY <1>3, <1>4, <2>1 DEF ToSet
    <2>3. CASE k \in DOMAIN f
      <3>1. Increasing(f)
        BY <1>6 DEF Kept
      <3> QED BY <1>3, <1>4, <2>1, <2>2, <2>3, <3>1 DEF Increasing
    <2>4. CASE k = Len(f) + 1
      BY <1>3, <1>10, <1>11, <2>2, <2>4
    <2> QED BY <2>1, <2>3, <2>4
  <1>13. ASSUME NEW i \in 0..Len(r), NEW j \in 0..Len(r), i < j
         PROVE  Older(FileAt(g, r, i), FileAt(g, r, j))
    <2>1. j \in 1..Len(r) /\ FileAt(g, r, j) = FileAt(f, r, j)
      BY <1>1, <1>7, <1>13
    <2>2. Older(FileAt(f, r, i), FileAt(f, r, j))
      BY <1>13 DEF Kept
    <2>3. CASE i = 0
      <3>1. ToSet(FileAt(f, r, j)) \subseteq DiskOf(f, r)
        BY DEF DiskOf
      <3> QED BY <1>2, <1>6, <1>11, <2>1, <2>2, <2>3, <3>1 DEF Older
    <2>4. CASE i \in 1..Len(r)
      BY <1>7, <2>1, <2>2, <2>4
    <2> QED BY <1>8, <2>3, <2>4
  <1>14. \A i \in 0..Len(r) : Increasing(FileAt(g, r, i))
    BY <1>6, <1>7, <1>8, <1>12 DEF Kept
  <1>15. \A i \in 1..Len(r) : Len(FileAt(g, r, i)) = MaxFileLines
    BY <1>7 DEF Kept
  <1>16. ASSUME NEW l \in (W \cup {n}) \ DiskOf(g, r)
         PROVE  (\A m \in DiskOf(g, r) : l < m) /\ Len(r) >= MaxFiles - 1
    <2>1. l \in W \ DiskOf(f, r)
      BY <1>9
    <2> QED BY <1>9, <2>1 DEF Kept
  <1>17. DiskOf(g, r) \subseteq W \cup {n}
    BY <1>9, <1>10
  <1>18. Kept(g, r, W \cup {n})
    BY <1>1, <1>2, <1>5, <1>13, <1>14, <1>15, <1>16, <1>17 DEF Kept
  <1> QED BY <1>18 DEF g

\* A line later than all others goes to a new file when the file is full; the
\* k newest of the rotated files are kept, all of them unless there are as many
\* as max_files_ allows.
LEMMA KeptRotate ==
    ASSUME NEW f, NEW r, NEW W \in SUBSET Nat, NEW n \in Nat, Kept(f, r, W), \A m \in W : m < n,
           Len(f) >= MaxFileLines, NEW s \in Seq(Seq(Nat)), NEW k \in Nat,
           k <= Len(r), k = Len(r) \/ k + 1 >= MaxFiles - 1, Len(s) = k + 1, s[1] = f,
           \A i \in 1..k : s[i + 1] = r[i]
    PROVE  Kept(<<n>>, s, W \cup {n})
  <1> DEFINE g == <<n>>
  <1>1. f \in Seq(Nat) /\ r \in Seq(Seq(Nat)) /\ Len(r) \in Nat /\ Len(f) = MaxFileLines
    BY LoggerAssumption DEF Kept
  <1>2. g \in Seq(Nat) /\ Len(g) = 1 /\ g # <<>> /\ ToSet(g) = {n} /\ Increasing(g)
    <2>1. DOMAIN g = {1} /\ g[1] = n
      OBVIOUS
    <2>2. ToSet(g) = {n}
      BY <2>1 DEF ToSet
    <2>3. Increasing(g)
      BY <2>1 DEF Increasing
    <2>4. g \in Seq(Nat) /\ Len(g) = 1 /\ g # <<>>
      OBVIOUS
    <2> QED BY <2>2, <2>3, <2>4, Zenon
  <1> HIDE DEF g
  <1>3. Len(g) <= MaxFileLines
    BY <1>2, LoggerAssumption
  <1>4. FileAt(g, s, 0) = g /\ 0 \in 0..Len(s)
    BY DEF FileAt
  <1>5. ASSUME NEW i \in 1..Len(s)
        PROVE  i - 1 \in 0..Len(r) /\ i - 1 <= k /\ FileAt(g, s, i) = FileAt(f, r, i - 1)
    <2>1. i - 1 \in 0..Len(r) /\ i - 1 <= k
      BY <1>1
    <2>2. FileAt(g, s, i) = s[i]
      BY DEF FileAt
    <2>3. CASE i = 1
      <3>1. s[1] = f
        OBVIOUS
      <3>2. FileAt(f, r, 0) = f
        BY DEF FileAt
      <3> QED BY <2>1, <2>2, <2>3, <3>1, <3>2
    <2>4. CASE i # 1
      <3>1. PICK j \in 1..k : i = j + 1
        <4>1. i - 1 \in 1..k /\ i = (i - 1) + 1
          BY <2>4
        <4> QED BY <4>1
      <3>2. s[i] = r[j] /\ i - 1 = j /\ j # 0
        BY <3>1
      <3> QED BY <2>2, <3>2 DEF FileAt
    <2> QED BY <2>1, <2>3, <2>4
  <1>6. ASSUME NEW i \in 0..Len(r), i <= k
        PROVE  i + 1 \in 1..Len(s) /\ FileAt(g, s, i + 1) = FileAt(f, r, i)
    <2>1. i + 1 \in 1..Len(s) /\ (i + 1) - 1 = i
      BY <1>1, <1>6
    <2>2. FileAt(g, s, i + 1) = FileAt(f, r, (i + 1) - 1)
      BY <1>5, <2>1
    <2> QED BY <2>1, <2>2
  <1>7. \A i \in 0..Len(s) : i = 0 \/ i \in 1..Len(s)
    OBVIOUS
  <1>8. \A i \in 0..Len(r) : ToSet(FileAt(f, r, i)) \subseteq DiskOf(f, r)
    BY DEF DiskOf
  <1>9. DiskOf(f, r) \subseteq W
    BY DEF Kept
  <1>10. DiskOf(g, s) \subseteq DiskOf(f, r) \cup {n}
    <2> SUFFICES ASSUME NEW m \in DiskOf(g, s) PROVE m \in DiskOf(f, r) \cup {n}
      OBVIOUS
    <2>1. PICK i \in 0..Len(s) : m \in ToSet(FileAt(g, s, i))
      BY DEF DiskOf
    <2>2. CASE i = 0
      BY <1>2, <1>4, <2>1, <2>2
    <2>3. CASE i \in 1..Len(s)
      BY <1>5, <1>8, <2>1, <2>3, Zenon
    <2> QED BY <1>7, <2>2, <2>3
  <1>11. n \in DiskOf(g, s)
    BY <1>2, <1>4, Zenon DEF DiskOf
  <1>12. \A i \in 0..Len(s) : Increasing(FileAt(g, s, i))
    <2>1. \A i \in 1..Len(s) : Increasing(FileAt(g, s, i))
      BY <1>5 DEF Kept
    <2> QED BY <1>2, <1>4, <1>7, <2>1
  <1>13. ASSUME NEW i \in 0..Len(s), NEW j \in 0..Len(s), i < j
         PROVE  Older(FileAt(g, s, i), FileAt(g, s, j))
    <2>1. j \in 1..Len(s)
      BY <1>13
    <2>2. j - 1 \in 0..Len(r) /\ FileAt(g, s, j) = FileAt(f, r, j - 1)
      BY <1>5, <2>1
    <2>3. CASE i = 0
      <3>1. \A m \in ToSet(FileAt(f, r, j - 1)) : m < n
        BY <1>8, <1>9, <2>2, Zenon
      <3> QED BY <1>2, <1>4, <2>2, <2>3, <3>1 DEF Older
    <2>4. CASE i \in 1..Len(s)
      <3>1. i - 1 \in 0..Len(r) /\ FileAt(g, s, i) = FileAt(f, r, i - 1)
        BY <1>5, <2>4
      <3>2. i - 1 < j - 1
        BY <1>13, <2>4
      <3> QED BY <2>2, <3>1, <3>2, Zenon DEF Kept
    <2> QED BY <1>7, <2>3, <2>4
  <1>14. \A i \in 1..Len(s) : Len(FileAt(g, s, i)) = MaxFileLines
    <2> SUFFICES ASSUME NEW i \in 1..Len(s) PROVE Len(FileAt(g, s, i)) = MaxFileLines
      OBVIOUS
    <2>1. i - 1 \in 0..Len(r) /\ FileAt(g, s, i) = FileAt(f, r, i - 1)
      BY <1>5
    <2>2. CASE i - 1 = 0
      BY <1>1, <2>1, <2>2 DEF FileAt
    <2>3. CASE i - 1 # 0
      <3>1. i - 1 \in 1..Len(r)
        BY <1>1, <2>1, <2>3
      <3>2. Len(FileAt(f, r, i - 1)) = MaxFileLines
        BY <3>1, Zenon DEF Kept
      <3> QED BY <2>1, <3>2
    <2> QED BY <2>2, <2>3
  <1>15. ASSUME NEW l \in (W \cup {n}) \ DiskOf(g, s)
         PROVE  (\A m \in DiskOf(g, s) : l < m) /\ Len(s) >= MaxFiles - 1
    <2>1. l \in W /\ l < n
      BY <1>11
    <2>2. CASE l \notin DiskOf(f, r)
      <3>1. (\A m \in DiskOf(f, r) : l < m) /\ Len(r) >= MaxFiles - 1
        BY <2>1, <2>2 DEF Kept
      <3>2. Len(s) >= MaxFiles - 1
        BY <1>1, <3>1, LoggerAssumption
      <3> QED BY <1>10, <2>1, <3>1, <3>2
    <2>3. CASE l \in DiskOf(f, r)
      <3>1. PICK i \in 0..Len(r) : l \in ToSet(FileAt(f, r, i))
        BY <2>3 DEF DiskOf
      <3>2. ~(i <= k)
        <4>1. SUFFICES ASSUME i <= k PROVE l \in DiskOf(g, s)
          OBVIOUS
        <4>2. i + 1 \in 1..Len(s) /\ FileAt(g, s, i + 1) = FileAt(f, r, i)
          BY <1>6, <4>1
        <4>3. i + 1 \in 0..Len(s)
          BY <4>2
        <4> QED BY <3>1, <4>2, <4>3 DEF DiskOf
      <3>3. Len(s) >= MaxFiles - 1
        BY <1>1, <3>1, <3>2, LoggerAssumption
      <3>4. ASSUME NEW m \in DiskOf(g, s) PROVE l < m
        <4>1. PICK j \in 0..Len(s) : m \in ToSet(FileAt(g, s, j))
          BY DEF DiskOf
        <4>2. CASE j = 0
          BY <1>2, <1>4, <2>1, <4>1, <4>2
        <4>3. CASE j \in 1..Len(s)
          <5>1. j - 1 \in 0..Len(r) /\ j - 1 <= k /\ m \in ToSet(FileAt(f, r, j - 1))
            BY <1>5, <4>1, <4>3
          <5>2. j - 1 < i
            BY <3>2, <5>1
          <5>3. Older(FileAt(f, r, j - 1), FileAt(f, r, i))
            BY <5>1, <5>2, Zenon DEF Kept
          <5> QED BY <3>1, <5>1, <5>3, Zenon DEF Older
        <4> QED BY <1>7, <4>2, <4>3
      <3> QED BY <3>3, <3>4
    <2> QED BY <2>2, <2>3
  <1>16. DiskOf(g, s) \subseteq W \cup {n}
    BY <1>9, <1>10
  <1>17. Kept(g, s, W \cup {n})
    BY <1>2, <1>3, <1>12, <1>13, <1>14, <1>15, <1>16 DEF Kept
  <1> QED BY <1>17 DEF g

-----------------------------------------------------------------------------
(* The invariant of the files.                                             *)

LinesTo(w, s) == {e.line : e \in {x \in ToSet(w) : x.sink = s}}

Rotation ==
    /\ file \in [Sinks -> Seq(Nat)] /\ rotated \in [Sinks -> Seq(Seq(Nat))]
    /\ \A s \in Sinks : Kept(file[s], rotated[s], LinesTo(written, s))

\* A line adds its number to the lines of its sink.
LEMMA LinesToAppend ==
    ASSUME NEW w \in Seq(Lines), NEW e \in Lines, NEW s
    PROVE  LinesTo(Append(w, e), s) = IF e.sink = s THEN LinesTo(w, s) \cup {e.line} ELSE LinesTo(w, s)
  <1>1. ToSet(Append(w, e)) = ToSet(w) \cup {e}
    BY AppendMembers
  <1> QED BY <1>1, Zenon DEF LinesTo

\* What Rotate keeps of the rotated files.
LEMMA RotateKeeps ==
    ASSUME NEW s \in Sinks, file \in [Sinks -> Seq(Nat)], rotated \in [Sinks -> Seq(Seq(Nat))]
    PROVE  /\ Rotate(s) \in Seq(Seq(Nat))
           /\ \E k \in Nat : /\ k <= Len(rotated[s]) /\ (k = Len(rotated[s]) \/ k + 1 >= MaxFiles - 1)
                             /\ Len(Rotate(s)) = k + 1 /\ Rotate(s)[1] = file[s]
                             /\ \A i \in 1..k : Rotate(s)[i + 1] = rotated[s][i]
  <1> DEFINE S == Seq(Nat)
             f == file[s]
             r == rotated[s]
             kept == IF Len(r) < MaxFiles - 1 THEN r ELSE SubSeq(r, 1, MaxFiles - 2)
             k == Len(kept)
  <1>1. f \in S /\ r \in Seq(S) /\ Rotate(s) = <<f>> \o kept
    BY DEF Rotate
  <1> HIDE DEF S, f, r
  <1>2. /\ kept \in Seq(S) /\ k \in Nat /\ k <= Len(r) /\ (k = Len(r) \/ k + 1 >= MaxFiles - 1)
        /\ \A i \in 1..k : kept[i] = r[i]
    <2>1. CASE Len(r) < MaxFiles - 1
      BY <1>1, <2>1
    <2>2. CASE ~(Len(r) < MaxFiles - 1)
      <3> DEFINE n == IF MaxFiles = 1 THEN 0 ELSE MaxFiles - 2
      <3>1. n \in Nat /\ n <= Len(r) /\ Len(r) \in Nat /\ n + 1 >= MaxFiles - 1
        BY <1>1, <2>2, LoggerAssumption
      <3>2. kept = SubSeq(r, 1, MaxFiles - 2)
        BY <2>2, Zenon
      <3>3. /\ SubSeq(r, 1, MaxFiles - 2) \in Seq(S) /\ Len(SubSeq(r, 1, MaxFiles - 2)) = n
            /\ \A i \in 1..n : SubSeq(r, 1, MaxFiles - 2)[i] = r[i]
        <4>1. CASE MaxFiles = 1
          <5>1. SubSeq(r, 1, MaxFiles - 2) = <<>> /\ n = 0
            BY <1>1, <4>1
          <5>2. <<>> \in Seq(S) /\ Len(<<>>) = 0
            OBVIOUS
          <5> QED BY <5>1, <5>2
        <4>2. CASE MaxFiles # 1
          BY <1>1, <3>1, <4>2, LoggerAssumption
        <4> QED BY <4>1, <4>2
      <3> HIDE DEF n, kept
      <3>4. kept \in Seq(S) /\ k = n /\ \A i \in 1..n : kept[i] = r[i]
        BY <3>2, <3>3
      <3> QED BY <3>1, <3>4
    <2> QED BY <2>1, <2>2
  <1> HIDE DEF kept
  <1>3. /\ <<f>> \o kept \in Seq(S) /\ Len(<<f>> \o kept) = k + 1 /\ (<<f>> \o kept)[1] = f
        /\ \A i \in 1..k : (<<f>> \o kept)[i + 1] = kept[i]
    BY <1>1, <1>2
  <1> HIDE DEF k
  <1>4. Rotate(s) \in Seq(S) /\ Len(Rotate(s)) = k + 1 /\ Rotate(s)[1] = f /\ \A i \in 1..k : Rotate(s)[i + 1] = r[i]
    BY <1>1, <1>2, <1>3
  <1> QED BY <1>2, <1>4, Zenon DEF S, f, r

\* The logger starts with empty files.
LEMMA RotationInit == Init => Rotation
  <1> SUFFICES ASSUME Init PROVE Rotation
    OBVIOUS
  <1>1. file \in [Sinks -> Seq(Nat)] /\ rotated \in [Sinks -> Seq(Seq(Nat))]
    BY DEF Init
  <1>2. SUFFICES ASSUME NEW s \in Sinks PROVE Kept(file[s], rotated[s], LinesTo(written, s))
    BY <1>1 DEF Rotation
  <1>3. file[s] = <<>> /\ rotated[s] = <<>> /\ written = <<>>
    BY <1>2 DEF Init
  <1>4. LinesTo(written, s) = {}
    BY <1>3, EmptyMembers DEF LinesTo
  <1> QED BY <1>3, <1>4, KeptInit, Zenon

\* Writing an entry that comes after all that are written.
LEMMA WriteRotates ==
    ASSUME Rotation, written \in Seq(Lines), NEW e \in Entries, Before(ToSet(written), {e}), WriteToFile(e)
    PROVE  Rotation'
  <1>1. CASE e = Marker
    BY <1>1 DEF WriteToFile, diskVars, Rotation, LinesTo
  <1>2. CASE e # Marker
    <2> DEFINE s == e.sink
               n == e.line
               full == Len(file[s]) >= MaxFileLines
               r == IF full THEN Rotate(s) ELSE rotated[s]
               f == IF full THEN <<n>> ELSE Append(file[s], n)
               W == LinesTo(written, s)
    <2>1. e \in Lines /\ s \in Sinks /\ n \in Nat
      BY <1>2, LoggerAssumption DEF Entries, Lines
    <2>2. file \in [Sinks -> Seq(Nat)] /\ rotated \in [Sinks -> Seq(Seq(Nat))] /\ Kept(file[s], rotated[s], W)
      BY <2>1 DEF Rotation
    <2>3. /\ rotated' = [rotated EXCEPT ![s] = r] /\ file' = [file EXCEPT ![s] = f] /\ written' = Append(written, e)
      <3>1. rotated' = (IF full THEN [rotated EXCEPT ![s] = Rotate(s)] ELSE rotated) /\ written' = Append(written, e)
        BY <1>2 DEF WriteToFile
      <3>2. file' = [file EXCEPT ![s] = Append(IF full THEN <<>> ELSE file[s], n)]
        BY <1>2, <2>2 DEF WriteToFile
      <3>3. Append(<<>>, n) = <<n>>
        OBVIOUS
      <3>4. rotated = [rotated EXCEPT ![s] = rotated[s]]
        BY <2>1, <2>2
      <3> QED BY <3>1, <3>2, <3>3, <3>4, Zenon
    <2>4. W \subseteq Nat /\ \A m \in W : m < n
      <3> SUFFICES ASSUME NEW m \in W PROVE m \in Nat /\ m < n
        OBVIOUS
      <3>1. PICK x \in ToSet(written) : m = x.line
        BY DEF LinesTo
      <3>2. x \in Lines
        BY MembersOf
      <3>3. x # Marker /\ x.line \in Nat
        BY <3>2, LoggerAssumption DEF Lines, Marker
      <3> QED BY <1>2, <3>1, <3>3 DEF Before
    <2>5. Kept(f, r, W \cup {n})
      <3>1. CASE full
        <4>1. Rotate(s) \in Seq(Seq(Nat))
          BY <2>1, <2>2, RotateKeeps, Zenon
        <4>2. PICK k \in Nat : /\ k <= Len(rotated[s]) /\ (k = Len(rotated[s]) \/ k + 1 >= MaxFiles - 1)
                               /\ Len(Rotate(s)) = k + 1 /\ Rotate(s)[1] = file[s]
                               /\ \A i \in 1..k : Rotate(s)[i + 1] = rotated[s][i]
          BY <2>1, <2>2, RotateKeeps, Zenon
        <4>3. Kept(<<n>>, Rotate(s), W \cup {n})
          <5>1. Len(file[s]) >= MaxFileLines
            BY <3>1
          <5> HIDE DEF W, n, s
          <5>2. W \in SUBSET Nat
            BY <2>4
          <5> QED BY <2>1, <2>2, <2>4, <4>1, <4>2, <5>1, <5>2, KeptRotate, Zenon
        <4> QED BY <3>1, <4>3
      <3>2. CASE ~full
        <4>1. Kept(Append(file[s], n), rotated[s], W \cup {n})
          BY <2>1, <2>2, <2>4, <3>2, KeptAppend, Zenon
        <4> QED BY <3>2, <4>1
      <3> QED BY <3>1, <3>2
    <2> HIDE DEF f, r, full
    <2>6. f \in Seq(Nat) /\ r \in Seq(Seq(Nat))
      BY <2>5 DEF Kept
    <2>7. file' \in [Sinks -> Seq(Nat)] /\ rotated' \in [Sinks -> Seq(Seq(Nat))]
      BY <2>2, <2>3, <2>6, Zenon
    <2>8. ASSUME NEW u \in Sinks PROVE Kept(file'[u], rotated'[u], LinesTo(written', u))
      <3>1. CASE u = s
        <4>1. file'[u] = f /\ rotated'[u] = r
          BY <2>1, <2>2, <2>3, <3>1
        <4>2. LinesTo(written', u) = W \cup {n}
          BY <2>1, <2>3, <3>1, LinesToAppend
        <4> QED BY <2>5, <4>1, <4>2
      <3>2. CASE u # s
        <4>1. file'[u] = file[u] /\ rotated'[u] = rotated[u]
          BY <2>2, <2>3, <3>2
        <4>2. LinesTo(written', u) = LinesTo(written, u)
          BY <2>1, <2>3, <3>2, LinesToAppend
        <4> QED BY <4>1, <4>2 DEF Rotation
      <3> QED BY <3>1, <3>2
    <2> QED BY <2>7, <2>8 DEF Rotation
  <1> QED BY <1>1, <1>2

\* Every step keeps the invariant of the files.
LEMMA RotationStep == Inv /\ Rotation /\ [Next]_vars => Rotation'
  <1> SUFFICES ASSUME Inv, Rotation, [Next]_vars PROVE Rotation'
    OBVIOUS
  <1>1. /\ queue \in Seq(Entries) /\ batch \in Seq(Entries) /\ written \in Seq(Lines)
        /\ Before(ToSet(written), ToSet(batch)) /\ Before(ToSet(written), ToSet(queue))
    BY DEF Inv, TypeOK, Ordered
  <1>2. CASE WriteBatch
    <2>1. batch # <<>> /\ WriteToFile(Head(batch))
      BY <1>2 DEF WriteBatch
    <2>2. Head(batch) \in Entries /\ Head(batch) \in ToSet(batch)
      BY <1>1, <2>1, HeadTailMembers
    <2>3. Before(ToSet(written), {Head(batch)})
      BY <1>1, <2>2 DEF Before
    <2> QED BY <1>1, <2>1, <2>2, <2>3, WriteRotates
  <1>3. CASE Drain /\ queue # <<>>
    <2>1. WriteToFile(Head(queue))
      BY <1>3 DEF Drain
    <2>2. Head(queue) \in Entries /\ Head(queue) \in ToSet(queue)
      BY <1>1, <1>3, HeadTailMembers
    <2>3. Before(ToSet(written), {Head(queue)})
      BY <1>1, <2>2 DEF Before
    <2> QED BY <1>1, <2>1, <2>2, <2>3, WriteRotates
  <1>4. CASE UNCHANGED diskVars
    BY <1>4 DEF diskVars, Rotation
  <1>5. CASE Drain /\ queue = <<>>
    BY <1>4, <1>5 DEF Drain
  <1>6. CASE UNCHANGED vars
    BY <1>4, <1>6 DEF vars
  <1>7. ASSUME NEW t \in Threads, (\E what \in Sinks \cup {"flush"} : Call(t, what)) \/ Push(t) \/ FlushImpl(t)
        PROVE  UNCHANGED diskVars
    BY <1>7 DEF Call, Push, FlushImpl
  <1>8. CASE Check \/ Block \/ BatchDone \/ SpuriousWakeup \/ InitImpl \/ ClearRunning \/ NotifyWriter \/ Join
    BY <1>4, <1>8 DEF Check, Block, BatchDone, SpuriousWakeup, InitImpl, ClearRunning, NotifyWriter, Join
  <1> QED BY <1>2, <1>3, <1>4, <1>5, <1>6, <1>7, <1>8 DEF Next

\* For any number of threads and lines and any size and number of files: the
\* files of a sink are in order, each rotated file is full and older than the
\* one before it, and a line written and no longer on disk is older than every
\* line on disk and was pushed out by max_files_ full files.
THEOREM RotationAlwaysKeepsNewest == Spec => []RotationKeepsNewest
  <1>1. Rotation => RotationKeepsNewest
    <2> SUFFICES ASSUME Rotation, NEW s \in Sinks
                 PROVE  /\ \A i \in 0..Len(rotated[s]) : \A j, k \in DOMAIN FileNo(s, i) :
                               j < k => FileNo(s, i)[j] < FileNo(s, i)[k]
                        /\ \A i, j \in 0..Len(rotated[s]) : i < j =>
                               \A m \in ToSet(FileNo(s, i)), n \in ToSet(FileNo(s, j)) : n < m
                        /\ \A i \in 1..Len(rotated[s]) : Len(FileNo(s, i)) = MaxFileLines
                        /\ OnDisk(s) \subseteq WrittenTo(s)
                        /\ \A n \in WrittenTo(s) \ OnDisk(s) :
                               /\ \A m \in OnDisk(s) : n < m
                               /\ Len(rotated[s]) >= MaxFiles - 1 /\ file[s] # <<>>
      BY DEF RotationKeepsNewest
    <2>1. \A i : FileNo(s, i) = FileAt(file[s], rotated[s], i)
      BY DEF FileNo, FileAt
    <2>2. WrittenTo(s) = LinesTo(written, s)
      BY DEF WrittenTo, LinesTo
    <2>3. OnDisk(s) = DiskOf(file[s], rotated[s])
      BY DEF OnDisk, DiskOf, FileNo, FileAt
    <2>4. Kept(file[s], rotated[s], LinesTo(written, s))
      BY DEF Rotation
    <2>5. /\ \A i \in 0..Len(rotated[s]) : Increasing(FileNo(s, i))
          /\ \A i, j \in 0..Len(rotated[s]) : i < j => Older(FileNo(s, i), FileNo(s, j))
          /\ \A i \in 1..Len(rotated[s]) : Len(FileNo(s, i)) = MaxFileLines
      BY <2>1, <2>4 DEF Kept
    <2>6. /\ OnDisk(s) \subseteq WrittenTo(s)
          /\ \A n \in WrittenTo(s) \ OnDisk(s) :
                 /\ \A m \in OnDisk(s) : n < m
                 /\ Len(rotated[s]) >= MaxFiles - 1 /\ file[s] # <<>>
      BY <2>2, <2>3, <2>4 DEF Kept
    <2> QED BY <2>5, <2>6 DEF Increasing, Older
  <1> QED BY <1>1, RotationInit, RotationStep, LoggerInvariance, PTL DEF Spec

=============================================================================
