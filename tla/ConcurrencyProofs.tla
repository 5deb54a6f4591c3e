------------------------- MODULE ConcurrencyProofs -------------------------
(***************************************************************************)
(* Proofs about two parts that several threads share.                      *)
(*                                                                         *)
(* The task queue, for any finite set of tasks, any workers and limits,    *)
(* and any number of crashes, shutdowns and restarts.                      *)
(*                                                                         *)
(* The entrypoint's routing table, for every hash function that keeps the  *)
(* nodes' virtual nodes apart: the ring and the table of nodes agree, and  *)
(* a topology change moves only the keys it has to.                        *)
(***************************************************************************)
EXTENDS TaskQueue, Entrypoint, FiniteSetTheorems, TLAPS

-----------------------------------------------------------------------------
(* The task queue.                                                         *)

Busy == {"execute", "refused"}

\* A worker has a task exactly while it executes one.
TaskWhileBusy ==
    \A w \in Workers : IF at[w] \in Busy THEN task[w] \in Tasks ELSE task[w] = NoTask

\* Of a process that is down only the log is left; one that is on its way down
\* has counted that in advance.
DownIsEmpty ==
    /\ process = "down" => /\ taskMap = Nothing /\ pending = <<>> /\ running = FALSE
                           /\ mu = NoWorker
                           /\ at = [w \in Workers |-> "off"]
                           /\ task = [w \in Workers |-> NoTask]
    /\ process \in {"dbStopped", "stopping", "joining"} => restarts < MaxRestarts

\* The log knows every task of the map and of a worker, and the map agrees with
\* an end the log has recorded.
LogKnowsEnds ==
    /\ \A t \in DOMAIN taskMap :
          t \in DOMAIN wal /\ (wal[t] \in Terminal => taskMap[t] = wal[t])
    /\ \A w \in Workers : task[w] # NoTask => task[w] \in DOMAIN wal

IInv == TypeOK /\ EachTaskHasOnePlace /\ TaskWhileBusy /\ DownIsEmpty /\ LogKnowsEnds

-----------------------------------------------------------------------------
(* Sequences without repetition, as pending_queue_ is.                     *)

\* push_back of a task that is not there
LEMMA AppendDistinct ==
    ASSUME NEW S, NEW q \in Seq(S), NEW t \in S, IsInjective(q), t \notin Range(q)
    PROVE  /\ Append(q, t) \in Seq(S) /\ IsInjective(Append(q, t))
           /\ Range(Append(q, t)) = Range(q) \cup {t}
<1> DEFINE r == Append(q, t)
<1>1. r \in Seq(S) /\ DOMAIN r = 1..(Len(q) + 1) /\ DOMAIN q = 1..Len(q) /\ Len(q) \in Nat
  OBVIOUS
<1>2. r[Len(q) + 1] = t /\ \A i \in 1..Len(q) : r[i] = q[i]
  OBVIOUS
<1> HIDE DEF r
<1>3. Range(r) = Range(q) \cup {t}
  BY <1>1, <1>2 DEF Range
<1>4. IsInjective(r)
  BY <1>1, <1>2 DEF IsInjective, Range
<1>5. QED
  BY <1>1, <1>3, <1>4 DEF r

\* pop_front
LEMMA TailDistinct ==
    ASSUME NEW S, NEW q \in Seq(S), q # <<>>, IsInjective(q)
    PROVE  /\ Head(q) \in Range(q) /\ Head(q) \in S
           /\ Tail(q) \in Seq(S) /\ IsInjective(Tail(q))
           /\ Range(Tail(q)) = Range(q) \ {Head(q)}
<1> DEFINE r == Tail(q)
<1>1. /\ r \in Seq(S) /\ DOMAIN r = 1..(Len(q) - 1)
      /\ DOMAIN q = 1..Len(q) /\ Len(q) \in Nat /\ Len(q) >= 1
      /\ Head(q) = q[1] /\ q[1] \in S
  OBVIOUS
<1>2. \A i \in 1..(Len(q) - 1) : r[i] = q[i + 1]
  OBVIOUS
<1> HIDE DEF r
<1>3. IsInjective(r)
  <2>1. ASSUME NEW i \in 1..(Len(q) - 1), NEW j \in 1..(Len(q) - 1), r[i] = r[j] PROVE i = j
    <3>1. i + 1 \in DOMAIN q /\ j + 1 \in DOMAIN q /\ q[i + 1] = q[j + 1]
      BY <1>1, <1>2, <2>1
    <3>2. i + 1 = j + 1
      BY <3>1, Zenon DEF IsInjective
    <3>3. QED
      BY <3>2
  <2>2. QED
    BY <1>1, <2>1, Zenon DEF IsInjective
<1>4. Range(r) = Range(q) \ {q[1]}
  <2>1. ASSUME NEW x \in Range(r) PROVE x \in Range(q) \ {q[1]}
    <3>1. PICK i \in 1..(Len(q) - 1) : x = r[i]
      BY <1>1 DEF Range
    <3>2. x = q[i + 1] /\ i + 1 \in 1..Len(q) /\ i + 1 # 1
      BY <1>1, <1>2, <3>1
    <3>3. QED
      BY <1>1, <3>2 DEF Range, IsInjective
  <2>2. ASSUME NEW x \in Range(q) \ {q[1]} PROVE x \in Range(r)
    <3>1. PICK i \in 1..Len(q) : x = q[i]
      BY <1>1, <2>2 DEF Range
    <3>2. i - 1 \in 1..(Len(q) - 1) /\ r[i - 1] = x
      BY <1>1, <1>2, <2>2, <3>1
    <3>3. QED
      BY <1>1, <3>2 DEF Range
  <2>3. QED
    BY <2>1, <2>2
<1>5. Head(q) \in Range(q)
  BY <1>1 DEF Range
<1>6. QED
  BY <1>1, <1>3, <1>4, <1>5 DEF r

\* erase of the entry Cancel finds, if there is one
LEMMA EraseDistinct ==
    ASSUME NEW S, NEW q \in Seq(S), NEW t, IsInjective(q)
    PROVE  /\ Erase(q, t) \in Seq(S) /\ IsInjective(Erase(q, t))
           /\ Range(Erase(q, t)) = Range(q) \ {t}
<1>1. CASE ~\E i \in DOMAIN q : q[i] = t
  BY <1>1 DEF Erase, Range
<1>2. CASE \E i \in DOMAIN q : q[i] = t
  <2> DEFINE First(k) == q[k] = t /\ \A j \in 1..(k - 1) : q[j] # t
             i == CHOOSE k \in DOMAIN q : First(k)
             r == [j \in 1..(Len(q) - 1) |-> IF j < i THEN q[j] ELSE q[j + 1]]
  <2>1. DOMAIN q = 1..Len(q) /\ Len(q) \in Nat /\ \A k \in 1..Len(q) : q[k] \in S
    OBVIOUS
  <2>2. \E k \in DOMAIN q : First(k)
    BY <1>2, <2>1 DEF IsInjective
  <2>3. i \in 1..Len(q) /\ q[i] = t
    BY <2>1, <2>2
  <2>4. Erase(q, t) = r
    BY <1>2 DEF Erase
  <2> HIDE DEF i
  <2>5. r \in Seq(S) /\ DOMAIN r = 1..(Len(q) - 1)
    BY <2>1, <2>3
  <2>6. IsInjective(r)
    BY <2>1, <2>3 DEF IsInjective
  <2>7. \A x \in Range(r) : x \in Range(q) \ {t}
    BY <2>1, <2>3 DEF Range, IsInjective
  <2>8. ASSUME NEW x \in Range(q) \ {t} PROVE x \in Range(r)
    <3>1. PICK k \in 1..Len(q) : x = q[k]
      BY <2>1 DEF Range
    <3>2. CASE k < i
      <4>1. k \in 1..(Len(q) - 1) /\ r[k] = x
        BY <2>1, <2>3, <3>1, <3>2
      <4>2. QED
        BY <4>1, <2>5 DEF Range
    <3>3. CASE k > i
      <4>1. k - 1 \in 1..(Len(q) - 1) /\ r[k - 1] = x
        BY <2>1, <2>3, <3>1, <3>3
      <4>2. QED
        BY <4>1, <2>5 DEF Range
    <3>4. QED
      BY <2>1, <2>3, <2>8, <3>1, <3>2, <3>3
  <2>9. QED
    BY <2>4, <2>5, <2>6, <2>7, <2>8
<1>3. QED
  BY <1>1, <1>2

\* the order in which replay queues the unfinished tasks
LEMMA ReplayDistinct ==
    ASSUME TypeOK, NEW q \in ReplayOrders
    PROVE  q \in Seq(Tasks) /\ IsInjective(q) /\ Range(q) = Unfinished
<1>1. Unfinished \subseteq Tasks
  BY DEF Unfinished, TypeOK
<1>2. Cardinality(Unfinished) \in Nat
  BY <1>1, TaskQueueAssumption, FS_Subset, FS_CardinalityType
<1>3. q \in [1..Cardinality(Unfinished) -> Unfinished] /\ IsInjective(q)
      /\ \A t \in Unfinished : \E i \in 1..Cardinality(Unfinished) : q[i] = t
  BY DEF ReplayOrders, Bijection, Injection, Surjection
<1>4. QED
  BY <1>1, <1>2, <1>3 DEF Range

-----------------------------------------------------------------------------
(* The inductive invariant.                                                *)

\* Before the first start nothing is queued.
LEMMA InitIInv == Init => IInv
<1> SUFFICES ASSUME Init PROVE IInv
  OBVIOUS
<1> USE DEF Init
<1>1. TypeOK
  <2>1. DOMAIN Nothing = {} /\ Nothing \in [{} -> Statuses]
    BY DEF Nothing
  <2>2. /\ DOMAIN wal \subseteq Tasks /\ wal \in [DOMAIN wal -> Statuses]
        /\ DOMAIN taskMap \subseteq Tasks /\ taskMap \in [DOMAIN taskMap -> Statuses]
    BY <2>1
  <2>3. /\ at \in [Workers -> Places] /\ task \in [Workers -> Tasks \cup {NoTask}]
        /\ pending \in Seq(Tasks) /\ restarts \in 0..MaxRestarts
    BY TaskQueueAssumption DEF Places
  <2>4. QED
    BY <2>2, <2>3, Zenon DEF TypeOK
<1> USE DEF Nothing
<1>2. EachTaskHasOnePlace
  BY DEF EachTaskHasOnePlace, IsInjective, Range, HasStatus
<1>3. TaskWhileBusy /\ DownIsEmpty /\ LogKnowsEnds
  BY DEF TaskWhileBusy, Busy, DownIsEmpty, LogKnowsEnds
<1>4. QED
  BY <1>1, <1>2, <1>3 DEF IInv

\* Steps that only move threads between places where they hold no task.
LEMMA MoveStep ==
    ASSUME IInv, UNCHANGED <<wal, taskMap, pending, task, accepted>>,
           at' \in [Workers -> Places],
           \A w \in Workers : at'[w] = at[w] \/ (at[w] \notin Busy /\ at'[w] \notin Busy),
           TypeOK', DownIsEmpty'
    PROVE  IInv'
<1>1. EachTaskHasOnePlace' /\ LogKnowsEnds'
  BY DEF IInv, EachTaskHasOnePlace, HasStatus, LogKnowsEnds
<1>2. TaskWhileBusy'
  BY DEF IInv, TaskWhileBusy
<1>3. QED
  BY <1>1, <1>2 DEF IInv

\* A fresh process image, after replay or after the end of a process.
LEMMA FreshImage ==
    ASSUME TypeOK', DownIsEmpty', LogKnowsEnds',
           IsInjective(pending'),
           \A t \in Tasks : t \in Range(pending') <=> HasStatus(t, {"Queued"})',
           \A t \in Tasks : ~HasStatus(t, {"Running"})',
           \A w \in Workers : at'[w] \notin Busy /\ task'[w] = NoTask
    PROVE  IInv'
<1>1. EachTaskHasOnePlace'
  BY DEF EachTaskHasOnePlace
<1>2. TaskWhileBusy'
  BY DEF TaskWhileBusy
<1>3. QED
  BY <1>1, <1>2 DEF IInv

\* What replay leaves in the map and in the queue.
LEMMA ReplayedFacts ==
    ASSUME IInv, process = "down", taskMap' = Replayed, pending' \in ReplayOrders,
           wal' = wal \/ wal' = Replayed, task' = task
    PROVE  /\ DOMAIN taskMap' \subseteq Tasks /\ taskMap' \in [DOMAIN taskMap' -> Statuses]
           /\ DOMAIN wal' \subseteq Tasks /\ wal' \in [DOMAIN wal' -> Statuses]
           /\ pending' \in Seq(Tasks) /\ IsInjective(pending')
           /\ \A t \in Tasks : t \in Range(pending') <=> HasStatus(t, {"Queued"})'
           /\ \A t \in Tasks : ~HasStatus(t, {"Running"})'
           /\ LogKnowsEnds'
<1>1. pending' \in Seq(Tasks) /\ IsInjective(pending') /\ Range(pending') = Unfinished
  BY ReplayDistinct DEF IInv
<1>2. /\ DOMAIN Replayed = DOMAIN wal
      /\ \A t \in DOMAIN wal : Replayed[t] = IF t \in Unfinished THEN "Queued" ELSE wal[t]
  BY DEF Replayed
<1>3. \A t \in DOMAIN wal : wal[t] \in Statuses /\ (t \in Unfinished <=> wal[t] \notin Terminal)
  BY DEF Unfinished, IInv, TypeOK
<1>4. Unfinished \subseteq DOMAIN wal
  BY DEF Unfinished
<1>5. DOMAIN Replayed \subseteq Tasks /\ Replayed \in [DOMAIN Replayed -> Statuses]
  <2>1. \A t \in DOMAIN wal : Replayed[t] \in Statuses
    BY <1>2, <1>3 DEF Statuses
  <2>2. QED
    BY <1>2, <2>1 DEF Replayed, IInv, TypeOK
<1>6. \A t \in Tasks : HasStatus(t, {"Queued"})' <=> t \in Unfinished
  BY <1>2, <1>3, <1>4 DEF HasStatus, Terminal
<1>7. \A t \in Tasks : ~HasStatus(t, {"Running"})'
  BY <1>2, <1>3 DEF HasStatus, Terminal
<1>8. LogKnowsEnds'
  BY <1>2, <1>3 DEF IInv, DownIsEmpty, LogKnowsEnds, Terminal
<1>9. QED
  BY <1>1, <1>5, <1>6, <1>7, <1>8 DEF IInv, TypeOK

\* Start replays the log: every unfinished task is queued once.
LEMMA StartStep == IInv /\ Start => IInv'
<1> SUFFICES ASSUME IInv, Start PROVE IInv'
  OBVIOUS
<1> USE DEF Start
<1>1. TypeOK'
  BY ReplayedFacts DEF IInv, TypeOK, Places
<1>2. DownIsEmpty'
  BY DEF DownIsEmpty
<1>3. \A w \in Workers : at'[w] \notin Busy /\ task'[w] = NoTask
  BY DEF IInv, DownIsEmpty, Busy
<1>4. QED
  BY <1>1, <1>2, <1>3, ReplayedFacts, FreshImage

\* A Start that cannot open the log leaves the process without workers.
LEMMA StartFailsStep == IInv /\ StartFails => IInv'
<1> SUFFICES ASSUME IInv, StartFails PROVE IInv'
  OBVIOUS
<1> USE DEF StartFails
<1>1. DownIsEmpty'
  BY DEF DownIsEmpty
<1>2. \A w \in Workers : at'[w] \notin Busy /\ task'[w] = NoTask
  BY DEF IInv, DownIsEmpty, Busy
<1>3. CASE UNCHANGED <<taskMap, pending>>
  <2>1. TypeOK'
    BY <1>3 DEF IInv, TypeOK
  <2>2. QED
    BY <1>1, <1>3, <2>1, MoveStep DEF IInv, TypeOK
<1>4. CASE taskMap' = Replayed /\ pending' \in ReplayOrders
  <2>1. TypeOK'
    BY <1>4, ReplayedFacts DEF IInv, TypeOK
  <2>2. QED
    BY <1>1, <1>2, <1>4, <2>1, ReplayedFacts, FreshImage
<1>5. QED
  BY <1>3, <1>4

\* A crash in the compaction loses records and nothing else.
LEMMA StartCrashesStep == IInv /\ StartCrashes => IInv'
<1> SUFFICES ASSUME IInv, StartCrashes PROVE IInv'
  OBVIOUS
<1>1. PICK S \in SUBSET DOMAIN wal : wal' = Restrict(Replayed, S)
  BY DEF StartCrashes
<1>2. DOMAIN wal' = S /\ \A t \in S : wal'[t] \in Statuses
  BY <1>1 DEF Restrict, Replayed, IInv, TypeOK, Statuses
<1>3. TypeOK'
  <2>1. DOMAIN wal' \subseteq Tasks /\ wal' \in [DOMAIN wal' -> Statuses]
    BY <1>1, <1>2 DEF Restrict, IInv, TypeOK
  <2>2. QED
    BY <2>1, TaskQueueAssumption DEF StartCrashes, Volatile, IInv, TypeOK
<1>4. DownIsEmpty'
  BY DEF StartCrashes, Volatile, IInv, DownIsEmpty
<1>5. LogKnowsEnds'
  BY DEF StartCrashes, Volatile, IInv, DownIsEmpty, LogKnowsEnds, Nothing
<1>6. EachTaskHasOnePlace' /\ TaskWhileBusy'
  BY DEF StartCrashes, Volatile, IInv, EachTaskHasOnePlace, HasStatus, TaskWhileBusy
<1>7. QED
  BY <1>3, <1>4, <1>5, <1>6 DEF IInv

\* The log after an append, successful or not, of a task it knows.
LEMMA AppendFacts ==
    ASSUME IInv, NEW t \in Tasks, NEW s \in Statuses, NEW ok \in BOOLEAN, AppendWal(t, s, ok)
    PROVE  /\ DOMAIN wal \subseteq DOMAIN wal' /\ DOMAIN wal' \subseteq Tasks
           /\ wal' \in [DOMAIN wal' -> Statuses]
           /\ \A u \in DOMAIN wal \ {t} : wal'[u] = wal[u]
           /\ t \in DOMAIN wal => wal'[t] = s \/ wal'[t] = wal[t]
           /\ DOMAIN wal' \subseteq DOMAIN wal \cup {t}
<1>1. CASE ok
  <2>1. DOMAIN wal' = DOMAIN wal \cup {t} /\ wal' \in [DOMAIN wal' -> Statuses]
    BY <1>1 DEF AppendWal, Put, IInv, TypeOK
  <2>2. wal'[t] = s /\ \A u \in DOMAIN wal \ {t} : wal'[u] = wal[u]
    BY <1>1 DEF AppendWal, Put
  <2>3. QED
    BY <2>1, <2>2 DEF IInv, TypeOK
<1>2. CASE ~ok
  BY <1>2 DEF AppendWal, IInv, TypeOK
<1>3. QED
  BY <1>1, <1>2

\* Submit queues a new task once, or refuses it.
LEMMA SubmitStep == ASSUME IInv, NEW t \in Tasks, Submit(t) PROVE IInv'
<1>1. /\ wal' = Put(wal, t, "Queued") /\ taskMap' = Put(taskMap, t, "Queued")
      /\ pending' = Append(pending, t) /\ t \notin DOMAIN wal
      /\ UNCHANGED <<faults, process, restarts, running, mu, task>>
  BY DEF Submit, AppendWal
<1>2. t \notin DOMAIN taskMap /\ t \notin Range(pending)
  BY <1>1 DEF IInv, LogKnowsEnds, EachTaskHasOnePlace, HasStatus
<1>3. /\ pending' \in Seq(Tasks) /\ IsInjective(pending')
      /\ Range(pending') = Range(pending) \cup {t}
  BY <1>1, <1>2, AppendDistinct DEF IInv, TypeOK, EachTaskHasOnePlace
<1>4. /\ DOMAIN taskMap' = DOMAIN taskMap \cup {t} /\ taskMap'[t] = "Queued"
      /\ \A u \in DOMAIN taskMap : taskMap'[u] = taskMap[u]
      /\ DOMAIN wal' = DOMAIN wal \cup {t} /\ wal'[t] = "Queued"
      /\ \A u \in DOMAIN wal : wal'[u] = wal[u]
      /\ wal' \in [DOMAIN wal' -> Statuses] /\ taskMap' \in [DOMAIN taskMap' -> Statuses]
  <2>1. "Queued" \in Statuses
    BY DEF Statuses
  <2>2. /\ DOMAIN taskMap' = DOMAIN taskMap \cup {t} /\ taskMap'[t] = "Queued"
        /\ \A u \in DOMAIN taskMap \ {t} : taskMap'[u] = taskMap[u]
        /\ taskMap' \in [DOMAIN taskMap' -> Statuses]
    <3>1. DOMAIN taskMap \subseteq Tasks /\ taskMap \in [DOMAIN taskMap -> Statuses]
      BY DEF IInv, TypeOK
    <3>2. QED
      BY <1>1, <2>1, <3>1 DEF Put
  <2>3. /\ DOMAIN wal' = DOMAIN wal \cup {t} /\ wal'[t] = "Queued"
        /\ \A u \in DOMAIN wal \ {t} : wal'[u] = wal[u]
        /\ wal' \in [DOMAIN wal' -> Statuses]
    <3>1. DOMAIN wal \subseteq Tasks /\ wal \in [DOMAIN wal -> Statuses]
      BY DEF IInv, TypeOK
    <3>2. QED
      BY <1>1, <2>1, <3>1 DEF Put
  <2>4. QED
    BY <1>1, <1>2, <2>2, <2>3
<1>5. /\ at' \in [Workers -> Places]
      /\ \A w \in Workers : at'[w] = at[w] \/ (at[w] \notin Busy /\ at'[w] \notin Busy)
  BY DEF Submit, NotifyOne, IInv, TypeOK, Places, Busy
<1>6. TypeOK'
  BY <1>1, <1>3, <1>4, <1>5 DEF Submit, IInv, TypeOK
<1>7. EachTaskHasOnePlace'
  <2>1. \A u \in Tasks : HasStatus(u, {"Queued"})' <=> HasStatus(u, {"Queued"}) \/ u = t
    BY <1>2, <1>4 DEF HasStatus
  <2>2. \A u \in Tasks : HasStatus(u, {"Running"})' <=> HasStatus(u, {"Running"})
    BY <1>2, <1>4 DEF HasStatus
  <2>3. \A w \in Workers : task'[w] # t
    <3>1. \A w \in Workers : task[w] # t
      BY <1>1, TaskQueueAssumption DEF IInv, LogKnowsEnds
    <3>2. QED
      BY <1>1, <3>1
  <2>4. QED
    BY <1>1, <1>2, <1>3, <1>4, <2>1, <2>2, <2>3 DEF IInv, EachTaskHasOnePlace, HasStatus
<1>8. TaskWhileBusy' /\ LogKnowsEnds'
  BY <1>1, <1>4, <1>5 DEF IInv, TaskWhileBusy, LogKnowsEnds, Terminal
<1>9. DownIsEmpty'
  BY DEF Submit, IsUp, IInv, DownIsEmpty
<1>10. QED
  BY <1>6, <1>7, <1>8, <1>9 DEF IInv

\* Cancel ends the task and takes it out of the queue; a worker that runs it
\* keeps it.
LEMMA CancelStep == ASSUME IInv, NEW t \in Tasks, Cancel(t) PROVE IInv'
<1>1. PICK ok \in BOOLEAN : AppendWal(t, "Cancelled", ok)
  BY Zenon DEF Cancel, WalOutcomes
<1>2. /\ t \in DOMAIN taskMap /\ taskMap[t] \notin Terminal
      /\ DOMAIN taskMap' = DOMAIN taskMap /\ taskMap'[t] = "Cancelled"
      /\ \A u \in DOMAIN taskMap \ {t} : taskMap'[u] = taskMap[u]
      /\ taskMap' \in [DOMAIN taskMap' -> Statuses]
      /\ UNCHANGED <<faults, process, restarts, accepted, running, mu, at, task>>
  BY DEF Cancel, IInv, TypeOK, Statuses
<1>3. /\ pending' \in Seq(Tasks) /\ IsInjective(pending')
      /\ Range(pending') = Range(pending) \ {t}
  BY EraseDistinct DEF Cancel, IInv, TypeOK, EachTaskHasOnePlace
<1>4. "Cancelled" \in Statuses
  BY DEF Statuses
<1>5. TypeOK'
  BY <1>1, <1>2, <1>3, <1>4, AppendFacts DEF IInv, TypeOK
<1>6. EachTaskHasOnePlace'
  <2>1. \A u \in Tasks : HasStatus(u, {"Queued"})' <=> HasStatus(u, {"Queued"}) /\ u # t
    BY <1>2 DEF HasStatus
  <2>2. \A u \in Tasks : HasStatus(u, {"Running"})' => HasStatus(u, {"Running"})
    BY <1>2 DEF HasStatus
  <2>3. \A u \in Tasks : HasStatus(u, {"Running", "Cancelled"})
                           => HasStatus(u, {"Running", "Cancelled"})'
    BY <1>2 DEF HasStatus
  <2>4. QED
    BY <1>2, <1>3, <2>1, <2>2, <2>3 DEF IInv, TypeOK, EachTaskHasOnePlace
<1>7. TaskWhileBusy' /\ DownIsEmpty'
  BY <1>2 DEF Cancel, IsUp, IInv, TaskWhileBusy, DownIsEmpty
<1>8. LogKnowsEnds'
  <2>1. t \in DOMAIN wal /\ wal[t] \notin Terminal
    BY <1>2 DEF IInv, LogKnowsEnds
  <2>2. QED
    BY <1>1, <1>2, <1>4, <2>1, AppendFacts DEF IInv, LogKnowsEnds
<1>9. QED
  BY <1>5, <1>6, <1>7, <1>8 DEF IInv

\* CheckRunning, DecideToWait, FallAsleep, Quit, WakeSpuriously
LEMMA WaitingSteps ==
    ASSUME IInv, NEW w \in Workers,
           CheckRunning(w) \/ DecideToWait(w) \/ FallAsleep(w) \/ Quit(w) \/ WakeSpuriously(w)
    PROVE  IInv'
<1> USE DEF CheckRunning, DecideToWait, FallAsleep, Quit, WakeSpuriously, Move
<1>1. /\ UNCHANGED <<faults, process, restarts, accepted, wal, taskMap, pending, running, task>>
      /\ mu' \in Workers \cup {NoWorker}
      /\ at' \in [Workers -> Places]
      /\ at[w] \notin Busy /\ at'[w] \notin Busy
      /\ \A v \in Workers \ {w} : at'[v] = at[v]
  BY DEF IInv, TypeOK, Places, Busy
<1>2. TypeOK'
  BY <1>1 DEF IInv, TypeOK
<1>3. process # "down"
  BY DEF IInv, DownIsEmpty
<1>4. DownIsEmpty'
  BY <1>1, <1>3 DEF IInv, DownIsEmpty
<1>5. QED
  BY <1>1, <1>2, <1>4, MoveStep

\* A worker takes the first task of the queue, which is nowhere else.
LEMMA TakeTaskStep == ASSUME IInv, NEW w \in Workers, TakeTask(w) PROVE IInv'
<1> DEFINE t == Head(pending)
<1>1. /\ t \in Range(pending) /\ t \in Tasks /\ pending' \in Seq(Tasks)
      /\ IsInjective(pending') /\ Range(pending') = Range(pending) \ {t}
  BY TailDistinct DEF TakeTask, IInv, TypeOK, EachTaskHasOnePlace
<1>2. t \in DOMAIN taskMap /\ taskMap[t] = "Queued"
  BY <1>1 DEF IInv, EachTaskHasOnePlace, HasStatus
<1>3. /\ taskMap' = Put(taskMap, t, "Running")
      /\ \E ok \in WalOutcomes : AppendWal(t, "Running", ok)
      /\ task' = [task EXCEPT ![w] = t]
      /\ Move(w, IF process = "up" THEN "execute" ELSE "refused")
      /\ UNCHANGED <<faults, process, restarts, accepted, running, mu>>
      /\ at[w] = "lock"
  BY <1>2 DEF TakeTask
<1> HIDE DEF t
<1>4. PICK ok \in BOOLEAN : AppendWal(t, "Running", ok)
  BY <1>3, Zenon DEF WalOutcomes
<1>5. "Running" \in Statuses
  BY DEF Statuses
<1>6. /\ DOMAIN taskMap' = DOMAIN taskMap /\ taskMap'[t] = "Running"
      /\ \A u \in DOMAIN taskMap \ {t} : taskMap'[u] = taskMap[u]
      /\ taskMap' \in [DOMAIN taskMap' -> Statuses]
  <2>1. DOMAIN taskMap \subseteq Tasks /\ taskMap \in [DOMAIN taskMap -> Statuses]
    BY DEF IInv, TypeOK
  <2>2. DOMAIN taskMap \cup {t} = DOMAIN taskMap
    BY <1>2
  <2>3. QED
    BY <1>1, <1>3, <1>5, <2>1, <2>2 DEF Put
<1>7. /\ at' \in [Workers -> Places] /\ at'[w] \in Busy
      /\ \A v \in Workers \ {w} : at'[v] = at[v]
      /\ task' \in [Workers -> Tasks \cup {NoTask}] /\ task'[w] = t
      /\ \A v \in Workers \ {w} : task'[v] = task[v]
  BY <1>1, <1>3 DEF Move, IInv, TypeOK, Places, Busy
<1>8. TypeOK'
  BY <1>1, <1>3, <1>4, <1>5, <1>6, <1>7, AppendFacts DEF IInv, TypeOK
<1>9. /\ task[w] = NoTask
      /\ \A v \in Workers : task[v] # t
  <2>1. task[w] = NoTask
    BY <1>3 DEF IInv, TaskWhileBusy, Busy
  <2>2. ASSUME NEW v \in Workers, task[v] = t PROVE FALSE
    BY <1>1, <1>2, <2>2, TaskQueueAssumption DEF IInv, EachTaskHasOnePlace, HasStatus
  <2>3. QED
    BY <2>1, <2>2
<1>10. EachTaskHasOnePlace'
  <2>1. \A u \in Tasks : HasStatus(u, {"Queued"})' <=> HasStatus(u, {"Queued"}) /\ u # t
    BY <1>6 DEF HasStatus
  <2>2. \A u \in Tasks : HasStatus(u, {"Running"})' <=> HasStatus(u, {"Running"}) \/ u = t
    BY <1>2, <1>6 DEF HasStatus
  <2>3. \A u \in Tasks : HasStatus(u, {"Running", "Cancelled"}) \/ u = t
                           => HasStatus(u, {"Running", "Cancelled"})'
    BY <1>2, <1>6 DEF HasStatus
  <2>4. \A u \in Tasks : HasStatus(u, {"Running"})' => \E v \in Workers : task'[v] = u
    <3>1. ASSUME NEW u \in Tasks, HasStatus(u, {"Running"}) PROVE \E v \in Workers : task'[v] = u
      <4>1. PICK v \in Workers : task[v] = u
        BY <3>1 DEF IInv, EachTaskHasOnePlace
      <4>2. v # w
        BY <4>1, <1>9, TaskQueueAssumption
      <4>3. QED
        BY <4>1, <4>2, <1>7
    <3>2. QED
      BY <2>2, <3>1, <1>7
  <2>5. \A v \in Workers : task'[v] # NoTask /\ task'[v] \in DOMAIN taskMap'
                             => HasStatus(task[v], {"Running", "Cancelled"})'
    <3>1. SUFFICES ASSUME NEW v \in Workers, task'[v] # NoTask, task'[v] \in DOMAIN taskMap'
                   PROVE  HasStatus(task[v], {"Running", "Cancelled"})'
      OBVIOUS
    <3>2. CASE v = w
      BY <1>6, <1>7, <3>1, <3>2 DEF HasStatus
    <3>3. CASE v # w
      <4>1. task'[v] = task[v] /\ task[v] # t
        BY <1>7, <1>9, <3>3
      <4>2. HasStatus(task[v], {"Running", "Cancelled"})
        BY <1>6, <3>1, <4>1 DEF IInv, EachTaskHasOnePlace
      <4>3. QED
        BY <1>6, <4>1, <4>2 DEF HasStatus
    <3>4. QED
      BY <3>2, <3>3
  <2>6. \A u, v \in Workers : task'[u] = task'[v] /\ u # v => task'[u] = NoTask
    BY <1>7, <1>9 DEF IInv, EachTaskHasOnePlace
  <2>7. QED
    BY <1>1, <2>1, <2>4, <2>5, <2>6 DEF IInv, EachTaskHasOnePlace
<1>11. TaskWhileBusy' /\ DownIsEmpty'
  BY <1>1, <1>3, <1>7 DEF IInv, TaskWhileBusy, DownIsEmpty
<1>12. LogKnowsEnds'
  <2>1. t \in DOMAIN wal /\ wal[t] \notin Terminal
    BY <1>2 DEF IInv, LogKnowsEnds, Terminal
  <2>2. wal'[t] \notin Terminal /\ DOMAIN wal \subseteq DOMAIN wal'
        /\ \A u \in DOMAIN wal \ {t} : wal'[u] = wal[u]
    BY <1>1, <1>4, <1>5, <2>1, AppendFacts DEF Terminal
  <2>3. QED
    BY <1>6, <1>7, <2>1, <2>2 DEF IInv, LogKnowsEnds
<1>13. QED
  BY <1>8, <1>10, <1>11, <1>12 DEF IInv

\* A worker records the end of its task unless it was cancelled meanwhile,
\* and evicts an ended one.
LEMMA FinishTaskStep == ASSUME IInv, NEW w \in Workers, FinishTask(w) PROVE IInv'
<1> DEFINE t == task[w]
<1>1. t \in Tasks /\ t # NoTask
  BY TaskQueueAssumption DEF FinishTask, Busy, IInv, TaskWhileBusy
<1>2. /\ task' = [task EXCEPT ![w] = NoTask] /\ at' = [at EXCEPT ![w] = "loop"]
      /\ UNCHANGED <<faults, process, restarts, accepted, pending, running, mu>>
  BY DEF FinishTask, Move
<1>3. /\ at' \in [Workers -> Places] /\ at'[w] = "loop"
      /\ \A v \in Workers \ {w} : at'[v] = at[v]
      /\ task' \in [Workers -> Tasks \cup {NoTask}] /\ task'[w] = NoTask
      /\ \A v \in Workers \ {w} : task'[v] = task[v]
  BY <1>2 DEF IInv, TypeOK, Places
<1>4. \A v \in Workers \ {w} : task[v] # t
  BY <1>1 DEF IInv, EachTaskHasOnePlace
<1>5. TaskWhileBusy' /\ DownIsEmpty'
  BY <1>2, <1>3 DEF FinishTask, Busy, IInv, TaskWhileBusy, DownIsEmpty
<1>6. \A u, v \in Workers : task'[u] = task'[v] /\ u # v => task'[u] = NoTask
  BY <1>3 DEF IInv, EachTaskHasOnePlace
<1>7. CASE Abandoned(t) /\ UNCHANGED <<wal, taskMap>>
  <2>1. TypeOK'
    BY <1>2, <1>3, <1>7 DEF IInv, TypeOK
  <2>2. ~HasStatus(t, {"Running"})
    BY <1>7 DEF Abandoned, HasStatus
  <2>3. \A u \in Tasks : HasStatus(u, {"Running"})' => \E v \in Workers : task'[v] = u
    BY <1>3, <1>7, <2>2 DEF IInv, EachTaskHasOnePlace, HasStatus
  <2>4. \A v \in Workers : task'[v] # NoTask /\ task'[v] \in DOMAIN taskMap'
                             => HasStatus(task[v], {"Running", "Cancelled"})'
    BY <1>3, <1>7 DEF IInv, EachTaskHasOnePlace, HasStatus
  <2>5. EachTaskHasOnePlace'
    BY <1>2, <1>6, <1>7, <2>3, <2>4 DEF IInv, EachTaskHasOnePlace, HasStatus
  <2>6. LogKnowsEnds'
    BY <1>3, <1>7 DEF IInv, LogKnowsEnds
  <2>7. QED
    BY <1>5, <2>1, <2>5, <2>6 DEF IInv
<1>8. ASSUME ~Abandoned(t),
             NEW outcome \in Outcomes(w), NEW ok \in WalOutcomes, AppendWal(t, outcome, ok),
             taskMap' \in Evict([taskMap EXCEPT ![t] = outcome], t)
      PROVE  IInv'
  <2> DEFINE m == [taskMap EXCEPT ![t] = outcome]
  <2>1. outcome \in Terminal /\ outcome \in Statuses /\ outcome \notin {"Queued", "Running"}
    BY DEF Outcomes, Terminal, Statuses
  <2>2. t \in DOMAIN taskMap /\ taskMap[t] = "Running"
    BY <1>1, <1>8 DEF Abandoned, IInv, EachTaskHasOnePlace, HasStatus
  <2>3. /\ DOMAIN m = DOMAIN taskMap /\ m[t] = outcome
        /\ \A u \in DOMAIN taskMap \ {t} : m[u] = taskMap[u]
        /\ \A u \in DOMAIN taskMap : m[u] \in Statuses
    BY <2>1, <2>2 DEF IInv, TypeOK
  <2> HIDE DEF m
  <2>4. /\ DOMAIN taskMap' \subseteq DOMAIN taskMap
        /\ \A u \in DOMAIN taskMap \ DOMAIN taskMap' : m[u] \in Terminal /\ u # t
        /\ \A u \in DOMAIN taskMap' : taskMap'[u] = m[u]
        /\ taskMap' \in [DOMAIN taskMap' -> Statuses]
    <3>1. taskMap' \in Evict(m, t)
      BY <1>8 DEF m
    <3>2. CASE taskMap' = m
      <4>1. m \in [DOMAIN m -> Statuses]
        BY <2>3, Zenon DEF m, IInv, TypeOK
      <4>2. QED
        BY <2>3, <3>2, <4>1
    <3>3. CASE taskMap' # m
      <4>1. PICK old \in DOMAIN m : /\ m[old] \in Terminal /\ old # t
                                    /\ taskMap' = Restrict(m, DOMAIN m \ {old})
        BY <3>1, <3>3 DEF Evict
      <4>2. QED
        BY <2>3, <4>1 DEF Restrict
    <3>4. QED
      BY <3>2, <3>3
  <2>5. ok \in BOOLEAN
    BY Zenon DEF WalOutcomes
  <2>6. TypeOK'
    BY <1>1, <1>2, <1>3, <1>8, <2>1, <2>4, <2>5, AppendFacts DEF IInv, TypeOK
  <2>7. \A u \in Tasks : HasStatus(u, {"Queued"})' <=> HasStatus(u, {"Queued"})
    BY <2>1, <2>2, <2>3, <2>4 DEF HasStatus, Terminal
  <2>8. \A u \in Tasks : HasStatus(u, {"Running"})' => HasStatus(u, {"Running"}) /\ u # t
    BY <2>1, <2>2, <2>3, <2>4 DEF HasStatus
  <2>9. \A u \in Tasks : HasStatus(u, {"Running"})' => \E v \in Workers : task'[v] = u
    <3>1. ASSUME NEW u \in Tasks, HasStatus(u, {"Running"}), u # t
          PROVE  \E v \in Workers : task'[v] = u
      <4>1. PICK v \in Workers : task[v] = u
        BY <3>1 DEF IInv, EachTaskHasOnePlace
      <4>2. QED
        BY <1>3, <3>1, <4>1
    <3>2. QED
      BY <2>8, <3>1
  <2>10. \A v \in Workers : task'[v] # NoTask /\ task'[v] \in DOMAIN taskMap'
                             => HasStatus(task[v], {"Running", "Cancelled"})'
    <3>1. SUFFICES ASSUME NEW v \in Workers, task'[v] # NoTask, task'[v] \in DOMAIN taskMap'
                   PROVE  HasStatus(task[v], {"Running", "Cancelled"})'
      OBVIOUS
    <3>2. v # w /\ task'[v] = task[v] /\ task[v] # t
      BY <1>3, <1>4, <3>1
    <3>3. HasStatus(task[v], {"Running", "Cancelled"})
      BY <2>4, <3>1, <3>2 DEF IInv, EachTaskHasOnePlace
    <3>4. QED
      BY <2>3, <2>4, <3>1, <3>2, <3>3 DEF HasStatus
  <2>11. EachTaskHasOnePlace'
    BY <1>2, <1>6, <2>7, <2>9, <2>10 DEF IInv, EachTaskHasOnePlace
  <2>12. LogKnowsEnds'
    <3>1. t \in DOMAIN wal /\ wal[t] \notin Terminal
      BY <2>2 DEF IInv, LogKnowsEnds, Terminal
    <3>2. /\ wal'[t] = outcome \/ wal'[t] = wal[t]
          /\ DOMAIN wal \subseteq DOMAIN wal'
          /\ \A u \in DOMAIN wal \ {t} : wal'[u] = wal[u]
      BY <1>1, <1>8, <2>1, <2>5, <3>1, AppendFacts
    <3>3. \A u \in DOMAIN taskMap' : u \in DOMAIN wal' /\ (wal'[u] \in Terminal => taskMap'[u] = wal'[u])
      BY <2>3, <2>4, <3>1, <3>2 DEF IInv, LogKnowsEnds
    <3>4. \A v \in Workers : task'[v] # NoTask => task'[v] \in DOMAIN wal'
      BY <1>3, <3>2 DEF IInv, LogKnowsEnds
    <3>5. QED
      BY <3>3, <3>4 DEF LogKnowsEnds
  <2>13. QED
    BY <1>5, <2>6, <2>11, <2>12 DEF IInv
<1>9. QED
  BY <1>7, <1>8, Zenon DEF FinishTask

\* The end of the process, by a crash or after a shutdown.
LEMMA GoDownStep == ASSUME IInv, GoDown, restarts < MaxRestarts PROVE IInv'
<1> USE DEF GoDown
<1>1. DOMAIN Nothing = {} /\ Nothing \in [{} -> Statuses]
  BY DEF Nothing
<1>2. TypeOK'
  <2>1. DOMAIN taskMap' \subseteq Tasks /\ taskMap' \in [DOMAIN taskMap' -> Statuses]
    BY <1>1
  <2>2. /\ at' \in [Workers -> Places] /\ task' \in [Workers -> Tasks \cup {NoTask}]
        /\ pending' \in Seq(Tasks) /\ restarts' \in 0..MaxRestarts
    BY TaskQueueAssumption DEF Places, IInv, TypeOK
  <2>3. QED
    BY <2>1, <2>2, Zenon DEF IInv, TypeOK
<1>3. DownIsEmpty'
  BY DEF DownIsEmpty
<1>4. LogKnowsEnds' /\ \A t \in Tasks : ~HasStatus(t, {"Queued"})' /\ ~HasStatus(t, {"Running"})'
  BY <1>1 DEF LogKnowsEnds, HasStatus
<1>5. \A w \in Workers : at'[w] \notin Busy /\ task'[w] = NoTask
  BY DEF Busy
<1>6. IsInjective(pending') /\ Range(pending') = {}
  BY DEF IsInjective, Range
<1>7. QED
  BY <1>2, <1>3, <1>4, <1>5, <1>6, FreshImage

\* The steps of Stop move no task.
LEMMA StopSteps ==
    ASSUME IInv, StopDatabase \/ StopClearsRunning \/ StopNotifies
    PROVE  IInv'
<1>1. /\ UNCHANGED <<faults, restarts, accepted, wal, taskMap, pending, mu, task>>
      /\ running' \in BOOLEAN
      /\ process' \in {"dbStopped", "stopping", "joining"} /\ process # "down"
      /\ at' \in [Workers -> Places]
      /\ \A w \in Workers : at'[w] = at[w] \/ (at[w] \notin Busy /\ at'[w] \notin Busy)
  BY Zenon DEF StopDatabase, StopClearsRunning, StopNotifies, Volatile, IInv, TypeOK, Places, Busy
<1>2. TypeOK'
  BY <1>1 DEF IInv, TypeOK
<1>3. restarts < MaxRestarts
  BY DEF StopDatabase, StopClearsRunning, StopNotifies, IInv, DownIsEmpty
<1>4. DownIsEmpty'
  BY <1>1, <1>3 DEF DownIsEmpty
<1>5. QED
  BY <1>1, <1>2, <1>4, MoveStep

\* Every step of clients, workers and process preserves the invariant.
LEMMA NextIInv == IInv /\ [Next]_vars => IInv'
<1> SUFFICES ASSUME IInv, [Next]_vars PROVE IInv'
  OBVIOUS
<1>1. CASE Start \/ StartFails \/ StartCrashes
  BY <1>1, StartStep, StartFailsStep, StartCrashesStep
<1>2. ASSUME NEW t \in Tasks, Submit(t) \/ Cancel(t) PROVE IInv'
  BY <1>2, SubmitStep, CancelStep
<1>3. ASSUME NEW w \in Workers, WorkerStep(w) \/ WakeSpuriously(w) PROVE IInv'
  BY <1>3, WaitingSteps, TakeTaskStep, FinishTaskStep DEF WorkerStep
<1>4. CASE StopDatabase \/ StopClearsRunning \/ StopNotifies
  BY <1>4, StopSteps
<1>5. CASE StopJoined \/ Crash
  BY <1>5, GoDownStep, Zenon DEF StopJoined, Crash, IInv, DownIsEmpty
<1>6. CASE UNCHANGED vars
  BY <1>6 DEF vars, IInv, TypeOK, EachTaskHasOnePlace, HasStatus, TaskWhileBusy, DownIsEmpty,
              LogKnowsEnds
<1>7. QED
  BY <1>1, <1>2, <1>3, <1>4, <1>5, <1>6 DEF Next

\* Every reachable state satisfies the inductive invariant.
THEOREM Invariance == Spec => []IInv
  BY InitIInv, NextIInv, PTL DEF Spec

\* The variables keep their types, with I/O errors and crashes at any point.
THEOREM TypeCorrect == Spec => []TypeOK
  BY Invariance, PTL DEF IInv

\* Every unfinished task is queued once or with one worker, in every run of
\* every process: no interleaving of Submit, Cancel, workers and replay puts a
\* task in two places or in none.
THEOREM OnePlace == Spec => []EachTaskHasOnePlace
  BY Invariance, PTL DEF IInv

-----------------------------------------------------------------------------
(* Ends are final.                                                         *)

\* An append keeps the ends when its own task is not finished in the log.
LEMMA AppendKeepsEnds ==
    ASSUME IInv, NEW t \in Tasks, NEW s \in Statuses, NEW ok \in BOOLEAN, AppendWal(t, s, ok),
           t \in DOMAIN wal => wal[t] \notin Terminal
    PROVE  KeepsEnds
  BY AppendFacts DEF KeepsEnds

\* No step changes a recorded end or loses a task, unless a crash cuts off
\* the compaction.
LEMMA StepKeepsEnds ==
    ASSUME ~CrashInCompaction, IInv, [Next]_vars
    PROVE  KeepsEnds
<1>1. CASE wal' = wal
  BY <1>1 DEF KeepsEnds
<1>2. CASE Start
  BY <1>2 DEF Start, Replayed, Unfinished, KeepsEnds
<1>3. ASSUME NEW t \in Tasks, Submit(t) PROVE KeepsEnds
  BY <1>3, AppendKeepsEnds, Zenon DEF Submit, Statuses
<1>4. ASSUME NEW t \in Tasks, Cancel(t) PROVE KeepsEnds
  <2>1. PICK ok \in BOOLEAN : AppendWal(t, "Cancelled", ok)
    BY <1>4, Zenon DEF Cancel, WalOutcomes
  <2>2. t \in DOMAIN wal => wal[t] \notin Terminal
    BY <1>4 DEF Cancel, IInv, LogKnowsEnds
  <2>3. QED
    BY <2>1, <2>2, AppendKeepsEnds DEF Statuses
<1>5. ASSUME NEW w \in Workers, TakeTask(w) PROVE KeepsEnds
  <2> DEFINE t == Head(pending)
  <2>1. t \in Tasks /\ t \in Range(pending)
    BY <1>5, TailDistinct DEF TakeTask, IInv, TypeOK, EachTaskHasOnePlace
  <2>2. HasStatus(t, {"Queued"})
    BY <2>1 DEF IInv, EachTaskHasOnePlace
  <2>3. PICK ok \in BOOLEAN : AppendWal(t, "Running", ok)
    BY <1>5, <2>2, Zenon DEF TakeTask, HasStatus, WalOutcomes
  <2>4. wal[t] \notin Terminal
    BY <2>2 DEF IInv, LogKnowsEnds, HasStatus, Terminal
  <2> HIDE DEF t
  <2>5. QED
    BY <2>1, <2>3, <2>4, AppendKeepsEnds DEF Statuses
<1>6. ASSUME NEW w \in Workers, FinishTask(w) PROVE KeepsEnds
  <2> DEFINE t == task[w]
  <2>1. t \in Tasks /\ t # NoTask
    BY <1>6, TaskQueueAssumption DEF FinishTask, Busy, IInv, TaskWhileBusy
  <2>2. CASE Abandoned(t)
    BY <1>1, <1>6, <2>2 DEF FinishTask
  <2>3. CASE ~Abandoned(t)
    <3>1. PICK outcome \in Outcomes(w), ok \in BOOLEAN : AppendWal(t, outcome, ok)
      BY <1>6, <2>3, Zenon DEF FinishTask, WalOutcomes
    <3>2. outcome \in Statuses
      BY DEF Outcomes, Statuses
    <3>3. t \in DOMAIN taskMap /\ taskMap[t] = "Running"
      BY <2>1, <2>3 DEF Abandoned, IInv, EachTaskHasOnePlace, HasStatus
    <3>4. wal[t] \notin Terminal
      BY <3>3 DEF IInv, LogKnowsEnds, Terminal
    <3>5. QED
      BY <2>1, <3>1, <3>2, <3>4, AppendKeepsEnds
  <2>4. QED
    BY <2>2, <2>3
<1>7. QED
  BY <1>1, <1>2, <1>3, <1>4, <1>5, <1>6
     DEF Next, vars, StartFails, StartCrashes, WorkerStep, CheckRunning, DecideToWait, FallAsleep,
         Quit, WakeSpuriously, StopDatabase, StopClearsRunning, StopNotifies, StopJoined, Crash,
         GoDown

\* What the log records as a task's end stays its end through every later step,
\* I/O error, crash and restart, as long as the compaction itself is not cut off.
THEOREM EndsAreFinal == Spec => TerminalIsFinal
<1>1. IInv /\ [Next]_vars => [~CrashInCompaction => KeepsEnds]_vars
  BY StepKeepsEnds
<1>2. QED
  BY <1>1, Invariance, PTL DEF Spec, TerminalIsFinal

-----------------------------------------------------------------------------
(* The log and the map.                                                    *)

\* The environment stays what it is.
LEMMA StepKeepsFaults == [Next]_vars => faults' = faults
  BY Zenon DEF Next, vars, Start, StartFails, StartCrashes, Submit, Cancel, WorkerStep, CheckRunning,
         DecideToWait, FallAsleep, Quit, TakeTask, FinishTask, WakeSpuriously, StopDatabase,
         StopClearsRunning, StopNotifies, StopJoined, Crash, GoDown

\* The log forgets no task, and Submit returns no id that is not in it.
LEMMA StepKeepsAccepted ==
    ASSUME IInv, AcceptedNotLost, [Next]_vars
    PROVE  AcceptedNotLost'
<1>0. faults' = faults
  BY StepKeepsFaults
<1> USE <1>0 DEF AcceptedNotLost, CrashInCompaction
<1>1. CASE UNCHANGED <<accepted, wal>>
  BY <1>1
<1>2. CASE Start
  BY <1>2 DEF Start, Replayed
<1>3. ASSUME NEW t \in Tasks, Submit(t) PROVE AcceptedNotLost'
  BY <1>3 DEF Submit, AppendWal, Put
<1>5. ASSUME NEW t \in Tasks, Cancel(t) PROVE AcceptedNotLost'
  BY <1>5 DEF Cancel, AppendWal, Put
<1>6. ASSUME NEW w \in Workers, TakeTask(w) \/ FinishTask(w) PROVE AcceptedNotLost'
  <2>1. CASE TakeTask(w)
    BY <2>1, Zenon DEF TakeTask, AppendWal, Put
  <2>2. CASE FinishTask(w)
    BY <2>2, Zenon DEF FinishTask, AppendWal, Put
  <2>3. QED
    BY <1>6, <2>1, <2>2
<1>7. QED
  BY <1>1, <1>2, <1>3, <1>5, <1>6
     DEF Next, vars, StartFails, StartCrashes, WorkerStep, CheckRunning, DecideToWait, FallAsleep,
         Quit, WakeSpuriously, StopDatabase, StopClearsRunning, StopNotifies, StopJoined, Crash,
         GoDown

\* No task whose id went to a client leaves the log, for any number of crashes,
\* as long as none of them cuts off the compaction.
THEOREM AcceptedNeverLost == Spec => []AcceptedNotLost
<1>1. Init => AcceptedNotLost
  BY DEF Init, AcceptedNotLost
<1>2. IInv /\ AcceptedNotLost /\ [Next]_vars => AcceptedNotLost'
  BY StepKeepsAccepted
<1>3. QED
  BY <1>1, <1>2, Invariance, PTL DEF Spec

\* Eviction drops only entries that are finished.
LEMMA EvictFacts ==
    ASSUME NEW m, NEW t, NEW n \in Evict(m, t)
    PROVE  /\ DOMAIN n \subseteq DOMAIN m
           /\ \A u \in DOMAIN n : n[u] = m[u]
           /\ \A u \in DOMAIN m \ DOMAIN n : m[u] \in Terminal
<1>1. CASE n = m
  BY <1>1
<1>2. CASE n # m
  <2>1. PICK old \in DOMAIN m : m[old] \in Terminal /\ n = Restrict(m, DOMAIN m \ {old})
    BY <1>2 DEF Evict
  <2>2. QED
    BY <2>1 DEF Restrict
<1>3. QED
  BY <1>1, <1>2

\* While the log can be written, every step keeps log and map in step.
LEMMA StepKeepsMatch ==
    ASSUME ~IoMayFail, IInv, WalMatchesMap, [Next]_vars
    PROVE  WalMatchesMap'
<1> USE DEF IoMayFail
<1>1. CASE UNCHANGED <<wal, taskMap>> /\ (process' = "down" \/ process # "down")
  BY <1>1 DEF WalMatchesMap, IsUp
<1>2. CASE UNCHANGED <<wal, taskMap, process>>
  BY <1>2 DEF WalMatchesMap, IsUp
<1>3. CASE process' = "down"
  BY <1>3 DEF WalMatchesMap, IsUp
<1>4. CASE Start
  BY <1>4 DEF Start, WalMatchesMap
<1>5. ASSUME NEW t \in Tasks, Submit(t) PROVE WalMatchesMap'
  BY <1>5 DEF Submit, AppendWal, Put, WalMatchesMap, IsUp
<1>6. ASSUME NEW t \in Tasks, Cancel(t) PROVE WalMatchesMap'
  BY <1>6 DEF Cancel, WalOutcomes, AppendWal, Put, WalMatchesMap, IsUp
<1>7. ASSUME NEW w \in Workers, TakeTask(w) PROVE WalMatchesMap'
  <2> DEFINE t == Head(pending)
  <2>1. t \in Tasks /\ t \in Range(pending)
    BY <1>7, TailDistinct DEF TakeTask, IInv, TypeOK, EachTaskHasOnePlace
  <2>2. t \in DOMAIN taskMap /\ taskMap[t] = "Queued"
    BY <2>1 DEF IInv, EachTaskHasOnePlace, HasStatus
  <2>3. /\ taskMap' = Put(taskMap, t, "Running") /\ wal' = Put(wal, t, "Running")
        /\ process' = process
    BY <1>7, <2>2, Zenon DEF TakeTask, WalOutcomes, AppendWal
  <2> HIDE DEF t
  <2>4. QED
    BY <2>2, <2>3 DEF Put, WalMatchesMap, IsUp
<1>8. ASSUME NEW w \in Workers, FinishTask(w) PROVE WalMatchesMap'
  <2> DEFINE t == task[w]
  <2>1. CASE Abandoned(t)
    BY <1>2, <1>8, <2>1 DEF FinishTask
  <2>2. CASE ~Abandoned(t)
    <3>1. PICK outcome \in Outcomes(w) :
              /\ wal' = Put(wal, t, outcome)
              /\ taskMap' \in Evict([taskMap EXCEPT ![t] = outcome], t)
      BY <1>8, <2>2, Zenon DEF FinishTask, WalOutcomes, AppendWal
    <3>2. t \in DOMAIN taskMap /\ process' = process
      BY <1>8, <2>2 DEF FinishTask, Abandoned
    <3> DEFINE m == [taskMap EXCEPT ![t] = outcome]
    <3>3. /\ DOMAIN taskMap' \subseteq DOMAIN m
          /\ \A u \in DOMAIN taskMap' : taskMap'[u] = m[u]
          /\ \A u \in DOMAIN m \ DOMAIN taskMap' : m[u] \in Terminal
      BY <3>1, EvictFacts
    <3>4. DOMAIN m = DOMAIN taskMap /\ m[t] = outcome /\ \A u \in DOMAIN m \ {t} : m[u] = taskMap[u]
      BY <3>2
    <3>5. /\ DOMAIN wal' = DOMAIN wal \cup {t} /\ wal'[t] = outcome
          /\ \A u \in DOMAIN wal \ {t} : wal'[u] = wal[u]
      BY <3>1 DEF Put
    <3> HIDE DEF m, t
    <3>6. QED
      BY <3>2, <3>3, <3>4, <3>5 DEF WalMatchesMap, IsUp
  <2>3. QED
    BY <2>1, <2>2
<1>9. QED
  BY <1>1, <1>2, <1>3, <1>4, <1>5, <1>6, <1>7, <1>8
     DEF Next, vars, Volatile, StartFails, StartCrashes, WorkerStep, CheckRunning, DecideToWait,
         FallAsleep, Quit, WakeSpuriously, StopDatabase, StopClearsRunning, StopNotifies,
         StopJoined, Crash, GoDown

\* While the log can be written, a running process and its log agree on every
\* task, so that a restart queues exactly what was not finished.
THEOREM LogMatches == Spec => []WalMatchesMap
<1>1. Init => WalMatchesMap
  BY DEF Init, WalMatchesMap, IsUp
<1>2. IInv /\ WalMatchesMap /\ [Next]_vars => WalMatchesMap'
  BY StepKeepsMatch, StepKeepsFaults DEF WalMatchesMap, IoMayFail
<1>3. QED
  BY <1>1, <1>2, Invariance, PTL DEF Spec

-----------------------------------------------------------------------------
(* The entrypoint.                                                         *)

\* A non-empty set of positions has a first one: what std::map::lower_bound
\* and begin() return.
LEMMA LeastExists ==
    ASSUME NEW S \in SUBSET Nat, S # {}
    PROVE  Least(S) \in S /\ \A y \in S : Least(S) <= y
  <1> DEFINE Less == {ss \in Nat \X Nat : ss[1] < ss[2]}
  <1>1. IsWellFoundedOn(Less, Nat)
    BY NatLessThanWellFounded DEF OpToRel
  <1> HIDE DEF Less
  <1>2. PICK x \in S : \A y \in S : ~(<<y, x>> \in Less)
    BY <1>1, WFMin, Zenon
  <1>3. ASSUME NEW y \in S PROVE x <= y
    <2>1. x \in Nat /\ y \in Nat OBVIOUS
    <2>2. y < x => <<y, x>> \in Less BY <2>1 DEF Less
    <2> QED BY <1>2, <2>1, <2>2
  <1> QED BY <1>3, Zenon DEF Least

\* ConsistentHashRing::GetNode returns the node at a position of the ring.
LEMMA LowerBoundInRing ==
    ASSUME NEW r, DOMAIN r \subseteq Nat, DOMAIN r # {}, NEW h \in Nat
    PROVE  /\ LowerBound(r, h) \in DOMAIN r
           /\ \A x \in DOMAIN r : h <= x => h <= LowerBound(r, h) /\ LowerBound(r, h) <= x
           /\ (\A x \in DOMAIN r : x < h) => \A x \in DOMAIN r : LowerBound(r, h) <= x
  <1> DEFINE after == {x \in DOMAIN r : h <= x}
             S == IF after = {} THEN DOMAIN r ELSE after
  <1>1. S \in SUBSET Nat /\ S # {} /\ LowerBound(r, h) = Least(S)
    BY DEF LowerBound
  <1>2. Least(S) \in S /\ \A y \in S : Least(S) <= y
    BY <1>1, LeastExists
  <1>3. CASE after = {}
    BY <1>1, <1>2, <1>3
  <1>4. CASE after # {}
    BY <1>1, <1>2, <1>4
  <1> QED BY <1>3, <1>4

\* The position found depends on the set of positions alone, and a smaller
\* set that still has it finds the same one.
LEMMA LowerBoundStable ==
    ASSUME NEW r, NEW q, DOMAIN r \subseteq DOMAIN q, DOMAIN q \subseteq Nat, DOMAIN r # {},
           NEW h \in Nat, LowerBound(q, h) \in DOMAIN r
    PROVE  LowerBound(r, h) = LowerBound(q, h)
  <1> DEFINE a == LowerBound(r, h)
             b == LowerBound(q, h)
  <1>1. /\ a \in DOMAIN r
        /\ \A x \in DOMAIN r : h <= x => h <= a /\ a <= x
        /\ (\A x \in DOMAIN r : x < h) => \A x \in DOMAIN r : a <= x
    BY LowerBoundInRing
  <1>2. /\ b \in DOMAIN q
        /\ \A x \in DOMAIN q : h <= x => h <= b /\ b <= x
        /\ (\A x \in DOMAIN q : x < h) => \A x \in DOMAIN q : b <= x
    BY LowerBoundInRing
  <1>3. a \in Nat /\ b \in Nat /\ a \in DOMAIN q /\ b \in DOMAIN r
    BY <1>1, <1>2
  <1> HIDE DEF a, b
  <1>4. CASE h <= b
    <2>1. h <= a /\ a <= b BY <1>1, <1>3, <1>4
    <2>2. b <= a BY <1>2, <1>3, <2>1
    <2>3. a = b BY <1>3, <2>1, <2>2
    <2> QED BY <2>3 DEF a, b
  <1>5. CASE ~(h <= b)
    <2>1. \A x \in DOMAIN q : x < h BY <1>2, <1>5
    <2>2. a <= b /\ b <= a BY <1>1, <1>2, <1>3, <2>1
    <2>3. a = b BY <1>3, <2>2
    <2> QED BY <2>3 DEF a, b
  <1> QED BY <1>4, <1>5

-----------------------------------------------------------------------------
\* The ring has exactly the positions of the registered nodes, each with its
\* node: what makes the ring a function of the table.
RingInv ==
    /\ Registered \subseteq Nodes
    /\ DOMAIN ring = UNION {Slots[n] : n \in Registered}
    /\ \A n \in Registered : \A h \in Slots[n] : ring[h] = n

\* The constructor places the initial nodes and nothing else.
LEMMA RingInvInit == SlotsDisjoint /\ EntrypointInit => RingInv
  <1> SUFFICES ASSUME SlotsDisjoint, EntrypointInit PROVE RingInv
    OBVIOUS
  <1>1. Registered = StartNodes /\ StartNodes \subseteq Nodes
    BY EntrypointAssumption DEF EntrypointInit, Registered
  <1>2. DOMAIN ring = UNION {Slots[n] : n \in Registered}
    BY <1>1 DEF EntrypointInit, RingOf
  <1>3. ASSUME NEW n \in Registered, NEW h \in Slots[n] PROVE ring[h] = n
    <2>1. h \in UNION {Slots[m] : m \in StartNodes} BY <1>1, <1>3
    <2>2. ring[h] = CHOOSE m \in StartNodes : h \in Slots[m] BY <2>1 DEF EntrypointInit, RingOf
    <2>3. ring[h] \in StartNodes /\ h \in Slots[ring[h]] BY <1>1, <1>3, <2>2
    <2> QED BY <1>1, <1>3, <2>3 DEF SlotsDisjoint
  <1> QED BY <1>1, <1>2, <1>3 DEF RingInv

\* AddNode places exactly the positions of the new node.
LEMMA RingInvAdd ==
    ASSUME SlotsDisjoint, RingInv, NEW n \in Nodes, AddNode(n)
    PROVE  RingInv'
  <1>1. Registered' = Registered \cup {n} /\ n \notin Registered
    BY DEF AddNode, SetHealth, Registered
  <1>2. ring' = RingAdd(ring, n) /\ DOMAIN ring' = DOMAIN ring \cup Slots[n]
    BY DEF AddNode, RingAdd
  <1>3. (DOMAIN ring = UNION {Slots[m] : m \in Registered})'
    BY <1>1, <1>2 DEF RingInv
  <1>4. ASSUME NEW m \in Registered', NEW h \in Slots[m] PROVE ring'[h] = m
    <2>1. CASE m = n BY <1>2, <2>1, <1>4 DEF RingAdd
    <2>2. CASE m # n
      <3>1. m \in Registered /\ m \in Nodes /\ h \in DOMAIN ring /\ ring[h] = m
        BY <1>1, <2>2, <1>4 DEF RingInv
      <3>2. h \notin Slots[n] BY <3>1, <2>2, <1>4 DEF SlotsDisjoint
      <3> QED BY <1>2, <3>1, <3>2 DEF RingAdd
    <2> QED BY <2>1, <2>2
  <1> QED BY <1>1, <1>3, <1>4 DEF RingInv

\* RemoveNode takes exactly the positions of the node away: no other node has
\* them.
LEMMA RingInvRemove ==
    ASSUME SlotsDisjoint, RingInv, NEW n \in Nodes, RemoveNode(n)
    PROVE  RingInv'
  <1>1. Registered' = Registered \ {n} /\ n \in Registered
    BY DEF RemoveNode, Registered
  <1>2. ring' = RingRemove(ring, n) /\ DOMAIN ring' = DOMAIN ring \ Slots[n]
    BY DEF RemoveNode, RingRemove
  <1>3. ASSUME NEW m \in Registered', NEW h \in Slots[m] PROVE h \in DOMAIN ring' /\ ring'[h] = m
    <2>1. m \in Registered /\ m \in Nodes /\ m # n /\ h \in DOMAIN ring /\ ring[h] = m
      BY <1>1, <1>3 DEF RingInv
    <2>2. h \notin Slots[n] BY <2>1, <1>3 DEF SlotsDisjoint
    <2> QED BY <1>2, <2>1, <2>2 DEF RingRemove
  <1>4. ASSUME NEW h \in DOMAIN ring' PROVE \E m \in Registered' : h \in Slots[m]
    <2>1. h \in DOMAIN ring /\ h \notin Slots[n] BY <1>2, <1>4
    <2>2. PICK m \in Registered : h \in Slots[m] BY <2>1 DEF RingInv
    <2> QED BY <1>1, <2>1, <2>2
  <1>5. (DOMAIN ring = UNION {Slots[m] : m \in Registered})'
    BY <1>3, <1>4
  <1> QED BY <1>1, <1>3, <1>5 DEF RingInv

\* Steps that leave the set of nodes alone leave the ring alone.
LEMMA RingInvSame ==
    ASSUME RingInv, ring' = ring, Registered' = Registered
    PROVE  RingInv'
  BY Zenon DEF RingInv

\* Only AddNode and RemoveNode change the ring or the set of nodes: a ping's
\* late answer does not.
LEMMA OtherSteps ==
    ASSUME [EntrypointNext]_entrypointVars
    PROVE  \/ \E n \in Nodes : AddNode(n) \/ RemoveNode(n)
           \/ ring' = ring /\ Registered' = Registered
  <1>1. ASSUME PingNoted PROVE ring' = ring /\ Registered' = Registered
    BY <1>1 DEF PingNoted, NoteHealth, Registered
  <1>2. ASSUME nodes' = nodes, ring' = ring PROVE ring' = ring /\ Registered' = Registered
    BY <1>2 DEF Registered
  <1> QED
    BY <1>1, <1>2, Zenon DEF EntrypointNext, entrypointVars, Ping, Change, Reply, Route, StartRound, PingDone,
       EntrypointStart, Stop, Joined, Destroy

\* Every step of clients, health checks and topology changes keeps the ring
\* in step with the nodes.
LEMMA RingInvStep == SlotsDisjoint /\ RingInv /\ [EntrypointNext]_entrypointVars => RingInv'
  BY OtherSteps, RingInvAdd, RingInvRemove, RingInvSame

\* For every hash function without collisions between nodes, every set of
\* nodes and any sequence of topology changes, health checks and requests,
\* the ring lists exactly the registered nodes, with all their positions.
THEOREM RingAlwaysMatches ==
    ASSUME SlotsDisjoint
    PROVE  EntrypointSpec => []RingMatchesNodes
  <1>1. RingInv => RingMatchesNodes
    <2> SUFFICES ASSUME RingInv PROVE RingMatchesNodes
      OBVIOUS
    <2>1. \A n \in Registered : \A h \in Slots[n] : h \in DOMAIN ring /\ ring[h] = n
      BY DEF RingInv
    <2>2. AllNodes(ring) = {n \in Registered : Slots[n] # {}}
      BY <2>1 DEF RingInv, AllNodes, Range
    <2> QED BY <2>1, <2>2 DEF RingMatchesNodes
  <1>2. EntrypointInit => RingInv BY RingInvInit
  <1>3. RingInv /\ [EntrypointNext]_entrypointVars => RingInv' BY RingInvStep
  <1> QED BY <1>1, <1>2, <1>3, PTL DEF EntrypointSpec

-----------------------------------------------------------------------------
\* The step MinimalRemap allows.
Remap ==
    \A h \in Positions : GetNode(ring, h)' # GetNode(ring, h) =>
        \/ GetNode(ring, h)' \in Registered' \ Registered
        \/ GetNode(ring, h) \in Registered \ Registered'

\* Positions are numbers, so that a lookup finds the least one not below a
\* hash.
LEMMA PositionsNat == RingInv => DOMAIN ring \subseteq Nat
  <1> SUFFICES ASSUME RingInv, NEW h \in DOMAIN ring PROVE h \in Nat
    OBVIOUS
  <1>1. PICK n \in Registered : h \in Slots[n] BY DEF RingInv
  <1>2. n \in Nodes BY DEF RingInv
  <1>3. Slots[n] \subseteq Positions BY <1>2, HashRingAssumption
  <1> QED BY <1>1, <1>3, HashRingAssumption, Zenon

\* AddNode moves keys to the new node only.
LEMMA RemapAdd ==
    ASSUME RingInv, RingInv', NEW n \in Nodes, AddNode(n)
    PROVE  Remap
  <1>1. Registered' = Registered \cup {n} /\ n \notin Registered
    BY DEF AddNode, SetHealth, Registered
  <1>2. /\ DOMAIN ring' = DOMAIN ring \cup Slots[n]
        /\ \A x \in DOMAIN ring' : ring'[x] = IF x \in Slots[n] THEN n ELSE ring[x]
    BY DEF AddNode, RingAdd
  <1>3. DOMAIN ring' \subseteq Nat /\ DOMAIN ring \subseteq Nat
    BY PositionsNat, HashRingAssumption, <1>2, Zenon
  <1> SUFFICES ASSUME NEW h \in Positions, GetNode(ring', h) # GetNode(ring, h)
               PROVE  GetNode(ring', h) = n
    BY <1>1 DEF Remap
  <1>4. h \in Nat BY HashRingAssumption
  <1>5. DOMAIN ring' # {}
    BY <1>2, Zenon DEF GetNode
  <1> DEFINE b == LowerBound(ring', h)
  <1>6. b \in DOMAIN ring' BY <1>3, <1>4, <1>5, LowerBoundInRing
  <1>7. CASE b \in Slots[n] BY <1>2, <1>5, <1>6, <1>7 DEF GetNode
  <1>8. CASE b \notin Slots[n]
    <2>1. b \in DOMAIN ring BY <1>2, <1>6, <1>8
    <2>2. LowerBound(ring, h) = b BY <1>2, <1>3, <1>4, <2>1, LowerBoundStable
    <2>3. ring'[b] = ring[b] BY <1>2, <1>6, <1>8, Zenon
    <2> QED BY <1>5, <2>1, <2>2, <2>3 DEF GetNode
  <1> QED BY <1>7, <1>8

\* RemoveNode moves the keys of the removed node only.
LEMMA RemapRemove ==
    ASSUME SlotsDisjoint, RingInv, RingInv', NEW n \in Nodes, RemoveNode(n)
    PROVE  Remap
  <1>1. Registered' = Registered \ {n} /\ n \in Registered
    BY DEF RemoveNode, Registered
  <1>2. /\ DOMAIN ring' = DOMAIN ring \ Slots[n]
        /\ \A x \in DOMAIN ring' : ring'[x] = ring[x]
    BY DEF RemoveNode, RingRemove
  <1>3. DOMAIN ring \subseteq Nat
    BY PositionsNat
  <1> SUFFICES ASSUME NEW h \in Positions, GetNode(ring', h) # GetNode(ring, h)
               PROVE  GetNode(ring, h) = n
    BY <1>1 DEF Remap
  <1>4. h \in Nat BY HashRingAssumption
  <1>5. DOMAIN ring # {}
    BY <1>2, Zenon DEF GetNode
  <1> DEFINE b == LowerBound(ring, h)
  <1>6. b \in DOMAIN ring BY <1>3, <1>4, <1>5, LowerBoundInRing
  <1>7. CASE b \in Slots[n] BY <1>1, <1>5, <1>6, <1>7 DEF GetNode, RingInv
  <1>8. CASE b \notin Slots[n]
    <2>1. b \in DOMAIN ring' BY <1>2, <1>6, <1>8
    <2>2. LowerBound(ring', h) = b BY <1>2, <1>3, <1>4, <2>1, LowerBoundStable
    <2>3. ring'[b] = ring[b] BY <1>2, <2>1
    <2> QED BY <1>5, <2>1, <2>2, <2>3 DEF GetNode
  <1> QED BY <1>7, <1>8

\* Other steps move no key.
LEMMA RemapSame ==
    ASSUME ring' = ring
    PROVE  Remap
  BY DEF Remap, GetNode, LowerBound

\* For every hash function without collisions between nodes, a step changes
\* the owner of a key only to a node it adds or from a node it removes.
THEOREM KeysMoveMinimally ==
    ASSUME SlotsDisjoint
    PROVE  EntrypointSpec => MinimalRemap
  <1>1. RingInv /\ RingInv' /\ [EntrypointNext]_entrypointVars => Remap
    BY OtherSteps, RemapAdd, RemapRemove, RemapSame
  <1>2. EntrypointInit => RingInv BY RingInvInit
  <1>3. RingInv /\ [EntrypointNext]_entrypointVars => RingInv' BY RingInvStep
  <1>4. EntrypointSpec => [][Remap]_entrypointVars
    BY <1>1, <1>2, <1>3, PTL DEF EntrypointSpec
  <1> QED BY <1>4 DEF MinimalRemap, Remap

-----------------------------------------------------------------------------
\* What ResolveNode returns: NoNode or a registered node not known to be unhealthy.
LEMMA ResolveNodeReturns ==
    ASSUME Registered \subseteq Nodes, Range(ring) \subseteq Nodes, NEW key
    PROVE  ResolveNode(key) # NoNode => ResolveNode(key) \in Nodes /\ Usable(ResolveNode(key))
  <1> DEFINE owner == GetNode(ring, HashOf[key])
             others == {n \in AllNodes(ring) \ {owner} : Usable(n)}
  <1> SUFFICES ASSUME ResolveNode(key) # NoNode
               PROVE  ResolveNode(key) \in Nodes /\ Usable(ResolveNode(key))
    OBVIOUS
  <1>1. CASE Usable(owner)
    BY <1>1 DEF ResolveNode, Usable
  <1>2. CASE ~Usable(owner)
    <2>1. ResolveNode(key) = Least(others) /\ others # {}
      BY <1>2 DEF ResolveNode
    <2>2. others \in SUBSET Nat /\ others \subseteq Nodes
      BY HashRingAssumption, Zenon DEF AllNodes
    <2>3. Least(others) \in others
      BY <2>1, <2>2, LeastExists
    <2> QED BY <2>1, <2>2, <2>3
  <1> QED BY <1>1, <1>2

\* The types hold when the entrypoint is constructed.
LEMMA TypeInit == EntrypointInit => EntrypointTypeOK
  <1> SUFFICES ASSUME EntrypointInit PROVE EntrypointTypeOK
    OBVIOUS
  <1>1. Registered \subseteq Nodes /\ Range(nodes) \subseteq Healths
    BY EntrypointAssumption DEF EntrypointInit, Registered, Range, Healths
  <1>2. DOMAIN ring \subseteq Positions
    BY EntrypointAssumption, HashRingAssumption DEF EntrypointInit, RingOf
  <1>3. Range(ring) \subseteq Nodes
    <2> SUFFICES ASSUME NEW h \in DOMAIN ring PROVE ring[h] \in Nodes
      BY DEF Range
    <2>1. PICK n \in StartNodes : h \in Slots[n]
      BY DEF EntrypointInit, RingOf
    <2>2. ring[h] = CHOOSE m \in StartNodes : h \in Slots[m]
      BY DEF EntrypointInit, RingOf
    <2> QED BY <2>1, <2>2, EntrypointAssumption
  <1> QED BY <1>1, <1>2, <1>3 DEF EntrypointInit, EntrypointTypeOK, Asleep, Round

\* AddNode and RemoveNode keep the types.
LEMMA TypeTopology ==
    ASSUME EntrypointTypeOK, NEW n \in Nodes, AddNode(n) \/ RemoveNode(n)
    PROVE  EntrypointTypeOK'
  <1>1. Slots[n] \subseteq Positions
    BY HashRingAssumption
  <1>2. CASE AddNode(n)
    <2>1. (Registered \subseteq Nodes)' /\ (Range(nodes) \subseteq Healths)'
      <3>1. /\ DOMAIN nodes' = DOMAIN nodes \cup {n}
            /\ \A m \in DOMAIN nodes' : nodes'[m] = IF m \in {n} THEN "unknown" ELSE nodes[m]
        BY <1>2 DEF AddNode, SetHealth
      <3>2. \A m \in DOMAIN nodes : m \in Nodes /\ nodes[m] \in Healths
        BY Zenon DEF EntrypointTypeOK, Registered, Range
      <3>3. "unknown" \in Healths
        BY DEF Healths
      <3>4. \A m \in DOMAIN nodes' : m \in Nodes /\ nodes'[m] \in Healths
        BY <3>1, <3>2, <3>3
      <3> QED BY <3>4, Zenon DEF Registered, Range
    <2>2. (DOMAIN ring \subseteq Positions)' /\ (Range(ring) \subseteq Nodes)'
      <3>1. /\ DOMAIN ring' = DOMAIN ring \cup Slots[n]
            /\ \A h \in DOMAIN ring' : ring'[h] = IF h \in Slots[n] THEN n ELSE ring[h]
        BY <1>2 DEF AddNode, RingAdd
      <3>2. \A h \in DOMAIN ring : h \in Positions /\ ring[h] \in Nodes
        <4>1. DOMAIN ring \subseteq Positions /\ Range(ring) \subseteq Nodes
          BY DEF EntrypointTypeOK
        <4> QED BY <4>1 DEF Range
      <3>3. \A h \in DOMAIN ring' : h \in Positions /\ ring'[h] \in Nodes
        BY <1>1, <3>1, <3>2
      <3> QED BY <3>3, Zenon DEF Range
    <2> QED BY <1>2, <2>1, <2>2 DEF EntrypointTypeOK, AddNode
  <1>3. CASE RemoveNode(n)
    <2>1. (Registered \subseteq Nodes)' /\ (Range(nodes) \subseteq Healths)'
      <3>1. DOMAIN nodes' = DOMAIN nodes \ {n} /\ \A m \in DOMAIN nodes' : nodes'[m] = nodes[m]
        BY <1>3 DEF RemoveNode, Registered
      <3>2. \A m \in DOMAIN nodes : m \in Nodes /\ nodes[m] \in Healths
        BY Zenon DEF EntrypointTypeOK, Registered, Range
      <3>3. \A m \in DOMAIN nodes' : m \in Nodes /\ nodes'[m] \in Healths
        BY <3>1, <3>2
      <3> QED BY <3>3, Zenon DEF Registered, Range
    <2>2. (DOMAIN ring \subseteq Positions)' /\ (Range(ring) \subseteq Nodes)'
      <3>1. DOMAIN ring' = DOMAIN ring \ Slots[n] /\ \A h \in DOMAIN ring' : ring'[h] = ring[h]
        BY <1>3 DEF RemoveNode, RingRemove
      <3>2. \A h \in DOMAIN ring : h \in Positions /\ ring[h] \in Nodes
        <4>1. DOMAIN ring \subseteq Positions /\ Range(ring) \subseteq Nodes
          BY DEF EntrypointTypeOK
        <4> QED BY <4>1 DEF Range
      <3>3. \A h \in DOMAIN ring' : h \in Positions /\ ring'[h] \in Nodes
        BY <3>1, <3>2
      <3> QED BY <3>3, Zenon DEF Range
    <2> QED BY <1>3, <2>1, <2>2, Zenon DEF EntrypointTypeOK, RemoveNode
  <1> QED BY <1>2, <1>3

\* Routing and answering a statement keeps the types.
LEMMA TypeRequests ==
    ASSUME EntrypointTypeOK, NEW c \in Clients, Reply(c) \/ \E s \in Statements : Route(c, s)
    PROVE  EntrypointTypeOK'
  <1>1. CASE Reply(c)
    BY <1>1 DEF EntrypointTypeOK, Reply, Registered
  <1>2. ASSUME NEW s \in Statements, Route(c, s) PROVE EntrypointTypeOK'
    <2>1. ResolveNode(ShardKey(s)) \in Nodes \cup {NoNode}
      BY ResolveNodeReturns DEF EntrypointTypeOK
    <2> QED BY <1>2, <2>1 DEF EntrypointTypeOK, Route, Registered
  <1> QED BY <1>1, <1>2

\* A ping, its answer and its noting keep the types.
LEMMA TypeChecker == ASSUME EntrypointTypeOK, CheckerStep PROVE EntrypointTypeOK'
  <1>1. CASE StartRound
    BY <1>1 DEF EntrypointTypeOK, StartRound, Round, Registered
  <1>2. ASSUME NEW n \in Nodes, Ping(n) PROVE EntrypointTypeOK'
    BY <1>2, Zenon DEF EntrypointTypeOK, Ping, Registered
  <1>3. CASE PingDone
    <2>1. checker.target \in Nodes
      BY <1>3 DEF EntrypointTypeOK, PingDone
    <2>2. condition[checker.target] \in {"up", "down"}
      BY <1>3, <2>1 DEF EntrypointTypeOK, PingDone
    <2> QED BY <1>3, <2>2 DEF EntrypointTypeOK, PingDone, Registered
  <1>4. CASE PingNoted
    <2>1. (Registered \subseteq Nodes)' /\ (Range(nodes) \subseteq Healths)'
      BY <1>4 DEF EntrypointTypeOK, PingNoted, NoteHealth, HealthNow, Registered, Range, Healths
    <2> QED BY <1>4, <2>1 DEF EntrypointTypeOK, PingNoted, Round
  <1> QED BY <1>1, <1>2, <1>3, <1>4 DEF CheckerStep

\* Every step keeps the types.
LEMMA TypeStep == EntrypointTypeOK /\ [EntrypointNext]_entrypointVars => EntrypointTypeOK'
  <1> SUFFICES ASSUME EntrypointTypeOK, [EntrypointNext]_entrypointVars PROVE EntrypointTypeOK'
    OBVIOUS
  <1>1. ASSUME NEW n \in Nodes, NEW what \in NodeStates[n], Change(n, what) PROVE EntrypointTypeOK'
    BY <1>1, EntrypointAssumption, Zenon DEF EntrypointTypeOK, Change, Registered
  <1>2. ASSUME NEW bound \in BOOLEAN, EntrypointStart(bound) PROVE EntrypointTypeOK'
    BY <1>2 DEF EntrypointTypeOK, EntrypointStart, Round, Registered
  <1>3. CASE Stop \/ Joined \/ Destroy
    BY <1>3 DEF EntrypointTypeOK, Stop, Joined, Destroy, Registered
  <1>4. CASE UNCHANGED entrypointVars
    BY <1>4 DEF EntrypointTypeOK, entrypointVars, Registered
  <1> QED BY <1>1, <1>2, <1>3, <1>4, TypeTopology, TypeRequests, TypeChecker DEF EntrypointNext, CheckerStep

\* The state of the entrypoint is well-formed: in particular a request is with
\* a node that exists, and the health-check thread holds an answer only as
\* "up" or "down".
THEOREM EntrypointTypeCorrect == EntrypointSpec => []EntrypointTypeOK
  BY TypeInit, TypeStep, PTL DEF EntrypointSpec

\* With at least one virtual node per node and a hash into the ring, a
\* statement is refused only when every registered node is known to be
\* unhealthy, and otherwise goes to a registered node that is not.
THEOREM StatementsAreRouted ==
    ASSUME SlotsDisjoint, \A n \in Nodes : Slots[n] # {},
           \A s \in Statements : HashOf[ShardKey(s)] \in Positions
    PROVE  EntrypointSpec => []RoutesWheneverPossible
  <1>1. EntrypointTypeOK /\ RingInv => RoutesWheneverPossible
    <2> SUFFICES ASSUME EntrypointTypeOK, RingInv, NEW s \in Statements
                 PROVE  LET n == ResolveNode(ShardKey(s))
                        IN IF n = NoNode THEN \A m \in Registered : nodes[m] = "unhealthy"
                           ELSE n \in Registered /\ nodes[n] # "unhealthy"
      BY DEF RoutesWheneverPossible
    <2> DEFINE n == ResolveNode(ShardKey(s))
               h == HashOf[ShardKey(s)]
    <2>1. n # NoNode => n \in Registered /\ nodes[n] # "unhealthy"
      BY ResolveNodeReturns DEF EntrypointTypeOK, Usable
    <2>2. ASSUME n = NoNode, NEW m \in Registered PROVE nodes[m] = "unhealthy"
      <3>1. h \in Nat /\ DOMAIN ring \subseteq Nat
        BY PositionsNat, HashRingAssumption, Zenon
      <3>2. PICK x \in Slots[m] : x \in DOMAIN ring /\ ring[x] = m
        BY <2>2 DEF RingInv
      <3>3. LowerBound(ring, h) \in DOMAIN ring
        BY <3>1, <3>2, LowerBoundInRing
      <3> DEFINE owner == GetNode(ring, h)
                 others == {k \in AllNodes(ring) \ {owner} : Usable(k)}
      <3>4. owner \in Registered
        <4>1. owner = ring[LowerBound(ring, h)]
          BY <3>2 DEF GetNode
        <4>2. PICK k \in Registered : LowerBound(ring, h) \in Slots[k]
          BY <3>3 DEF RingInv
        <4> QED BY <4>1, <4>2 DEF RingInv
      <3>5. 0 \notin Nodes /\ Registered \subseteq Nodes
        BY HashRingAssumption DEF EntrypointTypeOK
      <3>6. ~Usable(owner)
        BY <2>2, <3>4, <3>5 DEF ResolveNode, NoNode
      <3>7. others = {}
        <4>1. SUFFICES ASSUME others # {} PROVE FALSE
          OBVIOUS
        <4>2. n = Least(others)
          BY <3>4, <3>6, <4>1 DEF ResolveNode
        <4>3. others \in SUBSET Nat /\ others \subseteq Nodes
          BY HashRingAssumption, Zenon DEF EntrypointTypeOK, AllNodes
        <4>4. Least(others) \in others
          BY <4>1, <4>3, LeastExists
        <4> QED BY <2>2, <3>5, <4>2, <4>3, <4>4 DEF NoNode
      <3>8. m \in AllNodes(ring)
        BY <3>2 DEF AllNodes, Range
      <3>9. ~Usable(m)
        BY <3>6, <3>7, <3>8
      <3> QED BY <2>2, <3>9 DEF Usable
    <2> QED BY <2>1, <2>2
  <1>2. EntrypointInit => RingInv BY RingInvInit
  <1>3. RingInv /\ [EntrypointNext]_entrypointVars => RingInv' BY RingInvStep
  <1> QED BY <1>1, <1>2, <1>3, TypeInit, TypeStep, PTL DEF EntrypointSpec
=============================================================================
