------------------------------- MODULE Metrics -------------------------------
(***************************************************************************)
(* NodeMetrics (src/telemetry/metrics.cpp): the totals, and the window of  *)
(* one-second buckets that SHOW METRICS reports from.                      *)
(*                                                                         *)
(* A thread bumps the totals and reads the clock before it takes mu_, so   *)
(* readings reach the buckets in any order; and the clock is the system's, *)
(* which may be set.  A reading is therefore any second.                   *)
(***************************************************************************)
EXTENDS Integers, Sequences

CONSTANTS Window,          \* window_seconds_
          LatencyWindow    \* latency_window_seconds_, a constant in the code

ASSUME MetricsAssumption == Window \in Nat \ {0} /\ LatencyWindow \in Nat

VARIABLES totalRequests, totalErrors,   \* atomics
          buckets,                      \* buckets_: sequence of [ts, count, errors]
          latencies,                    \* latency_ts_ and latency_buf_: sequence of [ts]
          placed                        \* history: second -> requests ever counted in it

metricsVars == <<totalRequests, totalErrors, buckets, latencies, placed>>

MetricsInit ==
    /\ totalRequests = 0 /\ totalErrors = 0
    /\ buckets = <<>>
    /\ latencies = <<>>
    /\ placed = [s \in {} |-> 0]

\* a new process starts with empty metrics
MetricsRestart ==
    /\ totalRequests' = 0 /\ totalErrors' = 0
    /\ buckets' = <<>>
    /\ latencies' = <<>>
    /\ placed' = [s \in {} |-> 0]

\* pop_front while the front is not newer than the cutoff
DropFront(q, cutoff) ==
    LET first == CHOOSE i \in 1..(Len(q) + 1) :
                    /\ \A j \in 1..(i - 1) : q[j].ts <= cutoff
                    /\ i <= Len(q) => q[i].ts > cutoff
    IN  SubSeq(q, first, Len(q))

Back(q) == q[Len(q)]

\* mutant: a bucket is pushed for every reading that is not the last one's
PushIfOther(now) ==
    IF buckets = <<>> \/ Back(buckets).ts # now
    THEN Append(buckets, [ts |-> now, count |-> 0, errors |-> 0]) ELSE buckets

Push(now) ==
    IF buckets = <<>> \/ Back(buckets).ts < now
    THEN Append(buckets, [ts |-> now, count |-> 0, errors |-> 0]) ELSE buckets

\* AdvanceBuckets
Advanced(now) == DropFront(Push(now), now - Window)

\* RecordRequest up to the lock: the totals, then the reading the caller keeps
CountTotals(isError) ==
    /\ totalRequests' = totalRequests + 1
    /\ totalErrors' = totalErrors + (IF isError THEN 1 ELSE 0)
    /\ UNCHANGED <<buckets, latencies, placed>>

Recent(q, now) == DropFront(q, now - LatencyWindow - 1)

\* RecordRequest under the lock
RecordReading(now, isError) ==
    LET b == Advanced(now)
        last == Back(b)
        old == IF last.ts \in DOMAIN placed THEN placed[last.ts] ELSE 0
        e == IF isError THEN 1 ELSE 0
    IN  /\ buckets' = [b EXCEPT ![Len(b)] =
                          [ts |-> last.ts, count |-> last.count + 1, errors |-> last.errors + e]]
        /\ latencies' = Recent(Append(latencies, [ts |-> now]), now)
        /\ placed' = [s \in DOMAIN placed \cup {last.ts} |->
                         IF s = last.ts THEN old + 1 ELSE placed[s]]
        /\ UNCHANGED <<totalRequests, totalErrors>>

\* Snapshot trims what it reports from
Snapshot(now) ==
    /\ buckets' = Advanced(now)
    /\ latencies' = Recent(latencies, now)
    /\ UNCHANGED <<totalRequests, totalErrors, placed>>

MetricsNext ==
    \/ \E isError \in BOOLEAN : CountTotals(isError) \/ \E now \in Int : RecordReading(now, isError)
    \/ \E now \in Int : Snapshot(now)
    \/ MetricsRestart

MetricsSpec == MetricsInit /\ [][MetricsNext]_metricsVars

-----------------------------------------------------------------------------
\* The buckets b are the window: in order of time, none older than the window,
\* with the counts they should have, and none of the window's missing.
Exact(b, counts) ==
    /\ \A i, j \in 1..Len(b) : i < j => b[i].ts < b[j].ts
    /\ \A i \in 1..Len(b) :
          /\ b[i].ts > Back(b).ts - Window
          /\ b[i].errors <= b[i].count
          /\ b[i].count = IF b[i].ts \in DOMAIN counts THEN counts[b[i].ts] ELSE 0
    /\ \A s \in DOMAIN counts :
          /\ b # <<>> /\ s <= Back(b).ts
          /\ s > Back(b).ts - Window => \E i \in 1..Len(b) : b[i].ts = s

\* Every request counted in one of the last Window seconds, up to the latest
\* reading, is in its bucket, and no older one is: a late or set-back reading
\* neither revives a second nor drops one.
WindowIsExact == Exact(buckets, placed)
=============================================================================
