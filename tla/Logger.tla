------------------------------- MODULE Logger -------------------------------
(***************************************************************************)
(* The asynchronous logger: threads push lines on a bounded queue, a       *)
(* writer thread swaps the queue out and appends the lines to server.log   *)
(* and access.log, rotating a file that is full, and Shutdown stops the    *)
(* writer.  Lines are numbered in the order in which they are queued, and  *)
(* a file's size is its number of lines; the level filter and the JSON are *)
(* left out.  queue_mutex_ is held by the writer in "block" and "drain".   *)
(***************************************************************************)
EXTENDS Integers, Sequences, SequencesExt, FiniteSets

CONSTANTS Threads,
          MaxQueue,      \* max_queue_
          MaxFileLines,  \* max_bytes_
          MaxFiles,      \* max_files_
          MaxLines,      \* bound: lines queued
          MaxFlushes     \* bound: calls of Flush

ASSUME LoggerAssumption ==
    MaxQueue \in Nat \ {0} /\ MaxFileLines \in Nat \ {0} /\ MaxFiles \in Nat \ {0}
    /\ MaxLines \in Nat /\ MaxFlushes \in Nat

VARIABLES initialized, running,
          queue, batch,  \* entries waiting, entries the writer has taken
          writer,        \* where the writer thread is
          stopper,       \* where the thread in Shutdown is
          pending,       \* thread -> the entry it is about to push
          file,          \* sink -> the lines of its current file
          rotated,       \* sink -> its rotated files, <path>.1 first
          pushed,        \* lines queued so far
          flushes,
          dropped,       \* lines pushed out of the full queue
          written,       \* history: all lines written, in order
          due            \* history: the lines queued when Shutdown was called

queueVars == <<queue, batch, pushed, flushes, dropped>>
diskVars == <<file, rotated, written>>
vars == <<initialized, running, writer, stopper, pending, queueVars, diskVars, due>>

Sinks == {"server", "access"}
Marker == [line |-> 0, sink |-> "flush"]  \* the empty entry Flush queues
Line(n, s) == [line |-> n, sink |-> s]
None == "none"

-----------------------------------------------------------------------------
(* The threads that log.  initialized_ is read before the lock is taken.   *)

Call(t, what) ==
    /\ initialized /\ pending[t] = None
    /\ pending' = [pending EXCEPT ![t] = what]
    /\ UNCHANGED <<initialized, running, writer, stopper, queueVars, diskVars, due>>

MutexFree == writer \notin {"block", "drain"}

\* mutant: the writer is not woken
NoNotify == writer

Notify == IF writer = "wait" THEN "check" ELSE writer

\* the oldest entry makes room
Room(q) == IF Len(q) >= MaxQueue THEN Tail(q) ELSE q

Push(t) ==
    /\ pending[t] \in Sinks /\ MutexFree /\ pushed < MaxLines
    /\ queue' = Append(Room(queue), Line(pushed + 1, pending[t]))
    /\ dropped' = dropped \cup (ToSet(queue) \ ToSet(queue'))
    /\ pushed' = pushed + 1
    /\ writer' = Notify
    /\ pending' = [pending EXCEPT ![t] = None]
    /\ UNCHANGED <<initialized, running, stopper, batch, flushes, diskVars, due>>

FlushImpl(t) ==
    /\ pending[t] = "flush" /\ MutexFree /\ flushes < MaxFlushes
    /\ queue' = Append(queue, Marker)
    /\ flushes' = flushes + 1
    /\ writer' = Notify
    /\ pending' = [pending EXCEPT ![t] = None]
    /\ UNCHANGED <<initialized, running, stopper, batch, pushed, dropped, diskVars, due>>

-----------------------------------------------------------------------------
(* The writer thread.                                                      *)

\* mutant: renaming from the lowest i up, each file over the next
RotateAscending(s) == <<file[s]>>

\* rename <path>.i to <path>.(i+1) from the highest i down, removing the last
Rotate(s) == LET kept == IF Len(rotated[s]) < MaxFiles - 1 THEN rotated[s] ELSE SubSeq(rotated[s], 1, MaxFiles - 2)
             IN <<file[s]>> \o kept

WriteToFile(e) ==
    IF e = Marker THEN UNCHANGED diskVars
    ELSE LET s == e.sink
             full == Len(file[s]) >= MaxFileLines
         IN /\ rotated' = IF full THEN [rotated EXCEPT ![s] = Rotate(s)] ELSE rotated
            /\ file' = [file EXCEPT ![s] = Append(IF full THEN <<>> ELSE @, e.line)]
            /\ written' = Append(written, e)

\* mutant: the queue is copied and not emptied
QueueCopied == queue

\* what swapping the queue with the empty batch leaves of it
QueueSwapped == <<>>

\* evaluate the wait's predicate, holding the mutex
Check ==
    /\ writer = "check"
    /\ IF queue # <<>> \/ ~running
       THEN batch' = queue /\ queue' = QueueSwapped /\ writer' = "write"
       ELSE UNCHANGED <<queue, batch>> /\ writer' = "block"
    /\ UNCHANGED <<initialized, running, stopper, pending, pushed, flushes, dropped, diskVars, due>>

\* release the mutex and sleep, in one step
Block ==
    /\ writer = "block" /\ writer' = "wait"
    /\ UNCHANGED <<initialized, running, stopper, pending, queueVars, diskVars, due>>

SpuriousWakeup ==
    /\ writer = "wait" /\ writer' = "check"
    /\ UNCHANGED <<initialized, running, stopper, pending, queueVars, diskVars, due>>

WriteBatch ==
    /\ writer = "write" /\ batch # <<>>
    /\ WriteToFile(Head(batch)) /\ batch' = Tail(batch)
    /\ UNCHANGED <<initialized, running, writer, stopper, pending, queue, pushed, flushes, dropped, due>>

\* mutant: what was queued meanwhile is left behind
AfterBatchNoDrain == IF running THEN "check" ELSE "done"

AfterBatch == IF running THEN "check" ELSE "drain"

BatchDone ==
    /\ writer = "write" /\ batch = <<>>
    /\ writer' = AfterBatch
    /\ UNCHANGED <<initialized, running, stopper, pending, queueVars, diskVars, due>>

Drain ==
    /\ writer = "drain"
    /\ IF queue = <<>> THEN writer' = "done" /\ UNCHANGED <<queue, diskVars>>
       ELSE WriteToFile(Head(queue)) /\ queue' = Tail(queue) /\ UNCHANGED writer
    /\ UNCHANGED <<initialized, running, stopper, pending, batch, pushed, flushes, dropped, due>>

-----------------------------------------------------------------------------
(* Init and Shutdown.  Init on an initialized logger is Shutdown first.    *)

InitImpl ==
    /\ ~initialized
    /\ initialized' = TRUE /\ running' = TRUE /\ writer' = "check"
    /\ UNCHANGED <<stopper, pending, queueVars, diskVars, due>>

ClearRunning ==
    /\ initialized /\ stopper = "idle"
    /\ running' = FALSE /\ stopper' = "notify" /\ due' = pushed
    /\ UNCHANGED <<initialized, writer, pending, queueVars, diskVars>>

\* notify_all, without the mutex
NotifyWriter ==
    /\ stopper = "notify"
    /\ stopper' = "join" /\ writer' = Notify
    /\ UNCHANGED <<initialized, running, pending, queueVars, diskVars, due>>

Join ==
    /\ stopper = "join" /\ writer = "done"
    /\ stopper' = "idle" /\ writer' = None /\ initialized' = FALSE
    /\ UNCHANGED <<running, pending, queueVars, diskVars, due>>

-----------------------------------------------------------------------------
Init ==
    /\ initialized = FALSE /\ running = FALSE /\ writer = None /\ stopper = "idle"
    /\ queue = <<>> /\ batch = <<>> /\ pushed = 0 /\ flushes = 0 /\ dropped = {}
    /\ pending = [t \in Threads |-> None]
    /\ file = [s \in Sinks |-> <<>>] /\ rotated = [s \in Sinks |-> <<>>]
    /\ written = <<>> /\ due = 0

WriterStep == Check \/ Block \/ WriteBatch \/ BatchDone \/ Drain
StopperStep == NotifyWriter \/ Join

Next == \/ \E t \in Threads : \/ \E what \in Sinks \cup {"flush"} : Call(t, what)
                              \/ Push(t) \/ FlushImpl(t)
        \/ Check \/ Block \/ WriteBatch \/ BatchDone \/ Drain
        \/ SpuriousWakeup
        \/ InitImpl \/ ClearRunning \/ NotifyWriter \/ Join

Spec == Init /\ [][Next]_vars
FairSpec == Spec /\ WF_vars(WriterStep) /\ WF_vars(StopperStep)

-----------------------------------------------------------------------------
(* Properties.                                                             *)

Lines == [line : 1..MaxLines, sink : Sinks]
Entries == Lines \cup {Marker}

TypeOK ==
    /\ {initialized, running} \subseteq BOOLEAN
    /\ writer \in {None, "check", "block", "wait", "write", "drain", "done"}
    /\ stopper \in {"idle", "notify", "join"}
    /\ queue \in Seq(Entries) /\ batch \in Seq(Entries) /\ written \in Seq(Lines)
    /\ dropped \subseteq Entries
    /\ pending \in [Threads -> Sinks \cup {None, "flush"}]
    /\ pushed \in 0..MaxLines /\ due \in 0..pushed /\ flushes \in 0..MaxFlushes

InFlight == written \o batch \o queue

\* Lines reach the disk in the order they were queued, each once, and only a
\* line pushed out of the full queue is missing, whatever the interleaving of
\* loggers, writer and Shutdown and across a later Init.
InOrderAndComplete ==
    /\ TypeOK
    /\ \A i, j \in DOMAIN InFlight :
           i < j /\ Marker \notin {InFlight[i], InFlight[j]} => InFlight[i].line < InFlight[j].line
    /\ {e.line : e \in (ToSet(InFlight) \cup dropped) \ {Marker}} = 1..pushed

\* the lines of <path>, or of <path>.i; the lines on disk; all lines of the sink
FileNo(s, i) == IF i = 0 THEN file[s] ELSE rotated[s][i]
OnDisk(s) == UNION {ToSet(FileNo(s, i)) : i \in 0..Len(rotated[s])}
WrittenTo(s) == {e.line : e \in {w \in ToSet(written) : w.sink = s}}

\* Rotation only ever loses the oldest lines.  The files of a sink have lines
\* written to it, each file in order and every file older than the one before
\* it; a line that is on none of them is older than all that are, and no line
\* is lost before max_files_ - 1 rotated files are full.
RotationKeepsNewest ==
    \A s \in Sinks :
        /\ \A i \in 0..Len(rotated[s]) : \A j, k \in DOMAIN FileNo(s, i) :
               j < k => FileNo(s, i)[j] < FileNo(s, i)[k]
        /\ \A i, j \in 0..Len(rotated[s]) : i < j =>
               \A m \in ToSet(FileNo(s, i)), n \in ToSet(FileNo(s, j)) : n < m
        /\ \A i \in 1..Len(rotated[s]) : Len(FileNo(s, i)) = MaxFileLines
        /\ OnDisk(s) \subseteq WrittenTo(s)
        /\ \A n \in WrittenTo(s) \ OnDisk(s) :
               /\ \A m \in OnDisk(s) : n < m
               /\ Len(rotated[s]) >= MaxFiles - 1 /\ file[s] # <<>>

\* When Shutdown has returned, every line queued before it was called is
\* written (or was pushed out of the full queue).
ShutdownDrains ==
    ~initialized => \A n \in 1..due : \E e \in ToSet(written) \cup dropped : e.line = n

\* A queued line does not stay queued: it is written or pushed out, unless the
\* writer has already left.
QueuedLinesLeave ==
    \A n \in 1..MaxLines :
        (\E e \in ToSet(queue) : e.line = n)
            ~> (writer \in {"done", None} \/ \E e \in ToSet(written) \cup dropped : e.line = n)
=============================================================================
