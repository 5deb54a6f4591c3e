------------------------------ MODULE TaskQueue ------------------------------
(***************************************************************************)
(* The asynchronous task queue of a storage node (src/queue) and the life  *)
(* of the server process around it: Submit, Cancel, the worker threads,    *)
(* the WAL, shutdown, crash and restart.                                   *)
(*                                                                         *)
(* The WAL is an append-only file of whole task records of which replay    *)
(* keeps the last one per task, so it is modelled by that map.  A critical *)
(* section of mu_ is one step, except the one that ends in cv_.wait: there *)
(* the worker has evaluated the predicate, still holds mu_, and has not    *)
(* gone to sleep yet.  Stop() does not take mu_ and can run right there.   *)
(***************************************************************************)
EXTENDS Integers, Sequences, FiniteSets, Functions

CONSTANTS Tasks,              \* request ids; Submit draws a fresh UUID each time
          Workers,
          NoWorker, NoTask,
          QueueMax,           \* task_queue_max
          MaxResults,         \* kMaxCompletedResults
          MaxRestarts,        \* bound: how often the process goes down
          MayShutDown,        \* the operator stops the server
          MayCrash,           \* the process dies
          Environments        \* the sets of faults to be expected, see faults

ASSUME TaskQueueAssumption ==
    /\ NoWorker \notin Workers /\ NoTask \notin Tasks
    /\ QueueMax \in Nat /\ MaxResults \in Nat /\ MaxRestarts \in Nat
    /\ {MayShutDown, MayCrash} \subseteq BOOLEAN
    /\ Environments \subseteq SUBSET {"io", "compaction"}
    /\ IsFiniteSet(Tasks)

VARIABLES faults,    \* what goes wrong in this environment; chosen once
          process,   \* "down", "up", then the steps of shutdown: "dbStopped", "stopping", "joining"
          restarts,  \* how often it went down
          accepted,  \* tasks whose Submit returned their id to the client
          wal,       \* the task log: task -> status of its last record
          taskMap,   \* task_map_: task -> status
          pending,   \* pending_queue_
          running,   \* running_
          mu,        \* the worker that holds mu_ between two steps
          at,        \* where each worker is
          task       \* the task it executes

vars == <<faults, process, restarts, accepted, wal, taskMap, pending, running, mu, at, task>>

\* opening the WAL may fail
IoMayFail == "io" \in faults

\* a crash may come between the rename of the compacted WAL and its flush
CrashInCompaction == "compaction" \in faults

Statuses == {"Queued", "Running", "Completed", "Failed", "Cancelled"}
Terminal == {"Completed", "Failed", "Cancelled"}
Places == {"off", "loop", "lock", "block", "waiting", "execute", "refused"}

\* A process image: what is lost when the process ends.
Volatile == <<taskMap, pending, running, mu, at, task>>

Put(f, x, v) == [y \in DOMAIN f \cup {x} |-> IF y = x THEN v ELSE f[y]]
Nothing == [x \in {} |-> "Queued"]

\* mutants: new tasks are not logged; cancellations are not logged
AppendWalKnown(t, status, ok) == wal' = IF t \in DOMAIN wal THEN Put(wal, t, status) ELSE wal
AppendWalSome(t, status, ok) == wal' = IF status = "Cancelled" THEN wal ELSE Put(wal, t, status)

\* AppendWal: one record, or an error when the file does not open
AppendWal(t, status, ok) ==
    wal' = IF ok THEN Put(wal, t, status) ELSE wal

WalOutcomes == IF IoMayFail THEN BOOLEAN ELSE {TRUE}

-----------------------------------------------------------------------------
Init ==
    /\ faults \in Environments
    /\ process = "down"
    /\ restarts = 0
    /\ accepted = {}
    /\ wal = Nothing
    /\ taskMap = Nothing
    /\ pending = <<>>
    /\ running = FALSE
    /\ mu = NoWorker
    /\ at = [w \in Workers |-> "off"]
    /\ task = [w \in Workers |-> NoTask]

\* ReplayWal: the map the log leaves, with unfinished tasks queued again
Unfinished == {t \in DOMAIN wal : wal[t] \notin Terminal}
Replayed == [t \in DOMAIN wal |-> IF t \in Unfinished THEN "Queued" ELSE wal[t]]

\* the unordered_map is walked in no particular order
ReplayOrders == Bijection(1..Cardinality(Unfinished), Unfinished)

\* Start: replay, write the compacted log, then let the workers run.  The queue
\* is a new object, and nothing else runs yet.
Start ==
    /\ process = "down"
    /\ process' = "up"
    /\ taskMap' = Replayed
    /\ pending' \in ReplayOrders
    /\ wal' = Replayed
    /\ running' = TRUE
    /\ at' = [w \in Workers |-> "loop"]
    /\ UNCHANGED <<faults, restarts, accepted, mu, task>>

\* Start returns an error, which StorageService does not look at: the queue
\* accepts tasks and has no worker.  Opening the log fails before anything is
\* read, the compacted copy after.
StartFails ==
    /\ process = "down"
    /\ IoMayFail
    /\ process' = "up"
    /\ \/ /\ DOMAIN wal # {}
          /\ UNCHANGED <<taskMap, pending>>
       \/ /\ taskMap' = Replayed
          /\ pending' \in ReplayOrders
    /\ UNCHANGED <<faults, restarts, accepted, wal, running, mu, at, task>>

\* The compacted log is renamed into place before its stream is flushed: a crash
\* in between leaves the records written so far, perhaps none.
StartCrashes ==
    /\ process = "down"
    /\ CrashInCompaction
    /\ restarts < MaxRestarts
    /\ restarts' = restarts + 1
    /\ \E S \in SUBSET DOMAIN wal : wal' = Restrict(Replayed, S)
    /\ UNCHANGED <<faults, process, accepted, Volatile>>

-----------------------------------------------------------------------------
(* Requests, on the connection threads of a process that is up.            *)

MuFree == mu = NoWorker
IsUp == process # "down"

\* mutant: nobody is woken
NotifyNobody == at' = at

\* notify_one: one of the sleeping workers, if any, goes for the lock
NotifyOne ==
    IF \E w \in Workers : at[w] = "waiting"
    THEN \E w \in Workers : at[w] = "waiting" /\ at' = [at EXCEPT ![w] = "lock"]
    ELSE at' = at

HasRoom == Len(pending) < QueueMax

\* The notification comes after the unlock; nothing observes the gap, because a
\* worker that takes the lock in it finds the task.
Submit(t) ==
    /\ IsUp /\ MuFree
    /\ t \notin accepted /\ t \notin DOMAIN wal
    /\ HasRoom
    /\ accepted' = accepted \cup {t}
    /\ AppendWal(t, "Queued", TRUE)
    /\ taskMap' = Put(taskMap, t, "Queued")
    /\ pending' = Append(pending, t)
    /\ NotifyOne
    /\ UNCHANGED <<faults, process, restarts, running, mu, task>>

\* mutant: the queue entry stays
EraseNothing(q, t) == q

\* pending_queue_ without the first entry for t, if there is one
Erase(q, t) ==
    IF \E i \in DOMAIN q : q[i] = t
    THEN LET i == CHOOSE i \in DOMAIN q : q[i] = t /\ \A j \in 1..(i - 1) : q[j] # t
         IN  [j \in 1..(Len(q) - 1) |-> IF j < i THEN q[j] ELSE q[j + 1]]
    ELSE q

\* Cancel: a task that runs is marked too; its worker finds out when it is done
Cancel(t) ==
    /\ IsUp /\ MuFree
    /\ t \in DOMAIN taskMap
    /\ taskMap[t] \notin Terminal
    /\ taskMap' = [taskMap EXCEPT ![t] = "Cancelled"]
    /\ pending' = Erase(pending, t)
    /\ \E ok \in WalOutcomes : AppendWal(t, "Cancelled", ok)
    /\ UNCHANGED <<faults, process, restarts, accepted, running, mu, at, task>>

-----------------------------------------------------------------------------
(* WorkerLoop.                                                             *)

Move(w, place) == at' = [at EXCEPT ![w] = place]

CheckRunning(w) ==
    /\ at[w] = "loop"
    /\ Move(w, IF running THEN "lock" ELSE "off")
    /\ UNCHANGED <<faults, process, restarts, accepted, wal, taskMap, pending, running, mu, task>>

\* The predicate of cv_.wait is false: the worker will sleep, but holds mu_ still.
DecideToWait(w) ==
    /\ at[w] = "lock" /\ MuFree
    /\ pending = <<>> /\ running
    /\ mu' = w
    /\ Move(w, "block")
    /\ UNCHANGED <<faults, process, restarts, accepted, wal, taskMap, pending, running, task>>

FallAsleep(w) ==
    /\ at[w] = "block"
    /\ mu' = NoWorker
    /\ Move(w, "waiting")
    /\ UNCHANGED <<faults, process, restarts, accepted, wal, taskMap, pending, running, task>>

\* A condition variable may wake up for no reason.
WakeSpuriously(w) ==
    /\ at[w] = "waiting"
    /\ Move(w, "lock")
    /\ UNCHANGED <<faults, process, restarts, accepted, wal, taskMap, pending, running, mu, task>>

Quit(w) ==
    /\ at[w] = "lock" /\ MuFree
    /\ pending = <<>> /\ ~running
    /\ Move(w, "off")
    /\ UNCHANGED <<faults, process, restarts, accepted, wal, taskMap, pending, running, mu, task>>

\* The front of the queue is taken whether or not the queue is stopping.
TakeTask(w) ==
    /\ at[w] = "lock" /\ MuFree
    /\ pending # <<>>
    /\ pending' = Tail(pending)
    /\ LET t == Head(pending)
       IN  IF t \in DOMAIN taskMap /\ taskMap[t] = "Cancelled"
           THEN Move(w, "loop") /\ UNCHANGED <<wal, taskMap, task>>
           ELSE /\ taskMap' = IF t \in DOMAIN taskMap THEN Put(taskMap, t, "Running") ELSE taskMap
                /\ \E ok \in WalOutcomes : AppendWal(t, "Running", ok)
                /\ task' = [task EXCEPT ![w] = t]
                /\ Move(w, IF process = "up" THEN "execute" ELSE "refused")
    /\ UNCHANGED <<faults, process, restarts, accepted, running, mu>>

\* begin() of the hash map is any entry, and it goes only if it is finished
Evict(map, t) ==
    IF Cardinality(DOMAIN map) <= MaxResults THEN {map}
    ELSE {IF map[old] \in Terminal /\ old # t THEN Restrict(map, DOMAIN map \ {old}) ELSE map
            : old \in DOMAIN map}

\* What the executor came back with.  Called after the database was stopped it
\* only has an error to give ("StorageNodeEngine is not started").
Outcomes(w) == IF at[w] = "execute" THEN {"Completed", "Failed"} ELSE {"Failed"}

\* mutant: a cancellation that came meanwhile is overlooked
DroppedOnly(t) == t \notin DOMAIN taskMap

\* the result is of no interest any more
Abandoned(t) == t \notin DOMAIN taskMap \/ taskMap[t] = "Cancelled"

FinishTask(w) ==
    /\ at[w] \in {"execute", "refused"} /\ MuFree
    /\ LET t == task[w]
       IN  IF Abandoned(t) THEN UNCHANGED <<wal, taskMap>>
           ELSE \E outcome \in Outcomes(w), ok \in WalOutcomes :
                   /\ AppendWal(t, outcome, ok)
                   /\ taskMap' \in Evict([taskMap EXCEPT ![t] = outcome], t)
    /\ task' = [task EXCEPT ![w] = NoTask]
    /\ Move(w, "loop")
    /\ UNCHANGED <<faults, process, restarts, accepted, pending, running, mu>>

WorkerStep(w) ==
    \/ CheckRunning(w) \/ DecideToWait(w) \/ FallAsleep(w)
    \/ Quit(w) \/ TakeTask(w) \/ FinishTask(w)

-----------------------------------------------------------------------------
(* Shutdown: main() stops the database, then the destructor of the service *)
(* stops the queue.                                                        *)

StopDatabase ==
    /\ process = "up" /\ MayShutDown
    /\ restarts < MaxRestarts
    /\ process' = "dbStopped"
    /\ UNCHANGED <<faults, restarts, accepted, wal, Volatile>>

StopClearsRunning ==
    /\ process = "dbStopped"
    /\ process' = "stopping"
    /\ running' = FALSE
    /\ UNCHANGED <<faults, restarts, accepted, wal, taskMap, pending, mu, at, task>>

\* notify_all, without mu_: it reaches the workers asleep at this moment
StopNotifies ==
    /\ process = "stopping"
    /\ process' = "joining"
    /\ at' = [w \in Workers |-> IF at[w] = "waiting" THEN "lock" ELSE at[w]]
    /\ UNCHANGED <<faults, restarts, accepted, wal, taskMap, pending, running, mu, task>>

GoDown ==
    /\ process' = "down"
    /\ restarts' = restarts + 1
    /\ taskMap' = Nothing
    /\ pending' = <<>>
    /\ running' = FALSE
    /\ mu' = NoWorker
    /\ at' = [w \in Workers |-> "off"]
    /\ task' = [w \in Workers |-> NoTask]
    /\ UNCHANGED <<faults, accepted, wal>>

StopJoined ==
    /\ process = "joining"
    /\ \A w \in Workers : at[w] = "off"
    /\ GoDown

Crash ==
    /\ MayCrash
    /\ IsUp
    /\ restarts < MaxRestarts
    /\ GoDown

-----------------------------------------------------------------------------
Next ==
    \/ Start \/ StartFails \/ StartCrashes
    \/ \E t \in Tasks : Submit(t) \/ Cancel(t)
    \/ \E w \in Workers : WorkerStep(w) \/ WakeSpuriously(w)
    \/ StopDatabase \/ StopClearsRunning \/ StopNotifies \/ StopJoined
    \/ Crash

Spec == Init /\ [][Next]_vars

\* Threads that can run do run, the executor returns, a process that is down is
\* started again and a shutdown that has begun goes on.  A worker that finds mu_
\* free again and again gets it (SF: the others hold it for moments only).
\* Clients owe nothing, and spurious wakeups cannot be counted on.
Fairness ==
    /\ WF_vars(Start)
    /\ \A w \in Workers : SF_vars(WorkerStep(w))
    /\ WF_vars(StopClearsRunning) /\ WF_vars(StopNotifies) /\ WF_vars(StopJoined)

FairSpec == Spec /\ Fairness

-----------------------------------------------------------------------------
TypeOK ==
    /\ faults \in Environments
    /\ process \in {"down", "up", "dbStopped", "stopping", "joining"}
    /\ restarts \in 0..MaxRestarts
    /\ accepted \subseteq Tasks
    /\ DOMAIN wal \subseteq Tasks /\ wal \in [DOMAIN wal -> Statuses]
    /\ DOMAIN taskMap \subseteq Tasks /\ taskMap \in [DOMAIN taskMap -> Statuses]
    /\ pending \in Seq(Tasks)
    /\ running \in BOOLEAN
    /\ mu \in Workers \cup {NoWorker}
    /\ at \in [Workers -> Places]
    /\ task \in [Workers -> Tasks \cup {NoTask}]

HasStatus(t, S) == t \in DOMAIN taskMap /\ taskMap[t] \in S

\* Every unfinished task is in exactly one place: a queued one once in
\* pending_queue_, a running one with exactly one worker, and a worker never
\* holds a task that is queued again or finished behind its back other than by
\* Cancel.  This is what makes the executor run a task once per process.
EachTaskHasOnePlace ==
    /\ IsInjective(pending)
    /\ \A t \in Tasks : t \in Range(pending) <=> HasStatus(t, {"Queued"})
    /\ \A t \in Tasks : HasStatus(t, {"Running"}) => \E w \in Workers : task[w] = t
    /\ \A w \in Workers : task[w] # NoTask /\ task[w] \in DOMAIN taskMap
                            => HasStatus(task[w], {"Running", "Cancelled"})
    /\ \A v, w \in Workers : task[v] = task[w] /\ v # w => task[v] = NoTask

\* The log follows the map through every step, replay and compaction, and a task
\* the map has dropped is finished in the log: a restart schedules exactly the
\* tasks that were not finished.  A log that cannot be opened breaks this.
WalMatchesMap ==
    ~IoMayFail /\ IsUp =>
        /\ DOMAIN taskMap \subseteq DOMAIN wal
        /\ \A t \in DOMAIN wal : IF t \in DOMAIN taskMap THEN wal[t] = taskMap[t]
                                 ELSE wal[t] \in Terminal

\* A task whose Submit succeeded is in the log for good, whatever I/O errors and
\* crashes follow, short of one that cuts off the compaction.
AcceptedNotLost == ~CrashInCompaction => accepted \subseteq DOMAIN wal

KeepsEnds ==
    \A t \in DOMAIN wal : wal[t] \in Terminal => t \in DOMAIN wal' /\ wal'[t] = wal[t]

\* A recorded end of a task is final: no late worker, cancellation, replay or
\* restart records anything else for it, or runs it again.
TerminalIsFinal == [][~CrashInCompaction => KeepsEnds]_vars

\* Every accepted task gets an end: no wakeup is lost between Submit and the
\* workers, and crashes and shutdowns only delay it, as long as the log can be
\* written and the process is up again and again (which a Stop that never
\* returns prevents).
EveryTaskFinishes ==
    faults = {} /\ []<>(process = "up") =>
        \A t \in Tasks : t \in accepted ~> (t \in DOMAIN wal /\ wal[t] \in Terminal)

\* Stop() returns: it joins its workers, all of which leave their loop.
StopReturns == process = "stopping" ~> process = "down"
=============================================================================
