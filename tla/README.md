# A verification of CourseDB in TLA+

CourseDB is a small distributed relational database in C++: storage nodes that
execute a subset of SQL on paged files with B*-tree indexes, a version log and
`REVERT`, an asynchronous task queue with a write-ahead log (WAL), an
asynchronous logger, and an entrypoint that routes statements to storage nodes
by consistent hashing. This directory holds TLA+ models of its stateful parts,
the TLC configurations that check them on small instances, and TLAPS proofs
for any size of some of them. `PROJECT.json` relates every definition to the
source lines it models and lists the runs, the properties, the hazards they
cover, the disagreements found and the theorems.

Paths below are relative to the repository; "README" with a line number is the
repository's own `README.md`.

## Running the checks

    tlc -workers 2 -config LockManager.cfg MCLockManager
    tlapm GuardedObjectProofs.tla

Every `.cfg` belongs to the `MC...` module of its component. Runs marked
*violation* below are expected to end with a counterexample.

## Inventory: the system and its parts

| Part | Source | Model |
|---|---|---|
| Storage service, sessions, restarts | `src/server/storage_service.cpp` | `StorageService`, composed of itself, `Rbac` and `Metrics` |
| Users, groups, permissions | `src/auth/rbac.cpp` | `Rbac` |
| Metrics of a node | `src/telemetry/metrics.cpp` | `Metrics` |
| Conditions: parser, binder, choice of an index, evaluation | `src/parser/parser.cpp`, `src/planner`, `src/execution` | `Conditions` |
| INSERT, SELECT, UPDATE, DELETE | `src/planner`, `src/execution` | `Statements`, on `IndexedHeap` |
| Rows and their indexes | `src/runtime`, `src/storage/table_storage.cpp`, `src/index/index_manager.cpp` | `IndexedHeap` |
| Version log, REVERT | `src/versioning`, `src/runtime` | `VersionedTable`, on `IndexedHeap` |
| Row store on pages | `src/storage/row_store.cpp`, `page_manager.cpp` | `RowStore`, refining `HeapRows` |
| B*-tree | `src/index/bstar_tree.cpp` | `BStarTree`, refining `KeySet` |
| Databases, tables, caches, restarts | `src/runtime`, `src/catalog`, `src/index/index_manager.cpp` | `StorageNode` |
| Task queue, WAL, server shutdown | `src/queue`, parts of `src/server`, `apps/server` | `TaskQueue` |
| Transactions and row locks | `src/transaction` | `LockManager`, refining `RowLocks` |
| Logger | `src/logging` | `Logger` |
| Entrypoint, hash ring, health checks | `src/cluster`, `src/network/tcp_client.cpp` | `HashRing`, `Entrypoint` |
| SQL text, tokens, serialization, sockets, configuration, command line client | `src/parser`, `src/auth/jwt_auth.cpp`, `src/common`, `src/network`, `apps/cli` | not modelled (see the last section) |

A module `X` is checked through `MCX` and, where it is proved about, its
theorems are in `XProofs`, with these exceptions: `GuardedObjectProofs` is about
three objects whose methods a mutex guards, `LockManager`, `Rbac` and
`Metrics`, and `StorageServiceProofs` builds on it; `ConcurrencyProofs` is about
`TaskQueue` and `Entrypoint`; and `StatementProofs` is about `Statements`.

How the parts interact: a client's statement reaches the entrypoint, which
hashes its shard key, picks a storage node that is not known to be unhealthy
and forwards the statement. On the storage node each connection has a thread
of its own, which calls the storage service. The service finds the session of
the client id, checks token and permission, answers statements about users,
tasks and metrics from the component in charge, and passes the rest to the
query processor, whose executors call the engine. The engine looks a table up
in the catalog, opens its heap file, indexes and version log once and caches
them, and changes heap, indexes and log in that order. Workers of the task
queue run statements the same way. Everything logs.

The layers of the storage node are joined by what each promises to the one
above. `HeapRows` (a map from row ids to tuples) and `KeySet` (a set of unique
keys) are the promises of the row store and of the tree; `RowStore` and
`BStarTree` are shown to keep them. `IndexedHeap` puts rows and index entries
of just that form together, with the four changes the engine makes to them,
and is extended by two modules that ask different questions of it: `Statements`
what a client's statement does to the rows, `VersionedTable` what undoing a
history of changes leads back to. `StorageService` contains the whole of `Rbac`
and `Metrics`: its actions take their actions as conjuncts, and it is proved
that each of its steps is a step of either component or leaves it alone.

## The modules

A definition carries the name of the function it models wherever there is
one. A critical section of a mutex is one step; where the code reads or writes
shared state outside the mutex, the call is split there. Operators with a
comment "mutant", and those that stand directly before the definition they
resemble, are deliberately wrong variants: putting one in the place of the
definition after it must make a property fail, which shows that the property
can see that mistake.

**LockManager** (`lock_manager.cpp`, `transaction_manager.cpp`).
`lockTable` and `txnLocks` are the two maps, `state` the state of each
transaction, `pc` the critical section its thread is about to enter. The check
of the transaction's state happens before the mutex is taken, so each call is
two steps (`CallLockShared`, then `LockShared`), and `Commit`/`Rollback` change
the state in one step and release in the next. A transaction is driven by one
thread, and `Begin` is called by one thread at a time, as everywhere in the
repository; the SQL layer does not use this component. `RowLocks` is the
abstract specification: a mode per transaction and row, granted only when
compatible.

**TaskQueue** (`task_queue.cpp`, the executor in `storage_service.cpp`, the
shutdown in `apps/server/main.cpp`). The log is the map from tasks to the
status of their last record, which is all that replay looks at. `cv_.wait` is
split into evaluating the predicate, falling asleep and waking up, because
`Stop` does not take the mutex and may run in between. The process goes down by
`StopDatabase`, `StopClearsRunning`, `StopNotifies`, `StopJoined` in the order
of `main`, or by `Crash` at any moment, and starts again with `Start`, whose
replay walks a hash map, hence in any order.

**IndexedHeap** (`storage_node_engine.cpp`, `table_storage.cpp`). `heap` has
every row ever stored, deleted ones with a tombstone; `index` is a map from keys
to row ids for each index. `InsertInternal`, `UpdateInternal`, `DeleteInternal`
and `RestoreInternal` are functions from this state to the next and a status:
they stop at the first error without undoing anything, so a failed call leaves a
defined trace. The loops over the indexes are given by the index they stop at.

**VersionedTable** (`storage_node_engine.cpp`, `revert.cpp`,
`version_log.cpp`). A tuple is its indexed columns. A REVERT is one step per
record, latest first. `past`, `since`, `failed` and `beyond` are history
variables: the table at the end of each millisecond, the moment after which
every change is in the log, and how many statements failed midway and how many
reverts went back beyond an earlier one.

**Conditions** (`parser.cpp`, `binder.cpp`, `planner.cpp`,
`index_scan_executor.cpp`, `expression.cpp`, `value.cpp`). Pure operators:
the recursive descent over tokens with its precedences, the binder's checks, the
column the planner finds an index for, the key that the index scan extracts, and
the evaluation with NULL, type errors and short circuits, whose value is "yes",
"no" or "error". Strings are numbers in the same order, and the regular
expressions of LIKE a constant operator that may also be in error.

**Statements** (`query_processor.cpp` and the executors). The language of
conditions is a parameter, six constant operators (`Parse`, `ColumnsKnown`,
`IndexColumn`, `IndexKey`, `KeyFits`, `Matches`) that the configuration gives
the operators of `Conditions` for: what is proved of the executors then holds
for every such language. A statement starts with parsing, binding, planning and reading the rows it will loop over; each row
is a step of its own, an engine call with its status; the first error ends the
loop with what was done left as it is. `before` and `torn` are history
variables: the table when the statement came, and whether some engine call
failed halfway.

**Rbac** (`rbac.cpp`). The two maps, and the file. An operation changes the
maps and then saves: writing the temporary file, which may fail or be cut short
unnoticed, renaming it, returning. `mu_` is held throughout, so only the end of
the process comes in between; `Open` reads what is then there. `acked` and
`touched` are history variables: the maps at the last reported success, and who
was named by operations since.

**Metrics** (`metrics.cpp`). Totals are atomics that are counted, and the clock
is read, before the lock is taken, so readings reach the buckets in any order.
`placed` is a history variable: how many requests were ever counted in each
second.

**StorageService** (`storage_service.cpp`). `HandleRequest` on several threads.
The context of a client id is found under a lock and used after it is released,
so two threads can use one context at a time; what an assignment in such a race
leaves there is any value of the field. `Crash` ends the process at any step,
`Construct` and `Serve` bring it up. `alone`, `checked`, `accepted` and `failed`
are history variables: whether a request has had its context to itself, the user
its permission was checked for, and what was received and refused.

**RowStore** (`row_store.cpp`, `page_manager.cpp`). A page is the list of its
rows, a row has the size of its serialized entry. `Insert` uses the first page
with room; the other operations load all rows and repack all pages. The
metadata page has the counters that reopening reads back.

**BStarTree** (`bstar_tree.cpp`). Insertion with redistribution to the right
sibling before a split, deletion with redistribution or merging up to the
root, point search, range search along the chain of leaves with optional
bounds. The degree is a field of the tree, as in its metadata page. A tree is a value,
an operation a function from trees to trees, and `tree` the one variable. Two
observations from the translation: `parent_page_id` is written and never read,
and `rewrite_child_parent` re-parses the header over the value it has just set;
neither can be seen through the interface.

**StorageNode** (`storage_node_engine.cpp`, `catalog_manager.cpp`,
`index_manager.cpp`, the index lookup of `index_scan_executor.cpp`). Files are
inodes, so that a file removed by `DropDatabase` lives on as long as a cache
holds it open. The state is the directory tree, the contents of the files, and
the caches of the engine and the index manager. `reused` is a history variable:
the tables that were created under an index name used before.

**Logger** (`logger.cpp`). Threads in `Log`/`Flush`, the writer thread with its
wait split as in TaskQueue, the thread in `Shutdown`, and the files of the two
sinks with their rotated predecessors.

**HashRing** and **Entrypoint** (`consistent_hash.cpp`, `entrypoint.cpp`,
`tcp_client.cpp`). The ring is the map from positions to nodes. The hash
function is a constant: where the virtual nodes of each node and the shard keys
lie. A ping is three steps (sent, answered, noted under the lock); nodes may be
removed and added again in between. Storage nodes are external: up, down or
hung.

## What the runs check

*pass* runs, each with the number of distinct states TLC visits:

| Run | Configuration | Shows | States |
|---|---|---|---|
| `service` | `StorageService.cfg` | Two threads that may have one client id, every kind of statement, failing saves, a restart: a request that has its client id to itself runs in its database, as the user of its token, for whom the permission was checked (`RunsAsItself`); it is counted once, whichever way it is answered (`CountedOnce`); the buckets are exactly the window, in whatever order clock readings arrive (`WindowIsExact`); the file of the permission store, if it can be read, is what the last acknowledged operation left (`FileIsAcknowledged`), and what is only in memory was named by an operation that failed (`UnsavedIsNamed`); users are only in groups that exist (`MembershipsAreReal`); every request is answered (`EveryRequestAnswered`) | 437,442 |
| `statements` | `Statements.cfg` | All histories of up to three rows under some 110 statements: conditions parse as they were written (`ParsesAsWritten`); SELECT returns the rows that satisfy them, with and without an index (`SelectAnswers`); UPDATE, DELETE and INSERT change exactly the rows they should, or those of a first part of the table (`StatementEffect`); stored rows obey the schema (`ConstraintsHold`) | 934,891 |
| `table` | `VersionedTable.cfg` | Two indexes, colliding keys, statements that fail midway, reverts over reverts: an entry of the first index never leads to a wrong row (`FirstIndexSound`); heap and indexes agree, also between two records of a revert, as long as no statement failed midway and no revert went back beyond an earlier one (`IndexesMatchHeap`); a revert over logged changes succeeds and restores exactly the table of its timestamp, even where an earlier failed statement left the indexes wrong (`RevertRestores`) | 2,989,812 |
| `rowstore` | `RowStore.cfg` | No page overflows, and the counters in memory and on the metadata page describe the pages (`PagesSound`); `RowStore` implements `HeapRows` (`ImplementsHeapRows`) | 4,551 |
| `tree` | `BStarTree.cfg` | All histories over six keys, and trees of up to four levels: nodes within their limits and all leaves at one depth (`WellFormed`), range searches with and without bounds agree with point searches (`RangesMatchLookups`), `BStarTree` implements `KeySet`, where an operation changes only the key it names (`ImplementsKeySet`) | 8,114 |
| `node` | `StorageNode.cfg` | Databases and tables created, dropped and created again, with restarts: cached table and log handles are current (`HandlesAreCurrent`), a write to one table never changes a scan of another (`ScansIndependent`), and index lookups agree with scans for tables whose index name nobody used before (`LookupAgreesWithScan`) | 132,586 |
| `queue` | `TaskQueue.cfg` | Three tasks, two workers, a shutdown or crash at any point, in a process without faults, one whose log may fail to open at any append or at start-up, and one that may die in the middle of compacting the log: an unfinished task is queued once or with one worker (`EachTaskHasOnePlace`); log and map in step (`WalMatchesMap`), no accepted task lost (`AcceptedNotLost`), a recorded end never changes (`TerminalIsFinal`), every accepted task finishes, also across a crash (`EveryTaskFinishes`), the last four each in the environments that its definition names | 654,187 |
| `locks` | `LockManager.cfg` | Three transactions on two rows: an exclusive holder is alone (`ExclusiveIsAlone`), the two maps describe the same locks (`OwnershipMatchesTable`), no empty entry is left behind (`NoEmptyEntries`), a finished transaction holds nothing (`FinishedHoldsNothing`); `LockManager` implements `RowLocks` (`ImplementsRowLocks`) | 337,219 |
| `logger` | `Logger.cfg` | Lines are written in order, each once, and only lines pushed out of a full queue are missing (`InOrderAndComplete`); rotation loses the oldest lines only (`RotationKeepsNewest`); `Shutdown` drains (`ShutdownDrains`); a queued line leaves the queue (`QueuedLinesLeave`) | 1,001,216 |
| `entrypoint` | `Entrypoint.cfg` | Ring and node table agree (`RingMatchesNodes`), a statement finds a usable node whenever there is one (`RoutesWheneverPossible`), keys move as little as possible (`MinimalRemap`), the health of a node that stays up or down becomes known unless some node hangs for ever (`HealthConverges`) | 546,912 |

## Findings and limits

*violation* runs, each a disagreement between the code and a sentence or test
of the repository (quoted in `PROJECT.json` under `findings`):

| Run | Configuration | What the counterexample shows |
|---|---|---|
| `queue_stop` | `TaskQueueStopHangs.cfg` | `Stop` notifies while a worker is between its predicate and its sleep, and joins for ever (`StopReturns`) |
| `node_shared_index` | `StorageNodeSharedIndex.cfg` | tables of one name in two databases share an index tree (`OneFilePerIndex`; README:58) |

### Behaviours the models contain and no property forbids

The translation met more places where the code does less than one might expect.
The actions contain them; the properties above are stated so that they hold
nevertheless, and say in which case less is promised.

- Statements. The planner uses an index when some equality of the condition is
  on an indexed column, and the index scan then looks up the value of the first
  equality, whatever column that is on. `WHERE age = 2 AND id = 1` looks for the
  id 2: the answer can miss rows, never have wrong ones (the second case of
  `SelectAnswers`).
- Statements. An INSERT or UPDATE refused for a duplicate key has written the
  row to the heap by then; from then on (`torn`) two rows may have one key. The test
  `RejectsConstraintViolationsBeforeWrite` (`tests/execution/executor_crud_tests.cpp`)
  covers NULLs and column counts, which are checked first. A statement over
  several rows that fails keeps what it did to the rows before.
- Tables. A REVERT to before an earlier REVERT meets records that are undone
  already, since undoing is not logged: it can stop with an error, or leave a row in no
  index, where README:344 speaks of the table's "state at the given timestamp".
  The history variables `failed` and `beyond` count the two kinds of trace.
- Permissions. An operation whose save fails reports the error and stays in
  force in memory until the process ends, and the next save that succeeds writes
  it to the file. A request without a token has the user the client id last had.
- Sessions. Two requests with one client id share database and user, and either
  may change them between any two steps of the other; `RunsAsItself` is about
  the rest.
- Task queue. `Evict` looks at one arbitrary entry of the map after a task has
  finished, and drops it only when it has ended too; nothing is dropped when the
  entry is queued or is the task itself, nor after a cancellation. So more than
  `kMaxCompletedResults` results can stay (README:478). A task taken between
  `StopDatabase` and `StopClearsRunning` ends as failed and is not replayed. A
  failed append is ignored, so the log may lag behind the map. The compacted log
  is renamed before it is flushed; a crash in between loses accepted tasks.
- Storage node. A database dropped and created again answers index lookups from
  the removed index file, because the index manager keeps its trees. After a
  restart, index scans fail until the table is first written.
- Logger. `Shutdown` clears its flag and notifies without the mutex and can miss
  the writer just as `Stop` of the queue does; it then waits until some other
  push or a spurious wakeup. `Flush` pushes beyond the queue's bound
  (README:482). One rotated file fewer than `log_max_files` is kept (README:430).
- Entrypoint. A statement without a database is hashed by its text, so the
  statements of one session may go to several nodes (README:259). One hung node
  stops all health checks (README:474). A `Start` that fails after creating its
  threads leaves them joinable to the destructor.

## Bounds, and why they are enough

Every bound is a constant with a comment "bound", and appears in guards only.

- Locks: conflicts and upgrades involve the requester and one other holder; a
  third transaction gives a second sharer during an upgrade, and a second row
  a transaction whose index entry outlives the release of one row.
- Task queue: two workers for races between takers, a limit of one so that the
  queue is full, a third task so that eviction and replay meet one that is
  queued, one that runs and one that has ended. One restart replays what each
  kind of end of a process leaves; what a second replay finds is again such a
  log.
- Service: two threads with two client ids are in a race on one context or not.
  Two requests suffice for a permission that changes between two steps of
  another request, and for two clock readings out of order, with a window of one
  second so that a bucket drops out. A restart reads what a save left, and a
  store that exists from the beginning stands for longer histories of changes.
- Statements: three rows for a first part of a table and a rest; one indexed
  column, one that may be NULL and one with a default; conditions of up to three
  comparisons, since a fourth adds no new pair of adjacent operators.
- Tables: two indexes so that the first can succeed and the second fail; two
  keys and a null; three log records let an insert, an update and a delete of
  one row, or two rows exchanging a key, be undone; three timestamps separate
  before, at and after. One statement that fails midway (`MaxFailed`) and one
  revert beyond an earlier one (`MaxBeyond`) leave each kind of trace, alone and
  together. The proofs remove all of these bounds.
- Row store: a page takes three units and rows one, two or three, so that every
  way to fill a page exactly or one short occurs, and one tuple fits no page.
- B*-tree: `min_degree` 2 and 3; only with 3 is a leaf underfull and not empty.
  Six keys (`FewKeys`) are inserted and deleted in every order. Internal splits,
  sharing and merging above the leaves need more: 22 keys in four insertion and
  deletion orders, with any one operation in between (`MaxFree`) at any point.
- Storage node: two databases with a table of one name; two inodes per name are
  all that can be in use.
- Logger: a queue of two and four lines make the queue overflow; three files of
  one line make rotation remove one.
- Entrypoint: three nodes with interleaved virtual nodes on eight positions, one
  of them added later. Each may be up or down, and node 1 may hang; a second
  hung node blocks the same step of the same thread.

Symmetry is used over the keys of a table, which no action and no property
singles out, in a run without liveness. `CHECK_DEADLOCK FALSE` is set where
the system may really stop: the bounded log and clock of a table, a finished
script of a tree, a destroyed entrypoint, a service with all its requests
answered, a task queue out of restarts or without workers after a failed start.

## Fairness

- `TaskQueue`: threads run, the executor returns, a stopped process is started
  again. Strong fairness for workers because the mutex they want is taken and
  freed by others again and again, each holding it briefly. None for spurious
  wakeups, and none for clients. `EveryTaskFinishes` is claimed of behaviours in
  which the process is up again and again: a process that hangs in `Stop` (run
  `queue_stop`) finishes nothing.
- `Logger`: weak fairness for the writer and the thread in `Shutdown`; none for
  spurious wakeups.
- `StorageService`: weak fairness for each connection thread. No lock is held
  from one step of a thread to the next, except `mu_` of the permission store,
  whose holder can always go on; a thread that waits for it is not starved,
  since requests are finite in number. None for the clients and for a restart.
- `Entrypoint`: weak fairness for the health-check thread and the join. A hung
  node disables the thread's step, as it blocks the call in the code.

## What is proved

TLAPS proves the following for every value of the constants; what is assumed of
them is the `ASSUME` in the component's module and, where a theorem says so, a
hypothesis of its own. The same definitions are checked by the runs.

**VersionedTableProofs**: `FirstIndexAlwaysSound`, `RevertAlwaysRestores` and
`IndexesAlwaysMatch`, for any number of indexes, keys, rows, records and
failures. One lemma for each loop over the indexes says what its result is, when
it succeeds and when it stops; with them, `Base` (types, and soundness of the
first index) is inductive by itself. For reverts it is not enough. The
observation that carries the proof is that whether an inverse operation
succeeds, and what table it leaves, depends only on the table and on the *sets
of keys* in the indexes, not on the rows the keys lead to. `Inv` therefore says
that there is a chain of such snapshots, one per logged change since `since`,
each the result of undoing the next, whose members at the ends of milliseconds
are the tables of `past`; a revert in progress stands at one of them.
A statement that succeeds adds a link, one that fails midway starts a new chain
(`since' = now`), and so does the undoing itself. That is why `RevertRestores`
needs no proviso about failed statements. `InStep` (every index has exactly the rows)
is then preserved by each operation that succeeds, and `Inv` says that all the
operations of a revert do.

**LoggerProofs**: `LinesInOrder` and `ShutdownAlwaysDrains`, for any number of
threads and lines and any queue. A line is in one of four places (written, in the
batch, in the queue, dropped); lemmas say what appending, swapping, taking the
front and dropping it do to the order and to the places. `Control` relates the
places of the threads to the flags: once the writer has ended, the batch is empty
and what is queued came after `Shutdown` was called. `RotationAlwaysKeepsNewest`
holds for any size and number of files, one file included. Its invariant `Rotation`
says for each sink that the files are ordered inside and among themselves, that
rotated files are full, and that what is missing is older than all that is there;
that the next line is newer than everything on disk, which both cases of
`WriteToFile` need, comes from the order proved before.

**StorageNodeProofs**: `HandlesStayCurrent`, `LookupsAgree` and
`ScansStayIndependent`, for any databases, tables, keys and number of rows.
The inductive invariant has two parts. `Files` adds to `HandlesAreCurrent` that a
name stands for a file of its own kind and table (`Named`), that an open index is
a file of some table with that index name (`Indexed`), and that a file which
nothing holds open and no name stands for is empty (`Freed`), so that a re-created table starts
without the rows of the old one. `Lookups` says of every table that never shared
its index name or files that no other table has that index name, that the open index is the file
under the name, and that it says the same as the rows. One lemma per call of the
engine says what it does to names, files and handles; `ScansIndependent` follows
step by step from `Files`: a call writes only to files of the table it is about.

**RowStoreProofs**: `PagesStaySound` and `RowStoreImplementsHeapRows`, for any
tuples, sizes, page capacity and number of rows. `UsedBytes`, `Pack` and
`FlattenSeq` go through a list element by element; the first part of the module
shows that each is the end of the *run* of a step function, that such a run
exists and is unique, and from this what one more element does. Facts about all
lists then follow from `EveryList`: a set that has the empty list and is closed
under `Append` has every list. With these, packing puts every row on some page,
in order, and overflows none (`PackSound`), and blank pages at the end change
nothing (`PadFacts`). The inductive invariant `RInv` is that a file, open or not,
is described by its own metadata page, and that an open store has that page's counters in
memory: `PagesSound` alone says nothing of a closed file, and opening would not
preserve it. For the refinement, insertion, update, deletion and restoring are
all one change of the set of rows, replacing whatever has the id (`Puts`), which
is one change of the map.

**StatementProofs**: `RowsObeySchema`,
`StatementsDoWhatTheySay` and `SelectIsSound`, for any schema, any statements,
any number of rows and any language of conditions. Three assumptions say what
the code around the executors guarantees. `SchemaAssumption`: indexed columns
are NOT NULL and defaults have their column's type, which CREATE TABLE
checks. `StatementsAssumption`: the form of what the parser returns.
`ConditionsAssumption`: a chosen index exists and, when the key is one that the
condition compares the indexed column with, only rows with this key can satisfy
it. TLC evaluates the three for the operators of `Conditions` and all the
statements and tuples of the run; that the third holds for all trees of
conditions is an induction over trees, which the provers cannot do.

The inductive invariant `StatementInv` has two parts. `Consistent` is about the
engine: row ids are given out in turn, every stored row passed `ValidateTuple`
and, unless a call failed halfway (`torn`), every index leads from every row's
key to that row. Its preservation is shown for one call at a time
(`InsertIsResult`, `UpdateIsResult`, `DeleteIsResult`), and for a call that
fails too. `InLoop` is about the executor: the rows it loops over are rows of
the table as it was before the statement, in ascending order, all of them or
those the index has (`LoopRows`); the table now is that table with the change
made to the satisfying ones among the first `next - 1` of them and to no others
(`HasActedOn`); and the answer has exactly these (`HasCollected`). That the ids
ascend is essential: it is why no row is met twice, so that the change made to a
row on the way cannot be made again, and why the count of affected rows is the
number of rows. A loop that ends has seen all, one that stops early a first
part, which is `StatementEffect`; `SelectAnswers` follows because listing a set in order
and appending one larger member is listing the larger set (`InOrderLast`).

**StorageServiceProofs**: `RequestsRunAsThemselves`, from `SInv`, which says
where each request stands what its context must be (`OnTheWay`), and that a
request which is `alone` shares its context with none in flight
(`AloneIsAlone`): a step of one thread then cannot touch the context of another
thread that is alone. `ImplementsRbac` and `ImplementsMetrics` show that every
step of the service is a step of the component or leaves its variables alone,
and `StoreInService` carries the result about the store over.

**GuardedObjectProofs**, about the lock manager: `LockTypesCorrect`, `ExclusiveAlwaysAlone`,
`OwnershipAlwaysMatches`, `NeverEmptyEntries`, `FinishedAlwaysHoldsNothing`, and
`Refinement`: `LockSpec => RL!Spec`. The inductive invariant `LockInv` is the
conjunction of the properties and of `AcquiringIsActive`: a thread about to
acquire a lock belongs to an active transaction. Without it, a lock could be acquired after the
transaction ended. This is where "one thread per transaction" is used.

About `Rbac`: `FileAcknowledged`, `Memberships`, `UnsavedNamed`. The inductive
invariant adds to them that the temporary file, once written, holds the maps or
is damaged (`TmpIsImage`). A short write that nothing reports, as on a full disk,
can leave a file that does not parse, and the theorem says nothing of that file;
any file that can be read is exactly the acknowledged one.

About `Metrics`: `WindowExact`, from `MInv`, for any window and any sequence of
readings. Dropping from the front up to the first bucket that is new enough is a
choice of a least element, which the induction principle of the natural numbers
provides; since buckets are in order of time, exactly the old ones go.

`RequestsCountedOnce`, of the service, relates the two: `Balance` says that the requests accepted are
those in the totals and those of threads that have not recorded theirs yet, and
likewise for errors and for buckets. It is inductive with `CInv`, by which only
finitely many threads are busy and finitely many seconds were counted in, however
many threads and seconds there are; the sum over the seconds is taken apart in the
same way as the lists of the row store, one second at a time.

**ConcurrencyProofs**, about the task queue: `TypeCorrect` and `OnePlace` in all environments;
`EndsAreFinal` and `AcceptedNeverLost` with I/O errors and crashes anywhere but
in the compaction (such a crash loses tasks, as said above); `LogMatches` when
moreover the log can be
written. The inductive invariant `IInv` adds to `EachTaskHasOnePlace` that a
worker has a task exactly while it executes (`TaskWhileBusy`), that nothing but
the log survives in a process that is down (`DownIsEmpty`), and that the log
knows every task of the map and agrees on ends (`LogKnowsEnds`), which holds
even when appends fail. Lemmas about sequences without repetition cover
`push_back`, `pop_front`, erasing from the middle and the replay in any order.

About the entrypoint: `RingAlwaysMatches`, `KeysMoveMinimally`,
`StatementsAreRouted` and `EntrypointTypeCorrect`, for any
nodes, any number of virtual nodes and any hash function that does not put
virtual nodes of two nodes on one position (`SlotsDisjoint`; with a collision
`RingRemove` would take the other node's position away, as `RemoveNode` does);
the last two also need every node to have a virtual node and keys to hash to
positions.
`RingInv` says that the ring's domain is exactly the union of the registered
nodes' positions; it is stronger than `RingMatchesNodes` in that no other
position is in the ring. `KeysMoveMinimally` rests on `LowerBoundStable`: if the
position that answers a lookup in the larger ring is in the smaller one, it
answers there as well. The existence of least elements comes from the
well-foundedness of the natural numbers.

The inductive invariants of the executors, the logger, the service, the row
store and the storage node were also checked by TLC, on the instances of their runs.

Only model-checked: all liveness properties (TLAPS does not prove fairness
arguments); everything about `BStarTree`, whose searches, splits and merges are
recursive operators; and what the operators of `Conditions` compute, which is
recursion over trees and tokens: `ParsesAsWritten`, and `ConditionsAssumption`
for its instance.

## What the checks assume

- The storage layers serve one statement at a time. In the code the engine, the
  catalog, the index manager and the row store take no lock while connections
  and task workers run in threads of their own; statements that really overlap
  are data races and outside every model here (see the hazards in
  `PROJECT.json`).
- The storage engine does not crash between two page writes: README:526 states
  that it has no recovery log. Crashes are modelled for the task queue, which
  has one, and orderly restarts for the storage node.
- The wall clock does not go back (README, known limitations of REVERT).
- Hash collisions between virtual nodes of different nodes do not occur.

## What is not modelled, and why

The lexer, and the fixed forms of statements around their conditions, are
straight lines of expected characters and tokens, and a specification of them
would be a second parser; the part of the parser with a structure to get wrong,
conditions, is in `Conditions`. Serialization, key encoding and
configuration are pure conversions; the models abstract rows and keys to what
the properties tell apart. Tokens and password hashes are computed by a library:
a token is its user or not valid, a password right or wrong. Sockets and the
command line client are pure I/O; what the other parts see of the network (a
thread per request, a send without a timeout) is in the models of those parts.
Averages and percentiles of the metrics are floating-point arithmetic on a copy,
and the merging of finished snapshots at the entrypoint has no state.
The page manager's checks of magic numbers and lengths belong to the byte format.
