----------------------------- MODULE StorageNode -----------------------------
(***************************************************************************)
(* The life of databases and tables on a storage node: the catalog and the *)
(* data files on disk, and what StorageNodeEngine and IndexManager keep    *)
(* open of them.  A file is an inode: it outlives the removal of its name  *)
(* for as long as somebody holds it open.                                  *)
(*                                                                         *)
(* Every table has one column, which its descriptor may declare INDEXED.   *)
(* A heap file is the sequence of the keys ever inserted, an index file a  *)
(* map from keys to row ids; a version log's records are not looked at.    *)
(* The engine is called by one thread at a time.                           *)
(***************************************************************************)
EXTENDS Naturals, Sequences, Functions

CONSTANTS Layout,        \* the <<database, table>> pairs that statements name
          Keys, Dead,    \* Dead: the tombstone of a deleted row
          MaxRows        \* bound: rows ever inserted into a heap file

ASSUME StorageNodeAssumption == MaxRows \in Nat /\ Dead \notin Keys

VARIABLES started,
          dirs,                 \* database directories
          meta,                 \* .meta files: pair -> is the column INDEXED
          path,                 \* file names: <<kind, pair>> -> inode
          file,                 \* inode -> contents
          opened_tables,        \* pair -> descriptor and heap file
          opened_version_logs,  \* pair -> log file
          opened_indexes,       \* index name -> index file
          reused                \* history: the tables whose index name or files have been
                                \* another table's or an earlier one's

disk == <<dirs, meta, path, file>>
cache == <<opened_tables, opened_version_logs, opened_indexes>>
vars == <<started, disk, cache, reused>>

Dbs == {p[1] : p \in Layout}
Kinds == {"tbl", "idx", "vlog"}
\* a name and a held-open removed file of that name are at most two inodes
Inodes == Kinds \X Layout \X {1, 2}
Empty == <<>>

Put(f, x, v) == [y \in DOMAIN f \cup {x} |-> IF y = x THEN v ELSE f[y]]
Without(f, S) == [y \in DOMAIN f \ S |-> f[y]]
PairsOf(d) == {p \in Layout : p[1] = d}

IndexName(p) == p[2]
ManagerKnows(p) == IndexName(p) \in DOMAIN opened_indexes

-----------------------------------------------------------------------------
(* Files.                                                                  *)

InUse == Range(path) \cup {h.file : h \in Range(opened_tables)}
         \cup Range(opened_version_logs) \cup Range(opened_indexes)

\* the kernel frees what is neither named nor open
Reclaim == file' = [i \in Inodes |-> IF i \in InUse' THEN file[i] ELSE Empty]

\* mutant: file names carry no database
FilePathByName(kind, p) == <<kind, CHOOSE q \in Layout : q[2] = p[2]>>

FilePath(kind, p) == <<kind, p>>

\* open the file of that name, creating it when there is none
FileAt(kind, p) ==
    IF FilePath(kind, p) \in DOMAIN path THEN path[FilePath(kind, p)]
    ELSE CHOOSE i \in Inodes : i[1] = kind /\ i[2] = p /\ i \notin InUse

Link(S, p) == [n \in DOMAIN path \cup {FilePath(kind, p) : kind \in S} |->
                  IF n \in DOMAIN path THEN path[n] ELSE FileAt(n[1], p)]

-----------------------------------------------------------------------------
(* OpenTable, OpenVersionLog, RegisterIndex: a cached handle is used as it *)
(* is, whatever has become of the name it was opened under.                *)

Handle(p) == IF p \in DOMAIN opened_tables THEN opened_tables[p]
             ELSE [indexed |-> meta[p], file |-> FileAt("tbl", p)]

VersionLogOf(p) == IF p \in DOMAIN opened_version_logs THEN opened_version_logs[p]
                   ELSE FileAt("vlog", p)

\* mutant: the index is created anew when it is not open
IndexCreatedAnew(p) ==
    IF ManagerKnows(p) THEN opened_indexes[IndexName(p)]
    ELSE CHOOSE i \in Inodes : i[1] = "idx" /\ i[2] = p /\ i \notin InUse

IndexOf(p) == IF ManagerKnows(p) THEN opened_indexes[IndexName(p)] ELSE FileAt("idx", p)

TableFound(p) == p \in DOMAIN opened_tables \/ (p[1] \in dirs /\ p \in DOMAIN meta)
IndexFound(p) == ManagerKnows(p) \/ FilePath("idx", p) \in DOMAIN path
CanOpen(p) == started /\ TableFound(p) /\ (Handle(p).indexed => IndexFound(p))

\* the effect of OpenTable and, when withLog, OpenVersionLog on names and caches
OpenFiles(p, withLog) ==
    /\ opened_tables' = Put(opened_tables, p, Handle(p))
    /\ opened_version_logs' = IF withLog THEN Put(opened_version_logs, p, VersionLogOf(p))
                              ELSE opened_version_logs
    /\ path' = Link((IF p \in DOMAIN opened_tables THEN {} ELSE {"tbl"})
                    \cup (IF withLog /\ p \notin DOMAIN opened_version_logs THEN {"vlog"} ELSE {}), p)

OpenTableIndexes(p) ==
    opened_indexes' = IF Handle(p).indexed THEN Put(opened_indexes, IndexName(p), IndexOf(p))
                      ELSE opened_indexes

Rows(p) == IF p \in DOMAIN meta THEN file[Handle(p).file] ELSE Empty
LiveRows(p) == {r \in DOMAIN Rows(p) : Rows(p)[r] # Dead}
Tree(p) == file[IndexOf(p)]

\* the call returns an error before it has changed anything
Fail == UNCHANGED vars

-----------------------------------------------------------------------------
(* Databases and tables.                                                   *)

CreateDatabase(d) ==
    \/ (~started \/ d \in dirs) /\ Fail
    \/ /\ started /\ d \notin dirs
       /\ dirs' = dirs \cup {d}
       /\ UNCHANGED <<started, meta, path, file, cache, reused>>

\* mutant: the version logs stay cached
ForgetTablesOnly(d) == /\ opened_tables' = Without(opened_tables, PairsOf(d))
                       /\ UNCHANGED opened_version_logs

ForgetDatabase(d) == /\ opened_tables' = Without(opened_tables, PairsOf(d))
                     /\ opened_version_logs' = Without(opened_version_logs, PairsOf(d))

DropDatabase(d) ==
    \/ (~started \/ d \notin dirs) /\ Fail
    \/ /\ started /\ d \in dirs
       /\ ForgetDatabase(d)
       /\ dirs' = dirs \ {d}
       /\ meta' = Without(meta, PairsOf(d))
       /\ path' = Without(path, Kinds \X PairsOf(d))
       /\ UNCHANGED <<started, opened_indexes, reused>>
       /\ Reclaim

\* neither an open tree, nor a table, nor files are left of the name
NameIsFresh(p) ==
    /\ ~ManagerKnows(p)
    /\ \A q \in DOMAIN meta : IndexName(q) # IndexName(p)
    /\ \A kind \in Kinds : FilePath(kind, p) \notin DOMAIN path

CreateTable(p, indexed) ==
    \/ (~started \/ p[1] \notin dirs \/ p \in DOMAIN meta) /\ Fail
    \/ /\ started /\ p[1] \in dirs /\ p \notin DOMAIN meta
       /\ meta' = Put(meta, p, indexed)
       /\ IF indexed /\ ~ManagerKnows(p)
          THEN /\ opened_indexes' = Put(opened_indexes, IndexName(p), IndexOf(p))
               /\ path' = Link({"idx"}, p)
          ELSE UNCHANGED <<opened_indexes, path>>
       /\ reused' = IF NameIsFresh(p) THEN reused \ {p}
                    ELSE reused \cup {q \in Layout : IndexName(q) = IndexName(p)}
       /\ UNCHANGED <<started, dirs, file, opened_tables, opened_version_logs>>

ForgetTable(p) == /\ opened_tables' = Without(opened_tables, {p})
                  /\ opened_version_logs' = Without(opened_version_logs, {p})

\* only the .meta file goes; heap, index and log files stay
DropTable(p) ==
    \/ ~started /\ Fail
    \/ /\ started
       /\ ForgetTable(p)
       /\ meta' = Without(meta, {p})
       /\ UNCHANGED <<started, dirs, path, file, opened_indexes, reused>>

-----------------------------------------------------------------------------
(* Statements.  Keys inserted are keys no live row has: what a duplicate   *)
(* does to heap and index is VersionedTable's subject.                     *)

InsertKey(p, k) ==
    \/ ~CanOpen(p) /\ Fail
    \/ LET heap == Handle(p).file
           rid == Len(file[heap]) + 1
           rejected == Handle(p).indexed /\ k \in DOMAIN Tree(p)
           stored == [file EXCEPT ![heap] = Append(@, k)]
       IN /\ CanOpen(p) /\ rid <= MaxRows /\ \A r \in LiveRows(p) : Rows(p)[r] # k
          /\ OpenFiles(p, ~rejected) /\ OpenTableIndexes(p)
          /\ file' = IF Handle(p).indexed /\ ~rejected
                     THEN [stored EXCEPT ![IndexOf(p)] = Put(@, k, rid)] ELSE stored
          /\ UNCHANGED <<started, dirs, meta, reused>>

DeleteRow(p, rid) ==
    \/ ~CanOpen(p) /\ Fail
    \/ LET heap == Handle(p).file
           k == Rows(p)[rid]
           rejected == Handle(p).indexed /\ k \notin DOMAIN Tree(p)
           unindexed == IF Handle(p).indexed THEN [file EXCEPT ![IndexOf(p)] = Without(@, {k})]
                        ELSE file
       IN /\ CanOpen(p) /\ rid \in LiveRows(p)
          /\ OpenFiles(p, ~rejected) /\ OpenTableIndexes(p)
          /\ file' = IF rejected THEN file ELSE [unindexed EXCEPT ![heap][rid] = Dead]
          /\ UNCHANGED <<started, dirs, meta, reused>>

\* SELECT by sequential scan
ScanTable(p) ==
    \/ ~(started /\ TableFound(p)) /\ Fail
    \/ /\ started /\ TableFound(p)
       /\ OpenFiles(p, FALSE)
       /\ UNCHANGED <<started, dirs, meta, file, opened_indexes, reused>>

\* SELECT by index: Find does not open the index
IndexScan(p, k) ==
    /\ started /\ p \in DOMAIN meta /\ meta[p]
    /\ \/ ~ManagerKnows(p) /\ Fail
       \/ /\ ManagerKnows(p)
          /\ IF k \in DOMAIN Tree(p) THEN OpenFiles(p, FALSE)
             ELSE UNCHANGED <<path, opened_tables, opened_version_logs>>
          /\ UNCHANGED <<started, dirs, meta, file, opened_indexes, reused>>

\* what the two ways to answer SELECT ... WHERE column == k return
FoundByScan(p, k) == {r \in LiveRows(p) : Rows(p)[r] = k}
FoundByIndex(p, k) == {r \in FoundByScan(p, k) : k \in DOMAIN Tree(p) /\ r = Tree(p)[k]}

-----------------------------------------------------------------------------
(* The process.                                                            *)

Start == /\ ~started
         /\ started' = TRUE /\ UNCHANGED <<disk, cache, reused>>

Stop == /\ started
        /\ started' = FALSE
        /\ opened_tables' = Empty /\ opened_version_logs' = Empty
        /\ UNCHANGED <<dirs, meta, path, opened_indexes, reused>>
        /\ Reclaim

\* Stop, exit, and a new process's Start
Restart == /\ started
           /\ opened_tables' = Empty /\ opened_version_logs' = Empty /\ opened_indexes' = Empty
           /\ UNCHANGED <<started, dirs, meta, path, reused>>
           /\ Reclaim

Init == /\ started = TRUE /\ dirs = {} /\ meta = Empty /\ path = Empty
        /\ file = [i \in Inodes |-> Empty]
        /\ opened_tables = Empty /\ opened_version_logs = Empty /\ opened_indexes = Empty
        /\ reused = {}

Next == \/ \E d \in Dbs : CreateDatabase(d) \/ DropDatabase(d)
        \/ \E p \in Layout :
              \/ \E indexed \in BOOLEAN : CreateTable(p, indexed)
              \/ DropTable(p) \/ ScanTable(p)
              \/ \E k \in Keys : InsertKey(p, k) \/ IndexScan(p, k)
              \/ \E r \in 1..MaxRows : DeleteRow(p, r)
        \/ Start \/ Stop \/ Restart

Spec == Init /\ [][Next]_vars

-----------------------------------------------------------------------------
(* Properties.                                                             *)

TypeOK ==
    /\ started \in BOOLEAN
    /\ dirs \subseteq Dbs /\ reused \subseteq Layout
    /\ DOMAIN meta \subseteq Layout /\ Range(meta) \subseteq BOOLEAN
    /\ DOMAIN path \subseteq Kinds \X Layout /\ Range(path) \subseteq Inodes
    /\ DOMAIN file = Inodes
    /\ \A i \in Inodes : i[1] = "tbl" => DOMAIN file[i] \subseteq 1..MaxRows /\ Range(file[i]) \subseteq Keys \cup {Dead}
    /\ \A i \in Inodes : i[1] = "idx" => DOMAIN file[i] \subseteq Keys /\ Range(file[i]) \subseteq 1..MaxRows
    /\ DOMAIN opened_tables \subseteq Layout /\ DOMAIN opened_version_logs \subseteq Layout
    /\ Range(opened_indexes) \subseteq Inodes

\* A cached table or log handle is a handle on the file its name stands for
\* now, with the descriptor the catalog has now, through drops, re-creations
\* and restarts: the engine erases its caches whenever a name goes away.
HandlesAreCurrent ==
    /\ TypeOK
    /\ \A p \in DOMAIN opened_tables :
          /\ p \in DOMAIN meta /\ opened_tables[p].indexed = meta[p]
          /\ FilePath("tbl", p) \in DOMAIN path /\ opened_tables[p].file = path[FilePath("tbl", p)]
    /\ \A p \in DOMAIN opened_version_logs :
          /\ p \in DOMAIN meta
          /\ FilePath("vlog", p) \in DOMAIN path /\ opened_version_logs[p] = path[FilePath("vlog", p)]

\* No call on one table changes the rows of another: what a scan of p would
\* return and what a scan of q would return never change in one step, unless
\* their database is dropped under both.
ScansIndependent ==
    [][\A p, q \in Layout : p # q /\ Rows(p)' # Rows(p) /\ Rows(q)' # Rows(q)
                                => p[1] = q[1] /\ p[1] \notin dirs']_vars

\* The choice between the two access paths is invisible: a lookup through an open
\* index finds exactly the rows a scan finds, through drops of other names and
\* restarts, for every table whose index name and files have been its own only.
LookupAgreesWithScan ==
    \A p \in DOMAIN meta \ reused : meta[p] /\ ManagerKnows(p) =>
        \A k \in Keys : FoundByIndex(p, k) = FoundByScan(p, k)

\* Every index has a file of its own: an index the manager has open for a
\* table is the file under that table's name.
OneFilePerIndex ==
    \A p \in DOMAIN meta : meta[p] /\ ManagerKnows(p) =>
        FilePath("idx", p) \in DOMAIN path /\ opened_indexes[IndexName(p)] = path[FilePath("idx", p)]
=============================================================================
