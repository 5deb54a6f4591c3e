------------------------- MODULE StorageNodeProofs -------------------------
(***************************************************************************)
(* Proofs about the life of databases and tables, for any databases,       *)
(* tables and keys and any number of rows.                                 *)
(*                                                                         *)
(* The argument is about files.  An inode in use is one that a name stands *)
(* for or an open index holds; a name's inode is of that name's kind and   *)
(* table, so no file is ever another table's, and a file nobody uses is    *)
(* empty when its inode is used again.                                     *)
(***************************************************************************)
EXTENDS StorageNode, TLAPS

-----------------------------------------------------------------------------
(* The inductive invariant.                                                *)

\* the rows of a heap file; a name's file is of its kind and table
HeapFiles == \A i \in Inodes : i[1] = "tbl" => file[i] \in Seq(Keys \cup {Dead}) /\ Len(file[i]) <= MaxRows

Of(i, kind, p) == i \in Inodes /\ i[1] = kind /\ i[2] = p

Named == \A n \in DOMAIN path : Of(path[n], n[1], n[2])

\* an open index is a file of some table of that index name
Indexed == \A x \in DOMAIN opened_indexes :
              \E p \in Layout : IndexName(p) = x /\ Of(opened_indexes[x], "idx", p)

Freed == \A i \in Inodes : i \in InUse \/ file[i] = Empty

Files == HandlesAreCurrent /\ HeapFiles /\ Named /\ Indexed /\ Freed

\* what the file of that name holds
Content(kind, p) == IF FilePath(kind, p) \in DOMAIN path THEN file[path[FilePath(kind, p)]] ELSE Empty

\* the rows h and the index t say the same
InStep(h, t) ==
    /\ \A r \in DOMAIN h : h[r] # Dead => h[r] \in DOMAIN t /\ t[h[r]] = r
    /\ \A k \in DOMAIN t : t[k] \in DOMAIN h /\ h[t[k]] = k

\* A table whose name and files are its own shares its index name with no table.
\* If it is indexed its index has a file, which is the one that is open if any
\* is, and which agrees with its rows.
Own(p) ==
    /\ \A q \in DOMAIN meta : IndexName(q) = IndexName(p) => q = p
    /\ meta[p] => /\ FilePath("idx", p) \in DOMAIN path
                  /\ ManagerKnows(p) => opened_indexes[IndexName(p)] = path[FilePath("idx", p)]
                  /\ InStep(Content("tbl", p), Content("idx", p))

Lookups == \A p \in DOMAIN meta \ reused : Own(p)

Inv == Files /\ Lookups

-----------------------------------------------------------------------------
(* Inodes.                                                                 *)

\* A name has two inodes and no others.
LEMMA TwoInodes ==
    ASSUME NEW kind, NEW p
    PROVE  /\ \A i : Of(i, kind, p) => kind \in Kinds /\ p \in Layout /\ i \in {<<kind, p, 1>>, <<kind, p, 2>>}
           /\ kind \in Kinds /\ p \in Layout => Of(<<kind, p, 1>>, kind, p) /\ Of(<<kind, p, 2>>, kind, p)
  BY DEF Of, Inodes

\* While the cached handles are current, an inode is in use when a name stands
\* for it or an open index holds it.
LEMMA InUseIs == HandlesAreCurrent => InUse = Range(path) \cup Range(opened_indexes)
  <1> SUFFICES ASSUME HandlesAreCurrent PROVE InUse = Range(path) \cup Range(opened_indexes)
    OBVIOUS
  <1>1. {h.file : h \in Range(opened_tables)} \subseteq Range(path)
    BY DEF HandlesAreCurrent, Range
  <1>2. Range(opened_version_logs) \subseteq Range(path)
    BY DEF HandlesAreCurrent, Range
  <1> QED BY <1>1, <1>2 DEF InUse

\* Opening a file gives the one its name stands for, or a new empty one.
LEMMA FileAtFacts ==
    ASSUME Files, NEW kind \in Kinds, NEW p \in Layout
    PROVE  /\ Of(FileAt(kind, p), kind, p)
           /\ FilePath(kind, p) \in DOMAIN path => FileAt(kind, p) = path[FilePath(kind, p)]
           /\ FilePath(kind, p) \notin DOMAIN path => FileAt(kind, p) \notin InUse /\ file[FileAt(kind, p)] = Empty
  <1>1. CASE FilePath(kind, p) \in DOMAIN path
    <2>1. FileAt(kind, p) = path[FilePath(kind, p)]
      BY <1>1 DEF FileAt
    <2>2. Of(path[FilePath(kind, p)], kind, p)
      BY <1>1 DEF Files, Named, FilePath
    <2> QED BY <1>1, <2>1, <2>2
  <1>2. CASE FilePath(kind, p) \notin DOMAIN path
    <2> DEFINE Free(i) == i[1] = kind /\ i[2] = p /\ i \notin InUse
    <2>1. InUse = Range(path) \cup Range(opened_indexes)
      BY InUseIs DEF Files
    <2>2. ASSUME NEW i \in InUse, Of(i, kind, p) PROVE IndexName(p) \in DOMAIN opened_indexes /\ i = opened_indexes[IndexName(p)]
      <3>1. i \notin Range(path)
        <4>1. SUFFICES ASSUME NEW n \in DOMAIN path, path[n] = i PROVE FALSE
          BY DEF Range
        <4>2. n \in Kinds \X Layout /\ n[1] = kind /\ n[2] = p
          BY <2>2, <4>1 DEF Files, Named, HandlesAreCurrent, TypeOK, Of
        <4>3. n = FilePath(kind, p)
          BY <4>2 DEF FilePath
        <4> QED BY <1>2, <4>3
      <3>2. PICK x \in DOMAIN opened_indexes : i = opened_indexes[x]
        BY <2>1, <3>1 DEF Range
      <3>3. PICK q \in Layout : IndexName(q) = x /\ Of(i, "idx", q)
        BY <3>2 DEF Files, Indexed
      <3>4. q = p
        BY <2>2, <3>3 DEF Of
      <3> QED BY <3>2, <3>3, <3>4
    <2>3. <<kind, p, 1>> # <<kind, p, 2>>
      OBVIOUS
    <2>4. \E i \in Inodes : Free(i)
      <3>1. Of(<<kind, p, 1>>, kind, p) /\ Of(<<kind, p, 2>>, kind, p)
        BY TwoInodes
      <3>2. <<kind, p, 1>> \notin InUse \/ <<kind, p, 2>> \notin InUse
        BY <2>2, <2>3, <3>1
      <3> QED BY <3>1, <3>2 DEF Of
    <2>5. FileAt(kind, p) = CHOOSE i \in Inodes : Free(i)
      BY <1>2 DEF FileAt
    <2>6. FileAt(kind, p) \in Inodes /\ Free(FileAt(kind, p))
      BY <2>4, <2>5
    <2> QED BY <1>2, <2>6 DEF Of, Files, Freed
  <1> QED BY <1>1, <1>2

\* What a scan reads is what the heap file of the table's name holds.
LEMMA RowsAre == Files => \A p \in Layout : Rows(p) = IF p \in DOMAIN meta THEN Content("tbl", p) ELSE Empty
  <1> SUFFICES ASSUME Files, NEW p \in Layout, p \in DOMAIN meta
               PROVE  file[Handle(p).file] = Content("tbl", p)
    BY DEF Rows
  <1>1. CASE p \in DOMAIN opened_tables
    BY <1>1 DEF Files, HandlesAreCurrent, Handle, Content
  <1>2. CASE p \notin DOMAIN opened_tables
    <2>1. Handle(p).file = FileAt("tbl", p)
      BY <1>2 DEF Handle
    <2> QED BY <2>1, FileAtFacts DEF Content, Kinds
  <1> QED BY <1>1, <1>2

\* the same in the next state
LEMMA RowsAreNext == Files' => \A p \in Layout : Rows(p)' = IF p \in DOMAIN meta' THEN Content("tbl", p)' ELSE Empty
  <1>1. (Files => \A p \in Layout : Rows(p) = IF p \in DOMAIN meta THEN Content("tbl", p) ELSE Empty)'
    BY RowsAre, PTL
  <1> QED BY <1>1 DEF Empty

LEMMA InUseIsNext == HandlesAreCurrent' => InUse' = Range(path') \cup Range(opened_indexes')
  <1>1. (HandlesAreCurrent => InUse = Range(path) \cup Range(opened_indexes))'
    BY InUseIs, PTL
  <1> QED BY <1>1 DEF Range

-----------------------------------------------------------------------------
(* Steps that add names.                                                   *)

\* Old names keep their files, new names stand for new empty files.
Grown ==
    /\ DOMAIN path \subseteq DOMAIN path' /\ DOMAIN path' \subseteq Kinds \X Layout
    /\ \A n \in DOMAIN path : path'[n] = path[n]
    /\ \A n \in DOMAIN path' \ DOMAIN path : Of(path'[n], n[1], n[2]) /\ file[path'[n]] = Empty

\* What the cached handles have to be, table by table.
TablesCurrent ==
    /\ DOMAIN opened_tables \subseteq Layout
    /\ \A p \in DOMAIN opened_tables :
          /\ p \in DOMAIN meta /\ opened_tables[p].indexed = meta[p]
          /\ FilePath("tbl", p) \in DOMAIN path /\ opened_tables[p].file = path[FilePath("tbl", p)]

LogsCurrent ==
    /\ DOMAIN opened_version_logs \subseteq Layout
    /\ \A p \in DOMAIN opened_version_logs :
          /\ p \in DOMAIN meta
          /\ FilePath("vlog", p) \in DOMAIN path /\ opened_version_logs[p] = path[FilePath("vlog", p)]

\* Nothing new is named.
LEMMA GrownSame == ASSUME Files, UNCHANGED path PROVE Grown
  BY DEF Grown, Files, HandlesAreCurrent, TypeOK

\* Linking a file under its name adds names only.
LEMMA LinkGrown ==
    ASSUME Files, NEW p \in Layout, NEW S \in SUBSET Kinds, path' = Link(S, p)
    PROVE  /\ Grown
           /\ \A kind \in S : /\ FilePath(kind, p) \in DOMAIN path'
                              /\ path'[FilePath(kind, p)] = FileAt(kind, p)
  <1> DEFINE D == DOMAIN path \cup {FilePath(kind, p) : kind \in S}
  <1>1. /\ DOMAIN path' = D
        /\ \A n \in D : path'[n] = IF n \in DOMAIN path THEN path[n] ELSE FileAt(n[1], p)
    BY DEF Link
  <1>2. DOMAIN path \subseteq Kinds \X Layout
    BY DEF Files, HandlesAreCurrent, TypeOK
  <1>3. D \subseteq Kinds \X Layout
    BY <1>2 DEF FilePath
  <1>4. ASSUME NEW n \in D, n \notin DOMAIN path
        PROVE  Of(path'[n], n[1], n[2]) /\ file[path'[n]] = Empty
    <2>1. PICK kind \in S : n = FilePath(kind, p)
      BY <1>4
    <2>2. n[1] = kind /\ n[2] = p /\ path'[n] = FileAt(kind, p)
      BY <1>1, <1>4, <2>1 DEF FilePath
    <2> QED BY <1>4, <2>1, <2>2, FileAtFacts
  <1>5. ASSUME NEW kind \in S PROVE path'[FilePath(kind, p)] = FileAt(kind, p) /\ FilePath(kind, p) \in D
    <2>1. FilePath(kind, p) \in D /\ FilePath(kind, p)[1] = kind
      BY DEF FilePath
    <2> QED BY <1>1, <2>1, FileAtFacts
  <1> QED BY <1>1, <1>3, <1>4, <1>5 DEF Grown

\* The handle on a table is a handle on the table's own heap file and index.
LEMMA HandleFacts ==
    ASSUME Files, NEW p \in Layout, p \in DOMAIN meta
    PROVE  /\ Handle(p).indexed = meta[p] /\ Of(Handle(p).file, "tbl", p)
           /\ Handle(p) = [indexed |-> meta[p], file |-> Handle(p).file] \/ p \in DOMAIN opened_tables
           /\ FilePath("tbl", p) \in DOMAIN path => Handle(p).file = path[FilePath("tbl", p)]
           /\ FilePath("tbl", p) \notin DOMAIN path => Handle(p).file = FileAt("tbl", p)
  <1>1. Of(FileAt("tbl", p), "tbl", p)
    BY FileAtFacts DEF Kinds
  <1>2. FilePath("tbl", p) \in DOMAIN path => FileAt("tbl", p) = path[FilePath("tbl", p)]
    BY FileAtFacts DEF Kinds
  <1>3. CASE p \in DOMAIN opened_tables
    <2>1. /\ Handle(p).indexed = meta[p] /\ FilePath("tbl", p) \in DOMAIN path
          /\ Handle(p).file = path[FilePath("tbl", p)]
      BY <1>3 DEF Files, HandlesAreCurrent, Handle
    <2> QED BY <1>1, <1>2, <1>3, <2>1
  <1>4. CASE p \notin DOMAIN opened_tables
    BY <1>1, <1>2, <1>4 DEF Handle
  <1> QED BY <1>3, <1>4

\* Opening a table and its log leaves the cached handles current.
LEMMA OpenFacts ==
    ASSUME Files, NEW p \in Layout, p \in DOMAIN meta, UNCHANGED meta,
           NEW withLog \in BOOLEAN, OpenFiles(p, withLog)
    PROVE  /\ Grown /\ TablesCurrent' /\ LogsCurrent'
           /\ FilePath("tbl", p) \in DOMAIN path' /\ path'[FilePath("tbl", p)] = Handle(p).file
  <1> DEFINE S == (IF p \in DOMAIN opened_tables THEN {} ELSE {"tbl"})
                  \cup (IF withLog /\ p \notin DOMAIN opened_version_logs THEN {"vlog"} ELSE {})
  <1>1. path' = Link(S, p) /\ S \in SUBSET Kinds
    BY DEF OpenFiles, Kinds
  <1>2. /\ Grown
        /\ \A kind \in S : FilePath(kind, p) \in DOMAIN path' /\ path'[FilePath(kind, p)] = FileAt(kind, p)
    <2> HIDE DEF S
    <2> QED BY <1>1, LinkGrown
  <1>3. \A n \in DOMAIN path : n \in DOMAIN path' /\ path'[n] = path[n]
    BY <1>2 DEF Grown
  <1>4. FilePath("tbl", p) \in DOMAIN path' /\ path'[FilePath("tbl", p)] = Handle(p).file
    <2>1. CASE p \in DOMAIN opened_tables
      BY <1>3, <2>1 DEF Handle, Files, HandlesAreCurrent
    <2>2. CASE p \notin DOMAIN opened_tables
      BY <1>2, <2>2 DEF Handle
    <2> QED BY <2>1, <2>2
  <1>5. TablesCurrent'
    <2>1. /\ DOMAIN opened_tables' = DOMAIN opened_tables \cup {p}
          /\ \A q \in DOMAIN opened_tables' : opened_tables'[q] = IF q = p THEN Handle(p) ELSE opened_tables[q]
      BY DEF OpenFiles, Put
    <2>2. Handle(p).indexed = meta[p]
      BY HandleFacts
    <2>3. DOMAIN opened_tables' \subseteq Layout
      BY <2>1 DEF Files, HandlesAreCurrent, TypeOK
    <2>4. ASSUME NEW q \in DOMAIN opened_tables'
          PROVE  /\ q \in DOMAIN meta' /\ opened_tables'[q].indexed = meta'[q]
                 /\ FilePath("tbl", q) \in DOMAIN path' /\ opened_tables'[q].file = path'[FilePath("tbl", q)]
      <3>1. CASE q = p
        BY <1>4, <2>1, <2>2, <3>1
      <3>2. CASE q # p
        BY <1>3, <2>1, <3>2 DEF Files, HandlesAreCurrent
      <3> QED BY <3>1, <3>2
    <2> QED BY <2>3, <2>4 DEF TablesCurrent, FilePath
  <1>6. LogsCurrent'
    <2>1. ASSUME NEW q \in DOMAIN opened_version_logs'
          PROVE  /\ q \in Layout /\ q \in DOMAIN meta
                 /\ FilePath("vlog", q) \in DOMAIN path' /\ opened_version_logs'[q] = path'[FilePath("vlog", q)]
      <3>1. CASE q \in DOMAIN opened_version_logs
        <4>1. opened_version_logs'[q] = opened_version_logs[q]
          BY <3>1 DEF OpenFiles, Put, VersionLogOf
        <4> QED BY <1>3, <3>1, <4>1 DEF Files, HandlesAreCurrent, TypeOK
      <3>2. CASE q \notin DOMAIN opened_version_logs
        <4>1. q = p /\ withLog /\ opened_version_logs'[p] = FileAt("vlog", p)
          BY <3>2 DEF OpenFiles, Put, VersionLogOf
        <4> QED BY <1>2, <3>2, <4>1
      <3> QED BY <3>1, <3>2
    <2> QED BY <2>1, Zenon DEF LogsCurrent, FilePath
  <1> QED BY <1>2, <1>4, <1>5, <1>6

\* The index of a table is open or opened as a file of that index name.
LEMMA IndexFacts ==
    ASSUME Files, NEW p \in Layout
    PROVE  \E q \in Layout : IndexName(q) = IndexName(p) /\ Of(IndexOf(p), "idx", q)
  <1>1. CASE ManagerKnows(p)
    BY <1>1 DEF Files, Indexed, ManagerKnows, IndexOf
  <1>2. CASE ~ManagerKnows(p)
    <2>1. Of(FileAt("idx", p), "idx", p)
      BY FileAtFacts DEF Kinds
    <2> QED BY <1>2, <2>1 DEF IndexOf
  <1> QED BY <1>1, <1>2

\* Indexes stay open.
IndexesGrown ==
    /\ DOMAIN opened_indexes \subseteq DOMAIN opened_indexes'
    /\ \A x \in DOMAIN opened_indexes : opened_indexes'[x] = opened_indexes[x]

\* Opening the index of a table leaves the other indexes open as they are.
LEMMA OpenIndexFacts ==
    ASSUME Files, NEW p \in Layout, opened_indexes' = Put(opened_indexes, IndexName(p), IndexOf(p))
    PROVE  /\ Indexed' /\ IndexesGrown
           /\ DOMAIN opened_indexes' = DOMAIN opened_indexes \cup {IndexName(p)}
           /\ opened_indexes'[IndexName(p)] = IndexOf(p)
  <1>1. /\ DOMAIN opened_indexes' = DOMAIN opened_indexes \cup {IndexName(p)}
        /\ \A x \in DOMAIN opened_indexes' :
              opened_indexes'[x] = IF x = IndexName(p) THEN IndexOf(p) ELSE opened_indexes[x]
    BY DEF Put
  <1>2. ManagerKnows(p) => IndexOf(p) = opened_indexes[IndexName(p)]
    BY DEF IndexOf
  <1>3. IndexesGrown
    BY <1>1, <1>2 DEF IndexesGrown, ManagerKnows
  <1>4. ASSUME NEW x \in DOMAIN opened_indexes'
        PROVE  \E q \in Layout : IndexName(q) = x /\ Of(opened_indexes'[x], "idx", q)
    <2>1. CASE x = IndexName(p)
      BY <1>1, <2>1, IndexFacts
    <2>2. CASE x # IndexName(p)
      BY <1>1, <2>2 DEF Files, Indexed
    <2> QED BY <2>1, <2>2
  <1>5. Indexed'
    BY <1>4 DEF Indexed, IndexName, Of, Inodes, Kinds
  <1> QED BY <1>1, <1>3, <1>5

\* A step that only adds names and open indexes, and changes only files in use,
\* keeps the files in order.
LEMMA GrownFiles ==
    ASSUME Files, Grown, IndexesGrown, Indexed', TypeOK', HeapFiles', TablesCurrent', LogsCurrent',
           \A i \in Inodes : file'[i] = file[i] \/ i \in Range(path') \cup Range(opened_indexes')
    PROVE  Files'
  <1>1. HandlesAreCurrent'
    BY DEF HandlesAreCurrent, TablesCurrent, LogsCurrent
  <1>2. InUse' = Range(path') \cup Range(opened_indexes') /\ InUse = Range(path) \cup Range(opened_indexes)
    BY <1>1, InUseIs, InUseIsNext DEF Files
  <1>3. InUse \subseteq InUse'
    BY <1>2 DEF Range, Grown, IndexesGrown
  <1>4. Freed'
    <2>1. \A i \in Inodes : i \in InUse' \/ file'[i] = Empty
      BY <1>2, <1>3 DEF Files, Freed
    <2> QED BY <2>1 DEF Freed, Inodes, Kinds, Empty
  <1>5. Named'
    <2>1. \A n \in DOMAIN path' : Of(path'[n], n[1], n[2])
      BY DEF Files, Named, Grown
    <2> QED BY <2>1 DEF Named, Of, Inodes, Kinds
  <1> QED BY <1>1, <1>4, <1>5 DEF Files

\* Such a step changes what the file of a name holds only by changing the file.
LEMMA GrownContent ==
    ASSUME Files, Grown, NEW kind, NEW p, \A i : Of(i, kind, p) => file'[i] = file[i]
    PROVE  Content(kind, p)' = Content(kind, p)
  <1> DEFINE n == FilePath(kind, p)
  <1>1. n[1] = kind /\ n[2] = p /\ FilePath(kind, p)' = n
    BY DEF FilePath
  <1>2. Content(kind, p)' = IF n \in DOMAIN path' THEN file'[path'[n]] ELSE Empty
    BY <1>1 DEF Content, Empty
  <1>3. Content(kind, p) = IF n \in DOMAIN path THEN file[path[n]] ELSE Empty
    BY DEF Content
  <1> HIDE DEF n
  <1>4. CASE n \in DOMAIN path
    <2>1. Of(path[n], kind, p) /\ n \in DOMAIN path' /\ path'[n] = path[n]
      BY <1>1, <1>4 DEF Files, Named, Grown
    <2> QED BY <1>2, <1>3, <1>4, <2>1
  <1>5. CASE n \notin DOMAIN path /\ n \in DOMAIN path'
    <2>1. Of(path'[n], kind, p) /\ file[path'[n]] = Empty
      BY <1>1, <1>5 DEF Grown
    <2> QED BY <1>2, <1>3, <1>5, <2>1
  <1>6. CASE n \notin DOMAIN path /\ n \notin DOMAIN path'
    BY <1>2, <1>3, <1>6
  <1> QED BY <1>4, <1>5, <1>6

-----------------------------------------------------------------------------
(* Statements.                                                             *)

HeapType(h) == h \in Seq(Keys \cup {Dead}) /\ Len(h) <= MaxRows
TreeType(t) == DOMAIN t \subseteq Keys /\ Range(t) \subseteq 1..MaxRows

\* A statement on table p opens its files and leaves rows h and tree t in them.
Touches(p, h, t) ==
    /\ \E withLog \in BOOLEAN : OpenFiles(p, withLog)
    /\ \/ UNCHANGED opened_indexes /\ t = file[IndexOf(p)]
       \/ meta[p] /\ opened_indexes' = Put(opened_indexes, IndexName(p), IndexOf(p))
    /\ DOMAIN file' = Inodes
    /\ \A i \in Inodes : file'[i] = IF i = Handle(p).file THEN h
                                    ELSE IF meta[p] /\ i = IndexOf(p) THEN t ELSE file[i]
    /\ HeapType(h) /\ TreeType(t)
    /\ UNCHANGED <<started, dirs, meta, reused>>

\* It adds names and open indexes only.
LEMMA TouchGrows ==
    ASSUME Files, NEW p \in Layout, p \in DOMAIN meta, NEW h, NEW t, Touches(p, h, t)
    PROVE  /\ Grown /\ TablesCurrent' /\ LogsCurrent' /\ IndexesGrown /\ Indexed'
           /\ FilePath("tbl", p) \in DOMAIN path' /\ path'[FilePath("tbl", p)] = Handle(p).file
           /\ \A x \in DOMAIN opened_indexes' : x # IndexName(p) => x \in DOMAIN opened_indexes
  <1>1. PICK withLog \in BOOLEAN : OpenFiles(p, withLog)
    BY DEF Touches
  <1>2. UNCHANGED meta
    BY DEF Touches
  <1>3. /\ Grown /\ TablesCurrent' /\ LogsCurrent'
        /\ FilePath("tbl", p) \in DOMAIN path' /\ path'[FilePath("tbl", p)] = Handle(p).file
    BY <1>1, <1>2, OpenFacts
  <1>4. CASE UNCHANGED opened_indexes
    <2>1. IndexesGrown /\ Indexed'
      BY <1>4 DEF IndexesGrown, Files, Indexed, Of, Inodes, Kinds, IndexName
    <2> QED BY <1>3, <1>4, <2>1
  <1>5. CASE opened_indexes' = Put(opened_indexes, IndexName(p), IndexOf(p))
    <2>1. /\ IndexesGrown /\ Indexed'
          /\ DOMAIN opened_indexes' = DOMAIN opened_indexes \cup {IndexName(p)}
      BY <1>5, OpenIndexFacts
    <2> QED BY <1>3, <2>1
  <1> QED BY <1>4, <1>5 DEF Touches

\* It keeps the files in order.
LEMMA TouchFiles ==
    ASSUME Files, NEW p \in Layout, p \in DOMAIN meta, NEW h, NEW t, Touches(p, h, t)
    PROVE  Files'
  <1>1. /\ Grown /\ TablesCurrent' /\ LogsCurrent' /\ IndexesGrown /\ Indexed'
        /\ FilePath("tbl", p) \in DOMAIN path' /\ path'[FilePath("tbl", p)] = Handle(p).file
    BY TouchGrows
  <1>2. Of(Handle(p).file, "tbl", p)
    BY HandleFacts
  <1>3. PICK q \in Layout : IndexName(q) = IndexName(p) /\ Of(IndexOf(p), "idx", q)
    BY IndexFacts
  <1>4. /\ DOMAIN file' = Inodes
        /\ \A i \in Inodes : file'[i] = IF i = Handle(p).file THEN h
                                        ELSE IF meta[p] /\ i = IndexOf(p) THEN t ELSE file[i]
        /\ HeapType(h) /\ TreeType(t)
    BY DEF Touches
  <1>5. Handle(p).file[1] = "tbl" /\ IndexOf(p)[1] = "idx"
    BY <1>2, <1>3 DEF Of
  <1>6. \A i \in Inodes : i[1] = "tbl" => file'[i] \in Seq(Keys \cup {Dead}) /\ Len(file'[i]) <= MaxRows
    BY <1>4, <1>5 DEF Files, HeapFiles, HeapType
  <1>7. HeapFiles'
    BY <1>6 DEF HeapFiles, Inodes, Kinds
  <1>8. TypeOK'
    <2>1. \A i \in Inodes : i[1] = "tbl" => DOMAIN file'[i] \subseteq 1..MaxRows /\ Range(file'[i]) \subseteq Keys \cup {Dead}
      BY <1>6, StorageNodeAssumption DEF Range
    <2>2. \A i \in Inodes : i[1] = "idx" => DOMAIN file'[i] \subseteq Keys /\ Range(file'[i]) \subseteq 1..MaxRows
      BY <1>4, <1>5 DEF TreeType, Files, HandlesAreCurrent, TypeOK
    <2>3. Range(opened_indexes') \subseteq Inodes
      BY <1>1 DEF Indexed, Range, Of, Inodes, Kinds
    <2>4. Range(path') \subseteq Inodes /\ DOMAIN path' \subseteq Kinds \X Layout
      BY <1>1 DEF Grown, Range, Of, Files, Named
    <2>5. /\ started' \in BOOLEAN /\ dirs' \subseteq Dbs /\ reused' \subseteq Layout
          /\ DOMAIN meta' \subseteq Layout /\ Range(meta') \subseteq BOOLEAN
      BY DEF Touches, Files, HandlesAreCurrent, TypeOK
    <2>6. DOMAIN opened_tables' \subseteq Layout /\ DOMAIN opened_version_logs' \subseteq Layout
      BY <1>1 DEF TablesCurrent, LogsCurrent
    <2> QED BY <1>4, <2>1, <2>2, <2>3, <2>4, <2>5, <2>6 DEF TypeOK, Inodes, Kinds, Dbs, Range
  <1>9. \A i \in Inodes : file'[i] = file[i] \/ i \in Range(path') \cup Range(opened_indexes')
    <2>1. Handle(p).file \in Range(path')
      BY <1>1 DEF Range
    <2>2. file'[IndexOf(p)] = file[IndexOf(p)] \/ IndexOf(p) \in Range(opened_indexes')
      <3>1. CASE opened_indexes' = Put(opened_indexes, IndexName(p), IndexOf(p))
        BY <3>1, OpenIndexFacts, Zenon DEF Range
      <3>2. CASE t = file[IndexOf(p)]
        BY <1>3, <1>4, <1>5, <3>2 DEF Of
      <3> QED BY <3>1, <3>2 DEF Touches
    <2> QED BY <1>4, <2>1, <2>2
  <1> QED BY <1>1, <1>7, <1>8, <1>9, GrownFiles

\* It changes what no file of another table holds, and leaves h and t.
LEMMA TouchContents ==
    ASSUME Files, NEW p \in Layout, p \in DOMAIN meta, NEW h, NEW t, Touches(p, h, t)
    PROVE  /\ Content("tbl", p)' = h
           /\ \A q \in Layout : q # p => Content("tbl", q)' = Content("tbl", q)
           /\ \A q \in Layout : IndexName(q) # IndexName(p) => Content("idx", q)' = Content("idx", q)
  <1>1. /\ Grown
        /\ FilePath("tbl", p) \in DOMAIN path' /\ path'[FilePath("tbl", p)] = Handle(p).file
    BY TouchGrows
  <1>2. Of(Handle(p).file, "tbl", p)
    BY HandleFacts
  <1>3. PICK x \in Layout : IndexName(x) = IndexName(p) /\ Of(IndexOf(p), "idx", x)
    BY IndexFacts
  <1>4. \A i \in Inodes : file'[i] = IF i = Handle(p).file THEN h
                                     ELSE IF meta[p] /\ i = IndexOf(p) THEN t ELSE file[i]
    BY DEF Touches
  <1>5. Content("tbl", p)' = h
    BY <1>1, <1>2, <1>4 DEF Content, FilePath, Of
  <1>6. ASSUME NEW q \in Layout, q # p PROVE Content("tbl", q)' = Content("tbl", q)
    <2>1. \A i : Of(i, "tbl", q) => file'[i] = file[i]
      BY <1>2, <1>3, <1>4, <1>6 DEF Of
    <2> QED BY <1>1, <2>1, GrownContent
  <1>7. ASSUME NEW q \in Layout, IndexName(q) # IndexName(p) PROVE Content("idx", q)' = Content("idx", q)
    <2>1. \A i : Of(i, "idx", q) => file'[i] = file[i]
      BY <1>2, <1>3, <1>4, <1>7 DEF Of
    <2> QED BY <1>1, <2>1, GrownContent
  <1> QED BY <1>5, <1>6, <1>7

\* It keeps every table's own index in step, if it keeps p's.
LEMMA TouchLookups ==
    ASSUME Inv, NEW p \in Layout, p \in DOMAIN meta, NEW h, NEW t, Touches(p, h, t),
           p \notin reused /\ meta[p] => InStep(h, t)
    PROVE  Lookups'
  <1>1. Files /\ Lookups
    BY DEF Inv
  <1>2. UNCHANGED <<meta, reused>>
    BY DEF Touches
  <1>3. /\ Grown /\ IndexesGrown
        /\ \A x \in DOMAIN opened_indexes' : x # IndexName(p) => x \in DOMAIN opened_indexes
    BY <1>1, TouchGrows
  <1>4. /\ Content("tbl", p)' = h
        /\ \A q \in Layout : q # p => Content("tbl", q)' = Content("tbl", q)
        /\ \A q \in Layout : IndexName(q) # IndexName(p) => Content("idx", q)' = Content("idx", q)
    BY <1>1, TouchContents
  <1>5. DOMAIN meta \subseteq Layout
    BY <1>1 DEF Files, HandlesAreCurrent, TypeOK
  <1> SUFFICES ASSUME NEW q \in DOMAIN meta, q \notin reused PROVE Own(q)'
    BY <1>2 DEF Lookups
  <1>6. Own(q) /\ q \in Layout
    BY <1>1, <1>5 DEF Lookups
  <1>7. \A z \in DOMAIN meta' : IndexName(z) = IndexName(q) => z = q
    BY <1>2, <1>6 DEF Own
  <1>8. ASSUME meta[q]
        PROVE  /\ FilePath("idx", q) \in DOMAIN path'
               /\ IndexName(q) \in DOMAIN opened_indexes' => opened_indexes'[IndexName(q)] = path'[FilePath("idx", q)]
               /\ InStep(Content("tbl", q)', Content("idx", q)')
    <2>1. FilePath("idx", q) \in DOMAIN path' /\ path'[FilePath("idx", q)] = path[FilePath("idx", q)]
      BY <1>3, <1>6, <1>8 DEF Own, Grown
    <2>2. CASE q # p
      <3>1. IndexName(q) # IndexName(p)
        BY <1>6, <2>2 DEF Own
      <3>2. Content("tbl", q)' = Content("tbl", q) /\ Content("idx", q)' = Content("idx", q)
        BY <1>4, <1>6, <2>2, <3>1
      <3>3. IndexName(q) \in DOMAIN opened_indexes' => ManagerKnows(q) /\ opened_indexes'[IndexName(q)] = opened_indexes[IndexName(q)]
        BY <1>3, <3>1 DEF ManagerKnows, IndexesGrown
      <3> QED BY <1>6, <1>8, <2>1, <3>2, <3>3 DEF Own
    <2>3. CASE q = p
      <3>1. IndexOf(p) = path[FilePath("idx", p)]
        BY <1>6, <1>8, <2>3 DEF Own, IndexOf, FileAt
      <3>2. IndexName(p) \in DOMAIN opened_indexes' => opened_indexes'[IndexName(p)] = IndexOf(p)
        <4>1. CASE UNCHANGED opened_indexes
          BY <4>1 DEF IndexOf, ManagerKnows
        <4>2. CASE opened_indexes' = Put(opened_indexes, IndexName(p), IndexOf(p))
          BY <4>2 DEF Put
        <4> QED BY <4>1, <4>2 DEF Touches
      <3>3. Content("idx", p)' = t
        <4>1. PICK x \in Layout : Of(IndexOf(p), "idx", x)
          BY <1>1, IndexFacts
        <4>2. Of(Handle(p).file, "tbl", p)
          BY <1>1, HandleFacts
        <4>3. file'[IndexOf(p)] = t
          BY <1>8, <2>3, <4>1, <4>2 DEF Touches, Of
        <4> QED BY <2>1, <2>3, <3>1, <4>3 DEF Content, FilePath
      <3> QED BY <1>4, <1>8, <2>1, <2>3, <3>1, <3>2, <3>3
    <2> QED BY <2>2, <2>3
  <1> QED BY <1>2, <1>7, <1>8 DEF Own, ManagerKnows, IndexName, FilePath, InStep

\* An open table is in the catalog.
LEMMA FoundIsKnown == ASSUME Files, NEW p, TableFound(p) PROVE p \in DOMAIN meta
  BY DEF TableFound, Files, HandlesAreCurrent

\* The rows of a table that is in the catalog are its heap file's.
LEMMA HeapOf ==
    ASSUME Files, NEW p \in Layout, p \in DOMAIN meta
    PROVE  /\ Rows(p) = file[Handle(p).file] /\ Rows(p) = Content("tbl", p)
           /\ HeapType(file[Handle(p).file]) /\ TreeType(file[IndexOf(p)])
  <1>1. Rows(p) = Content("tbl", p) /\ Rows(p) = file[Handle(p).file]
    BY RowsAre DEF Rows
  <1>2. Of(Handle(p).file, "tbl", p)
    BY HandleFacts
  <1>3. PICK x \in Layout : Of(IndexOf(p), "idx", x)
    BY IndexFacts
  <1> QED BY <1>1, <1>2, <1>3 DEF Of, HeapType, TreeType, Files, HeapFiles, HandlesAreCurrent, TypeOK

\* The index of a table of its own agrees with the rows.
LEMMA OwnTree ==
    ASSUME Inv, NEW p \in Layout, p \in DOMAIN meta, p \notin reused, meta[p]
    PROVE  InStep(Rows(p), Tree(p))
  <1>1. Files /\ Own(p)
    BY DEF Inv, Lookups
  <1>2. IndexOf(p) = path[FilePath("idx", p)]
    BY <1>1 DEF Own, IndexOf, FileAt
  <1>3. Tree(p) = Content("idx", p)
    BY <1>1, <1>2 DEF Own, Tree, Content
  <1>4. Rows(p) = Content("tbl", p)
    BY <1>1, HeapOf
  <1> QED BY <1>1, <1>3, <1>4 DEF Own

\* An INSERT touches its table and leaves the new row in heap and index.
LEMMA InsertTouches ==
    ASSUME Inv, NEW p \in Layout, NEW k \in Keys, InsertKey(p, k), ~UNCHANGED vars
    PROVE  /\ p \in DOMAIN meta
           /\ \E h, t : Touches(p, h, t) /\ (p \notin reused /\ meta[p] => InStep(h, t))
  <1> DEFINE heap == Handle(p).file
             rid == Len(file[heap]) + 1
             rejected == Handle(p).indexed /\ k \in DOMAIN Tree(p)
             stored == [file EXCEPT ![heap] = Append(@, k)]
             h == Append(file[heap], k)
             t == IF Handle(p).indexed /\ ~rejected THEN Put(Tree(p), k, rid) ELSE Tree(p)
  <1>1. /\ CanOpen(p) /\ rid <= MaxRows /\ \A r \in LiveRows(p) : Rows(p)[r] # k
        /\ OpenFiles(p, ~rejected) /\ OpenTableIndexes(p)
        /\ file' = IF Handle(p).indexed /\ ~rejected
                   THEN [stored EXCEPT ![IndexOf(p)] = Put(@, k, rid)] ELSE stored
        /\ UNCHANGED <<started, dirs, meta, reused>>
    BY DEF InsertKey, Fail
  <1>2. Files /\ p \in DOMAIN meta
    BY <1>1, FoundIsKnown DEF Inv, CanOpen
  <1>3. /\ Handle(p).indexed = meta[p] /\ meta[p] \in BOOLEAN /\ Of(heap, "tbl", p)
        /\ DOMAIN file = Inodes
    BY <1>2, HandleFacts DEF Files, HandlesAreCurrent, TypeOK, Range
  <1>4. Rows(p) = file[heap] /\ HeapType(file[heap]) /\ TreeType(Tree(p))
    BY <1>2, HeapOf DEF Tree
  <1>5. PICK x \in Layout : Of(IndexOf(p), "idx", x)
    BY <1>2, IndexFacts
  <1>6. IndexOf(p) \in Inodes /\ heap \in Inodes /\ IndexOf(p) # heap
    BY <1>3, <1>5 DEF Of
  <1>7. /\ h \in Seq(Keys \cup {Dead}) /\ Len(h) = rid /\ rid \in 1..MaxRows /\ h[rid] = k
        /\ DOMAIN h = 1..rid /\ DOMAIN file[heap] = 1..(rid - 1)
        /\ \A r \in 1..(rid - 1) : h[r] = file[heap][r]
    <2>1. rid <= MaxRows /\ MaxRows \in Nat /\ file[heap] \in Seq(Keys \cup {Dead})
      BY <1>1, <1>4, StorageNodeAssumption DEF HeapType
    <2> HIDE DEF heap
    <2> QED BY <2>1
  <1>8. TreeType(t)
    <2>1. TreeType(Put(Tree(p), k, rid))
      BY <1>4, <1>7, Zenon DEF TreeType, Put, Range
    <2> QED BY <1>4, <2>1
  <1>9. \A i \in Inodes : file'[i] = IF i = heap THEN h ELSE IF meta[p] /\ i = IndexOf(p) THEN t ELSE file[i]
    <2>1. CASE Handle(p).indexed /\ ~rejected
      <3>1. file' = [stored EXCEPT ![IndexOf(p)] = Put(@, k, rid)] /\ meta[p]
        BY <1>1, <1>3, <2>1
      <3>2. t = Put(file[IndexOf(p)], k, rid)
        BY <2>1 DEF Tree
      <3> HIDE DEF heap, rid, t
      <3> QED BY <1>3, <1>6, <3>1, <3>2, Zenon
    <2>2. CASE ~(Handle(p).indexed /\ ~rejected)
      <3>1. file' = stored
        BY <1>1, <2>2
      <3>2. t = file[IndexOf(p)]
        BY <2>2 DEF Tree
      <3> HIDE DEF heap, t
      <3> QED BY <1>3, <1>6, <3>1, <3>2
    <2> QED BY <2>1, <2>2
  <1>10. DOMAIN file' = Inodes
    BY <1>1, <1>3
  <1>11. \/ UNCHANGED opened_indexes /\ t = file[IndexOf(p)]
         \/ meta[p] /\ opened_indexes' = Put(opened_indexes, IndexName(p), IndexOf(p))
    BY <1>1, <1>3 DEF OpenTableIndexes, Tree
  <1>12. Touches(p, h, t)
    <2>1. HeapType(h)
      BY <1>7 DEF HeapType
    <2> HIDE DEF h, t, heap, rejected
    <2> QED BY <1>1, <1>8, <1>9, <1>10, <1>11, <2>1, Zenon DEF Touches, heap
  <1>13. ASSUME p \notin reused, meta[p] PROVE InStep(h, t)
    <2>1. InStep(file[heap], Tree(p))
      BY <1>2, <1>4, <1>13, OwnTree
    <2>2. k \notin DOMAIN Tree(p)
      <3>1. SUFFICES ASSUME k \in DOMAIN Tree(p) PROVE FALSE
        OBVIOUS
      <3>2. Tree(p)[k] \in DOMAIN Rows(p) /\ Rows(p)[Tree(p)[k]] = k
        BY <1>4, <2>1, <3>1 DEF InStep
      <3> QED BY <1>1, <3>2, StorageNodeAssumption DEF LiveRows
    <2>3. /\ DOMAIN t = DOMAIN Tree(p) \cup {k} /\ t[k] = rid
          /\ \A y \in DOMAIN Tree(p) : t[y] = Tree(p)[y]
      BY <1>3, <1>13, <2>2 DEF Put
    <2> HIDE DEF h, t, heap, rid
    <2>4. ASSUME NEW r \in DOMAIN h, h[r] # Dead PROVE h[r] \in DOMAIN t /\ t[h[r]] = r
      <3>1. CASE r = rid
        BY <1>7, <2>3, <3>1
      <3>2. CASE r # rid
        <4>1. r \in DOMAIN file[heap] /\ h[r] = file[heap][r]
          BY <1>7, <3>2
        <4> QED BY <2>1, <2>3, <2>4, <4>1 DEF InStep
      <3> QED BY <3>1, <3>2
    <2>5. ASSUME NEW y \in DOMAIN t PROVE t[y] \in DOMAIN h /\ h[t[y]] = y
      <3>1. CASE y = k
        BY <1>7, <2>3, <3>1
      <3>2. CASE y # k
        <4>1. t[y] \in DOMAIN file[heap] /\ file[heap][t[y]] = y
          BY <2>1, <2>3, <3>2 DEF InStep
        <4> QED BY <1>7, <4>1
      <3> QED BY <3>1, <3>2
    <2> QED BY <2>4, <2>5 DEF InStep
  <1> QED BY <1>2, <1>12, <1>13

\* A DELETE touches its table and takes the row out of heap and index.
LEMMA DeleteTouches ==
    ASSUME Inv, NEW p \in Layout, NEW rid \in 1..MaxRows, DeleteRow(p, rid), ~UNCHANGED vars
    PROVE  /\ p \in DOMAIN meta
           /\ \E h, t : Touches(p, h, t) /\ (p \notin reused /\ meta[p] => InStep(h, t))
  <1> DEFINE heap == Handle(p).file
             k == Rows(p)[rid]
             rejected == Handle(p).indexed /\ k \notin DOMAIN Tree(p)
             unindexed == IF Handle(p).indexed THEN [file EXCEPT ![IndexOf(p)] = Without(@, {k})] ELSE file
             h == IF rejected THEN file[heap] ELSE [file[heap] EXCEPT ![rid] = Dead]
             t == IF Handle(p).indexed /\ ~rejected THEN Without(Tree(p), {k}) ELSE Tree(p)
  <1>1. /\ CanOpen(p) /\ rid \in LiveRows(p)
        /\ OpenFiles(p, ~rejected) /\ OpenTableIndexes(p)
        /\ file' = IF rejected THEN file ELSE [unindexed EXCEPT ![heap][rid] = Dead]
        /\ UNCHANGED <<started, dirs, meta, reused>>
    BY DEF DeleteRow, Fail
  <1>2. Files /\ p \in DOMAIN meta
    BY <1>1, FoundIsKnown DEF Inv, CanOpen
  <1>3. /\ Handle(p).indexed = meta[p] /\ meta[p] \in BOOLEAN /\ Of(heap, "tbl", p)
        /\ DOMAIN file = Inodes
    BY <1>2, HandleFacts DEF Files, HandlesAreCurrent, TypeOK, Range
  <1>4. Rows(p) = file[heap] /\ HeapType(file[heap]) /\ TreeType(Tree(p))
    BY <1>2, HeapOf DEF Tree
  <1>5. PICK x \in Layout : Of(IndexOf(p), "idx", x)
    BY <1>2, IndexFacts
  <1>6. IndexOf(p) \in Inodes /\ heap \in Inodes /\ IndexOf(p) # heap
    BY <1>3, <1>5 DEF Of
  <1>7. rid \in DOMAIN file[heap] /\ k = file[heap][rid] /\ k # Dead
    BY <1>1, <1>4 DEF LiveRows
  <1>8. /\ DOMAIN [file[heap] EXCEPT ![rid] = Dead] = DOMAIN file[heap]
        /\ HeapType([file[heap] EXCEPT ![rid] = Dead])
    <2> HIDE DEF heap
    <2> QED BY <1>4, <1>7 DEF HeapType
  <1>9. HeapType(h) /\ TreeType(t)
    <2>1. TreeType(Without(Tree(p), {k}))
      <3> HIDE DEF k
      <3> QED BY <1>4 DEF TreeType, Without, Range
    <2> QED BY <1>4, <1>8, <2>1
  <1>10. /\ DOMAIN file' = Inodes
         /\ \A i \in Inodes : file'[i] = IF i = heap THEN h ELSE IF meta[p] /\ i = IndexOf(p) THEN t ELSE file[i]
    <2>1. CASE rejected
      <3>1. file' = file /\ h = file[heap] /\ t = file[IndexOf(p)]
        BY <1>1, <2>1 DEF Tree
      <3> HIDE DEF heap, h, t
      <3> QED BY <1>3, <3>1
    <2>2. CASE ~rejected /\ Handle(p).indexed
      <3>1. /\ file' = [[file EXCEPT ![IndexOf(p)] = Without(@, {k})] EXCEPT ![heap][rid] = Dead]
            /\ meta[p] /\ h = [file[heap] EXCEPT ![rid] = Dead] /\ t = Without(file[IndexOf(p)], {k})
        BY <1>1, <1>3, <2>2 DEF Tree
      <3> HIDE DEF heap, h, t, k
      <3> QED BY <1>3, <1>6, <3>1, Zenon
    <2>3. CASE ~rejected /\ ~Handle(p).indexed
      <3>1. /\ file' = [file EXCEPT ![heap][rid] = Dead]
            /\ ~meta[p] /\ h = [file[heap] EXCEPT ![rid] = Dead]
        BY <1>1, <1>3, <2>3
      <3> HIDE DEF heap, h, t
      <3> QED BY <1>3, <1>6, <3>1
    <2> QED BY <2>1, <2>2, <2>3
  <1>11. \/ UNCHANGED opened_indexes /\ t = file[IndexOf(p)]
         \/ meta[p] /\ opened_indexes' = Put(opened_indexes, IndexName(p), IndexOf(p))
    BY <1>1, <1>3 DEF OpenTableIndexes, Tree
  <1>12. Touches(p, h, t)
    <2> HIDE DEF h, t, rejected
    <2> QED BY <1>1, <1>9, <1>10, <1>11, Zenon DEF Touches
  <1>13. ASSUME p \notin reused, meta[p] PROVE InStep(h, t)
    <2>1. InStep(file[heap], Tree(p))
      BY <1>2, <1>4, <1>13, OwnTree
    <2>2. k \in DOMAIN Tree(p) /\ Tree(p)[k] = rid
      BY <1>7, <2>1 DEF InStep
    <2>3. h = [file[heap] EXCEPT ![rid] = Dead] /\ t = Without(Tree(p), {k})
      BY <1>3, <1>13, <2>2
    <2>4. /\ DOMAIN t = DOMAIN Tree(p) \ {k} /\ \A y \in DOMAIN t : t[y] = Tree(p)[y]
          /\ DOMAIN h = DOMAIN file[heap] /\ h[rid] = Dead
          /\ \A r \in DOMAIN h : r # rid => h[r] = file[heap][r]
      <3> HIDE DEF h, t, k, heap
      <3> QED BY <1>7, <1>8, <2>3 DEF Without
    <2> HIDE DEF h, t, heap, k
    <2>5. ASSUME NEW r \in DOMAIN h, h[r] # Dead PROVE h[r] \in DOMAIN t /\ t[h[r]] = r
      <3>1. r # rid /\ r \in DOMAIN file[heap] /\ h[r] = file[heap][r]
        BY <2>4, <2>5
      <3>2. h[r] \in DOMAIN Tree(p) /\ Tree(p)[h[r]] = r
        BY <2>1, <2>5, <3>1 DEF InStep
      <3> QED BY <2>2, <2>4, <3>1, <3>2
    <2>6. ASSUME NEW y \in DOMAIN t PROVE t[y] \in DOMAIN h /\ h[t[y]] = y
      <3>1. t[y] \in DOMAIN file[heap] /\ file[heap][t[y]] = y /\ y # k
        BY <2>1, <2>4 DEF InStep
      <3> QED BY <1>7, <2>4, <3>1
    <2> QED BY <2>5, <2>6 DEF InStep
  <1> QED BY <1>2, <1>12, <1>13

\* A SELECT that opens a table leaves rows and index as they are.
LEMMA OpenTouches ==
    ASSUME Inv, NEW p \in Layout, p \in DOMAIN meta, OpenFiles(p, FALSE),
           UNCHANGED <<started, dirs, meta, file, opened_indexes, reused>>
    PROVE  /\ Touches(p, file[Handle(p).file], file[IndexOf(p)])
           /\ p \notin reused /\ meta[p] => InStep(file[Handle(p).file], file[IndexOf(p)])
  <1>1. Files
    BY DEF Inv
  <1>2. HeapType(file[Handle(p).file]) /\ TreeType(file[IndexOf(p)]) /\ Rows(p) = file[Handle(p).file]
    BY <1>1, HeapOf
  <1>3. DOMAIN file' = Inodes
    BY <1>1 DEF Files, HandlesAreCurrent, TypeOK
  <1>4. Touches(p, file[Handle(p).file], file[IndexOf(p)])
    BY <1>2, <1>3, Zenon DEF Touches
  <1> QED BY <1>2, <1>4, OwnTree DEF Tree

-----------------------------------------------------------------------------
(* What every step does.                                                   *)

\* No step changes what two scans return, unless it drops the database of both.
Independent ==
    \A p, q \in Layout : p # q /\ Rows(p)' # Rows(p) /\ Rows(q)' # Rows(q)
                             => p[1] = q[1] /\ p[1] \notin dirs'

\* Only the rows of p change.
LEMMA OneTableChanges ==
    ASSUME Files, Files', NEW p,
           \A q \in Layout : q # p => /\ q \in DOMAIN meta' <=> q \in DOMAIN meta
                                      /\ Content("tbl", q)' = Content("tbl", q)
    PROVE  Independent
  <1>1. \A q \in Layout : q # p => Rows(q)' = Rows(q)
    BY RowsAre, RowsAreNext
  <1> QED BY <1>1 DEF Independent

LEMMA TouchStep ==
    ASSUME Inv, NEW p \in Layout, p \in DOMAIN meta,
           \E h, t : Touches(p, h, t) /\ (p \notin reused /\ meta[p] => InStep(h, t))
    PROVE  Inv' /\ Independent
  <1>1. PICK h, t : Touches(p, h, t) /\ (p \notin reused /\ meta[p] => InStep(h, t))
    OBVIOUS
  <1>2. Files
    BY DEF Inv
  <1>3. Files'
    BY <1>1, <1>2, TouchFiles
  <1>4. Lookups'
    BY <1>1, TouchLookups
  <1>5. \A q \in Layout : q # p => Content("tbl", q)' = Content("tbl", q)
    BY <1>1, <1>2, TouchContents
  <1>6. UNCHANGED meta
    BY <1>1 DEF Touches
  <1>7. Independent
    BY <1>2, <1>3, <1>5, <1>6, OneTableChanges
  <1> QED BY <1>3, <1>4, <1>7 DEF Inv

Catalog ==
    /\ started \in BOOLEAN /\ dirs \subseteq Dbs /\ reused \subseteq Layout
    /\ DOMAIN meta \subseteq Layout /\ Range(meta) \subseteq BOOLEAN

\* A step that leaves the contents of files alone and adds at most names.
LEMMA GrownSameFiles ==
    ASSUME Files, Grown, IndexesGrown, Indexed', Catalog', TablesCurrent', LogsCurrent', UNCHANGED file
    PROVE  Files' /\ \A kind, p : Content(kind, p)' = Content(kind, p)
  <1>1. Range(path') \subseteq Inodes /\ DOMAIN path' \subseteq Kinds \X Layout
    BY DEF Grown, Range, Of, Files, Named
  <1>2. Range(opened_indexes') \subseteq Inodes
    BY DEF Indexed, Range, Of, Inodes, Kinds
  <1>3. TypeOK'
    BY <1>1, <1>2 DEF TypeOK, Files, HandlesAreCurrent, Catalog, TablesCurrent, LogsCurrent, Inodes, Kinds, Range
  <1>4. HeapFiles'
    BY DEF Files, HeapFiles, Inodes, Kinds
  <1> QED BY <1>3, <1>4, GrownFiles, GrownContent

\* CREATE TABLE
LEMMA CreateTableStep ==
    ASSUME Inv, NEW p \in Layout, NEW indexed \in BOOLEAN, CreateTable(p, indexed), ~UNCHANGED vars
    PROVE  Inv' /\ Independent
  <1>1. /\ p \notin DOMAIN meta /\ meta' = Put(meta, p, indexed)
        /\ \/ /\ indexed /\ ~ManagerKnows(p)
              /\ opened_indexes' = Put(opened_indexes, IndexName(p), IndexOf(p)) /\ path' = Link({"idx"}, p)
           \/ ~(indexed /\ ~ManagerKnows(p)) /\ UNCHANGED <<opened_indexes, path>>
        /\ reused' = IF NameIsFresh(p) THEN reused \ {p}
                     ELSE reused \cup {q \in Layout : IndexName(q) = IndexName(p)}
        /\ UNCHANGED <<started, dirs, file, opened_tables, opened_version_logs>>
    BY DEF CreateTable, Fail
  <1>2. Files /\ Lookups
    BY DEF Inv
  <1>3. /\ DOMAIN meta' = DOMAIN meta \cup {p} /\ meta'[p] = indexed
        /\ \A q \in DOMAIN meta : meta'[q] = meta[q] /\ q # p
    BY <1>1 DEF Put
  <1>4. Grown /\ IndexesGrown /\ Indexed'
    <2>1. CASE UNCHANGED <<opened_indexes, path>>
      BY <1>2, <2>1, GrownSame DEF IndexesGrown, Files, Indexed, Of, Inodes, Kinds, IndexName
    <2>2. CASE opened_indexes' = Put(opened_indexes, IndexName(p), IndexOf(p)) /\ path' = Link({"idx"}, p)
      <3>1. {"idx"} \in SUBSET Kinds
        BY DEF Kinds
      <3> QED BY <1>2, <2>2, <3>1, LinkGrown, OpenIndexFacts, Zenon
    <2> QED BY <1>1, <2>1, <2>2
  <1>5. Catalog'
    <2>1. Catalog
      BY <1>2 DEF Catalog, Files, HandlesAreCurrent, TypeOK
    <2>2. Range(meta') \subseteq BOOLEAN /\ DOMAIN meta' \subseteq Layout
      BY <1>3, <2>1 DEF Catalog, Range
    <2>3. reused' \subseteq Layout
      BY <1>1, <2>1 DEF Catalog
    <2> QED BY <1>1, <2>1, <2>2, <2>3 DEF Catalog, Dbs
  <1>6. TablesCurrent' /\ LogsCurrent'
    BY <1>1, <1>2, <1>3, <1>4 DEF TablesCurrent, LogsCurrent, Files, HandlesAreCurrent, TypeOK, Grown, FilePath
  <1>7. Files' /\ \A kind, q : Content(kind, q)' = Content(kind, q)
    BY <1>1, <1>2, <1>4, <1>5, <1>6, GrownSameFiles
  <1>8. ASSUME NEW q \in DOMAIN meta, q \notin reused, IndexName(q) # IndexName(p) PROVE Own(q)'
    <2>1. Own(q)
      BY <1>2, <1>8 DEF Lookups
    <2>2. \A z \in DOMAIN meta' : IndexName(z) = IndexName(q) => z = q
      BY <1>3, <1>8, <2>1 DEF Own
    <2>3. IndexName(q) \in DOMAIN opened_indexes' =>
            IndexName(q) \in DOMAIN opened_indexes /\ opened_indexes'[IndexName(q)] = opened_indexes[IndexName(q)]
      BY <1>1, <1>8 DEF Put
    <2>4. meta[q] => FilePath("idx", q) \in DOMAIN path' /\ path'[FilePath("idx", q)] = path[FilePath("idx", q)]
      BY <1>4, <2>1 DEF Own, Grown
    <2>5. meta'[q] = meta[q]
      BY <1>3
    <2> QED BY <1>7, <2>1, <2>2, <2>3, <2>4, <2>5 DEF Own, ManagerKnows, IndexName, FilePath, InStep
  <1>9. ASSUME NameIsFresh(p) PROVE Lookups'
    <2>1. Own(p)'
      <3>1. \A z \in DOMAIN meta' : IndexName(z) = IndexName(p) => z = p
        BY <1>3, <1>9 DEF NameIsFresh
      <3>2. Content("tbl", p)' = Empty /\ Content("idx", p)' = Empty
        BY <1>7, <1>9 DEF NameIsFresh, Content, Kinds
      <3>3. InStep(Empty, Empty)
        BY DEF InStep, Empty
      <3>4. ASSUME indexed PROVE /\ FilePath("idx", p) \in DOMAIN path'
                                 /\ opened_indexes'[IndexName(p)] = path'[FilePath("idx", p)]
        <4>1. opened_indexes' = Put(opened_indexes, IndexName(p), IndexOf(p)) /\ path' = Link({"idx"}, p)
          BY <1>1, <1>9, <3>4 DEF NameIsFresh
        <4>2. {"idx"} \in SUBSET Kinds
          BY DEF Kinds
        <4>3. FilePath("idx", p) \in DOMAIN path' /\ path'[FilePath("idx", p)] = FileAt("idx", p)
          BY <1>2, <4>1, <4>2, LinkGrown
        <4>4. opened_indexes'[IndexName(p)] = FileAt("idx", p)
          BY <1>2, <1>9, <4>1, OpenIndexFacts, Zenon DEF NameIsFresh, IndexOf
        <4> QED BY <4>3, <4>4
      <3> QED BY <1>3, <3>1, <3>2, <3>3, <3>4 DEF Own, ManagerKnows, IndexName, FilePath, InStep
    <2>2. ASSUME NEW q \in DOMAIN meta', q \notin reused' PROVE Own(q)'
      <3>1. CASE q = p
        BY <2>1, <3>1
      <3>2. CASE q # p
        <4>1. q \in DOMAIN meta /\ q \notin reused /\ IndexName(q) # IndexName(p)
          BY <1>1, <1>3, <1>9, <2>2, <3>2 DEF NameIsFresh
        <4> QED BY <1>8, <4>1
      <3> QED BY <3>1, <3>2
    <2> QED BY <2>2 DEF Lookups
  <1>10. ASSUME ~NameIsFresh(p) PROVE Lookups'
    <2>1. ASSUME NEW q \in DOMAIN meta', q \notin reused' PROVE Own(q)'
      <3>1. q \in Layout
        BY <1>5 DEF Catalog
      <3>2. q \notin reused /\ IndexName(q) # IndexName(p) /\ q \in DOMAIN meta
        BY <1>1, <1>3, <1>10, <2>1, <3>1
      <3> QED BY <1>8, <3>2
    <2> QED BY <2>1 DEF Lookups
  <1>11. Lookups'
    BY <1>9, <1>10
  <1>12. Independent
    BY <1>2, <1>3, <1>7, OneTableChanges
  <1> QED BY <1>7, <1>11, <1>12 DEF Inv

\* DROP TABLE
LEMMA DropTableStep ==
    ASSUME Inv, NEW p \in Layout, DropTable(p), ~UNCHANGED vars
    PROVE  Inv' /\ Independent
  <1>1. /\ ForgetTable(p) /\ meta' = Without(meta, {p})
        /\ UNCHANGED <<started, dirs, path, file, opened_indexes, reused>>
    BY DEF DropTable, Fail
  <1>2. Files /\ Lookups
    BY DEF Inv
  <1>3. DOMAIN meta' = DOMAIN meta \ {p} /\ \A q \in DOMAIN meta' : meta'[q] = meta[q]
    BY <1>1 DEF Without
  <1>4. Grown /\ IndexesGrown /\ Indexed'
    BY <1>1, <1>2, GrownSame DEF IndexesGrown, Files, Indexed, Of, Inodes, Kinds, IndexName
  <1>5. Catalog'
    <2>1. Range(meta') \subseteq Range(meta)
      BY <1>3 DEF Range
    <2> QED BY <1>1, <1>2, <1>3, <2>1, Zenon DEF Catalog, Files, HandlesAreCurrent, TypeOK, Range, Dbs
  <1>6. TablesCurrent' /\ LogsCurrent'
    <2>1. /\ DOMAIN opened_tables' = DOMAIN opened_tables \ {p}
          /\ \A q \in DOMAIN opened_tables' : opened_tables'[q] = opened_tables[q]
          /\ DOMAIN opened_version_logs' = DOMAIN opened_version_logs \ {p}
          /\ \A q \in DOMAIN opened_version_logs' : opened_version_logs'[q] = opened_version_logs[q]
      BY <1>1 DEF ForgetTable, Without
    <2> QED BY <1>1, <1>2, <1>3, <2>1, Zenon DEF TablesCurrent, LogsCurrent, Files, HandlesAreCurrent, TypeOK, FilePath
  <1>7. Files' /\ \A kind, q : Content(kind, q)' = Content(kind, q)
    BY <1>1, <1>2, <1>4, <1>5, <1>6, GrownSameFiles
  <1>8. ASSUME NEW q \in DOMAIN meta', q \notin reused' PROVE Own(q)'
    <2>1. Own(q) /\ q \in DOMAIN meta /\ meta'[q] = meta[q]
      BY <1>1, <1>2, <1>3, <1>8 DEF Lookups
    <2> QED BY <1>1, <1>3, <1>7, <2>1 DEF Own, ManagerKnows, IndexName, FilePath, InStep
  <1>9. Lookups'
    BY <1>8 DEF Lookups
  <1>10. Independent
    BY <1>2, <1>3, <1>7, OneTableChanges
  <1> QED BY <1>7, <1>9, <1>10 DEF Inv

\* Names and open indexes go, and the files nobody uses any more are freed.
Shrunk ==
    /\ DOMAIN path' \subseteq DOMAIN path /\ \A n \in DOMAIN path' : path'[n] = path[n]
    /\ DOMAIN opened_indexes' \subseteq DOMAIN opened_indexes
    /\ \A x \in DOMAIN opened_indexes' : opened_indexes'[x] = opened_indexes[x]
    /\ Reclaim

\* The files that are still named are as they were.
LEMMA ShrunkFiles ==
    ASSUME Files, Shrunk, Catalog', TablesCurrent', LogsCurrent'
    PROVE  /\ Files'
           /\ \A kind, p : FilePath(kind, p) \in DOMAIN path' \/ FilePath(kind, p) \notin DOMAIN path
                              => Content(kind, p)' = Content(kind, p)
  <1>1. /\ DOMAIN file' = Inodes /\ \A i \in Inodes : file'[i] = IF i \in InUse' THEN file[i] ELSE Empty
    BY DEF Shrunk, Reclaim
  <1>2. \A i \in Inodes : file'[i] = file[i] \/ file'[i] = Empty
    BY <1>1
  <1>3. Empty \in Seq(Keys \cup {Dead}) /\ Len(Empty) = 0 /\ DOMAIN Empty = {}
    BY DEF Empty
  <1>4. \A i \in Inodes : i[1] = "tbl" => file'[i] \in Seq(Keys \cup {Dead}) /\ Len(file'[i]) <= MaxRows
    <2>1. Len(Empty) <= MaxRows
      BY <1>3, StorageNodeAssumption
    <2>2. \A i \in Inodes : i[1] = "tbl" => file[i] \in Seq(Keys \cup {Dead}) /\ Len(file[i]) <= MaxRows
      BY DEF Files, HeapFiles
    <2> HIDE DEF Empty
    <2> QED BY <1>2, <1>3, <2>1, <2>2, Zenon
  <1>5. HeapFiles'
    BY <1>4 DEF HeapFiles, Inodes, Kinds
  <1>6. Named' /\ Indexed'
    BY DEF Shrunk, Files, Named, Indexed, Of, Inodes, Kinds, IndexName
  <1>7. TypeOK'
    <2>1. \A i \in Inodes : i[1] = "tbl" => DOMAIN file'[i] \subseteq 1..MaxRows /\ Range(file'[i]) \subseteq Keys \cup {Dead}
      BY <1>4, StorageNodeAssumption DEF Range
    <2>2. \A i \in Inodes : i[1] = "idx" => DOMAIN file'[i] \subseteq Keys /\ Range(file'[i]) \subseteq 1..MaxRows
      <3>1. \A i \in Inodes : i[1] = "idx" => DOMAIN file[i] \subseteq Keys /\ Range(file[i]) \subseteq 1..MaxRows
        BY DEF Files, HandlesAreCurrent, TypeOK
      <3>2. DOMAIN Empty \subseteq Keys /\ Range(Empty) \subseteq 1..MaxRows
        BY <1>3 DEF Range
      <3> HIDE DEF Empty
      <3> QED BY <1>2, <3>1, <3>2
    <2>3. Range(path') \subseteq Inodes /\ DOMAIN path' \subseteq Kinds \X Layout
      BY DEF Shrunk, Range, Files, HandlesAreCurrent, TypeOK
    <2>4. Range(opened_indexes') \subseteq Inodes
      BY DEF Shrunk, Range, Files, HandlesAreCurrent, TypeOK
    <2> QED BY <1>1, <2>1, <2>2, <2>3, <2>4 DEF TypeOK, Catalog, TablesCurrent, LogsCurrent, Inodes, Kinds, Range, Dbs
  <1>8. HandlesAreCurrent'
    BY <1>7 DEF HandlesAreCurrent, TablesCurrent, LogsCurrent
  <1>9. Freed'
    <2>1. \A i \in Inodes : i \in InUse' \/ file'[i] = Empty
      BY <1>1
    <2> QED BY <2>1 DEF Freed, Inodes, Kinds, Empty
  <1>10. Files'
    BY <1>5, <1>6, <1>8, <1>9 DEF Files
  <1>11. ASSUME NEW kind, NEW p, FilePath(kind, p) \in DOMAIN path' \/ FilePath(kind, p) \notin DOMAIN path
         PROVE  Content(kind, p)' = Content(kind, p)
    <2> DEFINE n == FilePath(kind, p)
    <2>1. Content(kind, p)' = IF n \in DOMAIN path' THEN file'[path'[n]] ELSE Empty
      BY DEF Content, FilePath, Empty
    <2>2. Content(kind, p) = IF n \in DOMAIN path THEN file[path[n]] ELSE Empty
      BY DEF Content
    <2> HIDE DEF n
    <2>3. CASE n \in DOMAIN path'
      <3>1. n \in DOMAIN path /\ path'[n] = path[n]
        BY <2>3 DEF Shrunk
      <3>2. path'[n] \in Inodes /\ path'[n] \in InUse'
        BY <2>3, <3>1 DEF InUse, Range, Files, HandlesAreCurrent, TypeOK
      <3> QED BY <1>1, <2>1, <2>2, <2>3, <3>1, <3>2
    <2>4. CASE n \notin DOMAIN path
      BY <2>1, <2>2, <2>4 DEF Shrunk
    <2> QED BY <1>11, <2>3, <2>4 DEF n
  <1> QED BY <1>10, <1>11

\* A table whose names stay keeps its own index.
LEMMA ShrunkOwn ==
    ASSUME Files, Shrunk, Catalog', TablesCurrent', LogsCurrent',
           DOMAIN meta' \subseteq DOMAIN meta, NEW q \in DOMAIN meta', meta'[q] = meta[q], Own(q),
           \A kind \in Kinds : FilePath(kind, q) \in DOMAIN path => FilePath(kind, q) \in DOMAIN path'
    PROVE  Own(q)'
  <1>1. Content("tbl", q)' = Content("tbl", q) /\ Content("idx", q)' = Content("idx", q)
    BY ShrunkFiles DEF Kinds
  <1>2. \A z \in DOMAIN meta' : IndexName(z) = IndexName(q) => z = q
    BY DEF Own
  <1>3. IndexName(q) \in DOMAIN opened_indexes' =>
            IndexName(q) \in DOMAIN opened_indexes /\ opened_indexes'[IndexName(q)] = opened_indexes[IndexName(q)]
    BY DEF Shrunk
  <1>4. meta[q] => FilePath("idx", q) \in DOMAIN path' /\ path'[FilePath("idx", q)] = path[FilePath("idx", q)]
    BY DEF Own, Shrunk, Kinds
  <1> QED BY <1>1, <1>2, <1>3, <1>4 DEF Own, ManagerKnows, IndexName, FilePath, InStep

\* DROP DATABASE
LEMMA DropDatabaseStep ==
    ASSUME Inv, NEW d \in Dbs, DropDatabase(d), ~UNCHANGED vars
    PROVE  Inv' /\ Independent
  <1>1. /\ ForgetDatabase(d) /\ dirs' = dirs \ {d} /\ meta' = Without(meta, PairsOf(d))
        /\ path' = Without(path, Kinds \X PairsOf(d))
        /\ UNCHANGED <<started, opened_indexes, reused>> /\ Reclaim
    BY DEF DropDatabase, Fail
  <1>2. Files /\ Lookups
    BY DEF Inv
  <1>3. DOMAIN meta' = DOMAIN meta \ PairsOf(d) /\ \A q \in DOMAIN meta' : meta'[q] = meta[q]
    BY <1>1 DEF Without
  <1>4. DOMAIN path' = DOMAIN path \ (Kinds \X PairsOf(d)) /\ \A n \in DOMAIN path' : path'[n] = path[n]
    BY <1>1 DEF Without
  <1>5. Shrunk
    BY <1>1, <1>4, Zenon DEF Shrunk
  <1>6. Catalog'
    <2>1. Range(meta') \subseteq Range(meta)
      BY <1>3 DEF Range
    <2> QED BY <1>1, <1>2, <1>3, <2>1 DEF Catalog, Files, HandlesAreCurrent, TypeOK, Range, Dbs
  <1>7. TablesCurrent' /\ LogsCurrent'
    <2>1. /\ DOMAIN opened_tables' = DOMAIN opened_tables \ PairsOf(d)
          /\ \A q \in DOMAIN opened_tables' : opened_tables'[q] = opened_tables[q]
          /\ DOMAIN opened_version_logs' = DOMAIN opened_version_logs \ PairsOf(d)
          /\ \A q \in DOMAIN opened_version_logs' : opened_version_logs'[q] = opened_version_logs[q]
      BY <1>1 DEF ForgetDatabase, Without
    <2>2. \A kind, q : q \notin PairsOf(d) /\ FilePath(kind, q) \in DOMAIN path
                          => FilePath(kind, q) \in DOMAIN path' /\ path'[FilePath(kind, q)] = path[FilePath(kind, q)]
      BY <1>4 DEF FilePath
    <2>3. TablesCurrent /\ LogsCurrent
      BY <1>2, Zenon DEF TablesCurrent, LogsCurrent, Files, HandlesAreCurrent, TypeOK
    <2>4. TablesCurrent'
      BY <1>3, <2>1, <2>2, <2>3 DEF TablesCurrent, FilePath
    <2>5. LogsCurrent'
      BY <1>3, <2>1, <2>2, <2>3 DEF LogsCurrent, FilePath
    <2> QED BY <2>4, <2>5
  <1>8. /\ Files'
        /\ \A kind, p : FilePath(kind, p) \in DOMAIN path' \/ FilePath(kind, p) \notin DOMAIN path
                           => Content(kind, p)' = Content(kind, p)
    BY <1>2, <1>5, <1>6, <1>7, ShrunkFiles
  <1>9. \A kind, q : q \notin PairsOf(d) /\ FilePath(kind, q) \in DOMAIN path => FilePath(kind, q) \in DOMAIN path'
    BY <1>4 DEF FilePath
  <1>10. ASSUME NEW q \in DOMAIN meta', q \notin reused' PROVE Own(q)'
    <2>1. Own(q) /\ q \notin PairsOf(d) /\ meta'[q] = meta[q]
      BY <1>1, <1>2, <1>3, <1>10 DEF Lookups
    <2> QED BY <1>2, <1>3, <1>5, <1>6, <1>7, <1>9, <2>1, ShrunkOwn
  <1>11. Lookups'
    BY <1>10 DEF Lookups
  <1>12. ASSUME NEW q \in Layout, q[1] # d PROVE Rows(q)' = Rows(q)
    <2>1. q \notin PairsOf(d)
      BY <1>12 DEF PairsOf
    <2>2. Content("tbl", q)' = Content("tbl", q)
      BY <1>8, <1>9, <2>1
    <2> QED BY <1>2, <1>3, <1>8, <2>1, <2>2, RowsAre, RowsAreNext
  <1>13. Independent
    BY <1>1, <1>12 DEF Independent
  <1> QED BY <1>8, <1>11, <1>13 DEF Inv

\* Stop and restart: the caches go, the names stay.
LEMMA StopStep ==
    ASSUME Inv, Stop \/ Restart
    PROVE  Inv' /\ Independent
  <1>1. /\ opened_tables' = Empty /\ opened_version_logs' = Empty
        /\ opened_indexes' = Empty \/ UNCHANGED opened_indexes
        /\ UNCHANGED <<dirs, meta, path, reused>> /\ started' \in BOOLEAN /\ Reclaim
    BY Zenon DEF Stop, Restart, Inv, Files, HandlesAreCurrent, TypeOK
  <1>2. Files /\ Lookups
    BY DEF Inv
  <1>3. DOMAIN Empty = {}
    BY DEF Empty
  <1>4. Shrunk
    BY <1>1, <1>3 DEF Shrunk
  <1>5. Catalog' /\ TablesCurrent' /\ LogsCurrent'
    BY <1>1, <1>2, <1>3 DEF Catalog, TablesCurrent, LogsCurrent, Files, HandlesAreCurrent, TypeOK, Range, Dbs
  <1>6. Files' /\ \A kind, p : Content(kind, p)' = Content(kind, p)
    BY <1>1, <1>2, <1>4, <1>5, ShrunkFiles
  <1>7. ASSUME NEW q \in DOMAIN meta', q \notin reused' PROVE Own(q)'
    <2>1. Own(q) /\ meta'[q] = meta[q] /\ DOMAIN meta' \subseteq DOMAIN meta
      BY <1>1, <1>2, <1>7 DEF Lookups
    <2>2. \A kind \in Kinds : FilePath(kind, q) \in DOMAIN path => FilePath(kind, q) \in DOMAIN path'
      BY <1>1
    <2> QED BY <1>2, <1>4, <1>5, <2>1, <2>2, ShrunkOwn
  <1>8. Lookups'
    BY <1>7 DEF Lookups
  <1>9. Independent
    BY <1>1, <1>2, <1>6, OneTableChanges
  <1> QED BY <1>6, <1>8, <1>9 DEF Inv

\* Steps that change neither names nor files nor caches.
LEMMA QuietStep ==
    ASSUME Inv, UNCHANGED <<meta, path, file, cache, reused>>, started' \in BOOLEAN, dirs' \subseteq Dbs
    PROVE  Inv' /\ Independent
  <1>1. UNCHANGED <<meta, path, file, opened_tables, opened_version_logs, opened_indexes, reused>>
    BY DEF cache
  <1>2. InUse' = InUse
    BY <1>1 DEF InUse
  <1>3. Files'
    <2>1. TypeOK'
      BY <1>1 DEF Inv, Files, HandlesAreCurrent, TypeOK, Inodes, Kinds, Range, Dbs
    <2> QED BY <1>1, <1>2, <2>1 DEF Inv, Files, HandlesAreCurrent, HeapFiles, Named, Indexed, Freed, Of,
                                    Inodes, Kinds, IndexName, FilePath, Empty
  <1>4. \A kind, p : Content(kind, p)' = Content(kind, p)
    BY <1>1 DEF Content, FilePath, Empty
  <1>5. Lookups'
    <2>1. ASSUME NEW p \in DOMAIN meta' \ reused' PROVE Own(p)'
      <3>1. Own(p)
        BY <1>1, <2>1 DEF Inv, Lookups
      <3>2. (\A q \in DOMAIN meta : IndexName(q) = IndexName(p) => q = p)'
        BY <1>1, <3>1, Zenon DEF Own, IndexName
      <3>3. ManagerKnows(p)' <=> ManagerKnows(p)
        BY <1>1, Zenon DEF ManagerKnows, IndexName
      <3>4. IndexName(p)' = IndexName(p) /\ FilePath("idx", p)' = FilePath("idx", p)
        BY Zenon DEF IndexName, FilePath
      <3>5. InStep(Content("tbl", p), Content("idx", p))' <=> InStep(Content("tbl", p), Content("idx", p))
        BY <1>4, Zenon DEF InStep
      <3> QED BY <1>1, <3>1, <3>2, <3>3, <3>4, <3>5, Zenon DEF Own
    <2> QED BY <2>1, Zenon DEF Lookups
  <1>6. Independent
    BY <1>1, <1>3, <1>4, OneTableChanges DEF Inv
  <1> QED BY <1>3, <1>5, <1>6 DEF Inv

\* Every step keeps the invariant and changes one table at most.
LEMMA Step == Inv /\ [Next]_vars => Inv' /\ Independent
  <1> SUFFICES ASSUME Inv, [Next]_vars PROVE Inv' /\ Independent
    OBVIOUS
  <1>1. Files /\ started \in BOOLEAN /\ dirs \subseteq Dbs
    BY DEF Inv, Files, HandlesAreCurrent, TypeOK
  <1>2. CASE UNCHANGED vars
    <2>1. UNCHANGED <<meta, path, file, cache, reused>> /\ UNCHANGED <<started, dirs>>
      BY <1>2 DEF vars, disk
    <2> QED BY <1>1, <2>1, QuietStep
  <1>3. ASSUME NEW d \in Dbs, CreateDatabase(d), ~UNCHANGED vars PROVE Inv' /\ Independent
    <2>1. UNCHANGED <<started, meta, path, file, cache, reused>> /\ dirs' = dirs \cup {d}
      BY <1>3 DEF CreateDatabase, Fail
    <2> QED BY <1>1, <2>1, QuietStep
  <1>4. ASSUME NEW p \in Layout, ScanTable(p), ~UNCHANGED vars PROVE Inv' /\ Independent
    <2>1. /\ TableFound(p) /\ OpenFiles(p, FALSE)
          /\ UNCHANGED <<started, dirs, meta, file, opened_indexes, reused>>
      BY <1>4, Zenon DEF ScanTable, Fail
    <2>2. p \in DOMAIN meta
      BY <1>1, <2>1, FoundIsKnown
    <2> QED BY <2>1, <2>2, OpenTouches, TouchStep, Zenon
  <1>5. ASSUME NEW p \in Layout, NEW k \in Keys, IndexScan(p, k), ~UNCHANGED vars PROVE Inv' /\ Independent
    <2>1. /\ p \in DOMAIN meta /\ UNCHANGED <<started, dirs, meta, file, opened_indexes, reused>>
          /\ OpenFiles(p, FALSE) \/ UNCHANGED <<path, opened_tables, opened_version_logs>>
      BY <1>5, Zenon DEF IndexScan, Fail
    <2>2. CASE OpenFiles(p, FALSE)
      BY <2>1, <2>2, OpenTouches, TouchStep, Zenon
    <2>3. CASE UNCHANGED <<path, opened_tables, opened_version_logs>>
      BY <1>1, <2>1, <2>3, QuietStep DEF cache
    <2> QED BY <2>1, <2>2, <2>3, Zenon
  <1>6. ASSUME NEW p \in Layout, NEW k \in Keys, InsertKey(p, k), ~UNCHANGED vars PROVE Inv' /\ Independent
    BY <1>6, InsertTouches, TouchStep
  <1>7. ASSUME NEW p \in Layout, NEW r \in 1..MaxRows, DeleteRow(p, r), ~UNCHANGED vars PROVE Inv' /\ Independent
    BY <1>7, DeleteTouches, TouchStep
  <1>8. CASE Start
    BY <1>1, <1>8, QuietStep DEF Start, disk
  <1> QED BY <1>2, <1>3, <1>4, <1>5, <1>6, <1>7, <1>8, DropDatabaseStep, CreateTableStep, DropTableStep, StopStep
          DEF Next

\* The node starts with nothing on disk and nothing open.
LEMMA InitInv == Init => Inv
  <1> SUFFICES ASSUME Init PROVE Inv
    OBVIOUS
  <1>1. DOMAIN Empty = {} /\ Empty \in Seq(Keys \cup {Dead}) /\ Len(Empty) = 0
    BY DEF Empty
  <1>2. TypeOK /\ HeapFiles
    <2> HIDE DEF Empty
    <2> QED BY <1>1, StorageNodeAssumption DEF Init, TypeOK, HeapFiles, Range
  <1>3. HandlesAreCurrent /\ Named /\ Indexed /\ Freed /\ Lookups
    <2> HIDE DEF Empty
    <2> QED BY <1>1, <1>2 DEF Init, HandlesAreCurrent, Named, Indexed, Freed, Lookups
  <1> QED BY <1>2, <1>3 DEF Inv, Files

LEMMA Invariance == Spec => []Inv
  BY InitInv, Step, PTL DEF Spec

-----------------------------------------------------------------------------
(* Theorems.                                                               *)

\* Cached handles are current: StorageNodeEngine never reads or writes a table
\* or a version log through a handle on a file that is no longer the one its
\* name stands for, nor by a descriptor that is no longer the catalog's.
THEOREM HandlesStayCurrent == Spec => []HandlesAreCurrent
  <1>1. Inv => HandlesAreCurrent
    BY DEF Inv, Files
  <1> QED BY <1>1, Invariance, PTL

\* A lookup through an open index finds the rows a scan finds, for every table
\* whose index name and files have been its own only.
THEOREM LookupsAgree == Spec => []LookupAgreesWithScan
  <1>1. Inv => LookupAgreesWithScan
    <2> SUFFICES ASSUME Inv, NEW p \in DOMAIN meta \ reused, meta[p], NEW k \in Keys
                 PROVE  FoundByIndex(p, k) = FoundByScan(p, k)
      BY DEF LookupAgreesWithScan
    <2>1. p \in Layout
      BY DEF Inv, Files, HandlesAreCurrent, TypeOK
    <2>2. InStep(Rows(p), Tree(p))
      BY <2>1, OwnTree
    <2> QED BY <2>2 DEF InStep, FoundByIndex, FoundByScan, LiveRows
  <1> QED BY <1>1, Invariance, PTL

\* No call changes what scans of two tables return, unless it drops the database
\* of both.
THEOREM ScansStayIndependent == Spec => ScansIndependent
  <1>1. Inv /\ [Next]_vars => [Independent]_vars
    BY Step
  <1>2. Spec => [][Independent]_vars
    BY <1>1, Invariance, PTL DEF Spec
  <1> QED BY <1>2 DEF ScansIndependent, Independent
=============================================================================
