------------------------------ MODULE RowStore ------------------------------
(***************************************************************************)
(* RowStore over its PageManager: one page file with a metadata page and   *)
(* data pages.  Insert puts a row into the first page with room; every     *)
(* other change loads all rows, edits the list and repacks all pages.      *)
(*                                                                         *)
(* A row has a tuple of some serialized size, and a page has room for      *)
(* Capacity of them beside its header.  Every page write succeeds; there   *)
(* is no recovery log and no crash here (see the README's limitations).    *)
(***************************************************************************)
EXTENDS Integers, SequencesExt

CONSTANTS Tuples,
          SizeOf,    \* tuple -> size of its row entry
          Capacity,  \* payload of a data page
          MaxRid     \* bound: row ids used

ASSUME RowStoreAssumption ==
    /\ SizeOf \in [Tuples -> Nat \ {0}]
    /\ Capacity \in Nat \ {0} /\ MaxRid \in Nat

VARIABLES file,    \* the page file: its data pages and its metadata page, or NoFile
          open,    \* is_open_
          next,    \* next_row_id_
          count,   \* data_page_count_
          active   \* active_row_count_

vars == <<file, open, next, count, active>>

NoFile == [pages |-> <<>>, meta |-> <<>>]
Meta(n, c, a) == <<n, c, a>>

-----------------------------------------------------------------------------
(* Pages.  A data page is the list of its rows.                            *)

UsedBytes(rows) == FoldLeft(LAMBDA sum, row : sum + SizeOf[row.tuple], 0, rows)

HasRoom(rows, t) == UsedBytes(rows) + SizeOf[t] <= Capacity

LoadAllRows == FlattenSeq(SubSeq(file.pages, 1, count))

FindRowIndexById(rows, r) == SelectInSeq(rows, LAMBDA row : row.rid = r)

\* FindPageWithFreeSpace: the ordinal of the first page with room, or a new one
FindPageWithFreeSpace(t) ==
    LET p == SelectInSeq(SubSeq(file.pages, 1, count), LAMBDA rows : HasRoom(rows, t))
    IN  IF p = 0 THEN count + 1 ELSE p

\* The rows in their order, a new batch wherever the next one does not fit.
Pack(rows) ==
    FoldLeft(LAMBDA batches, row :
                 IF HasRoom(Last(batches), row.tuple)
                 THEN ReplaceAt(batches, Len(batches), Append(Last(batches), row))
                 ELSE Append(batches, <<row>>),
             <<<<>>>>, rows)

\* mutant: repacking leaves the tombstones behind
LiveBatches(rows) == Pack(SelectSeq(rows, LAMBDA row : ~row.deleted))

PageBatches(rows) == IF rows = <<>> THEN <<>> ELSE Pack(rows)

\* a change ends with the metadata page
WriteMetadataPage(pages, n, c, a) == [pages |-> pages, meta |-> Meta(n, c, a)]

\* The batches go to the first pages, allocated if need be, and the pages
\* beyond them are blanked.  Pages are never given back.
RewriteAllRows(rows, n, a) ==
    LET batches == PageBatches(rows)
        c == IF Len(batches) > count THEN Len(batches) ELSE count
        pages == [i \in 1..c |-> IF i <= Len(batches) THEN batches[i] ELSE <<>>]
    IN  /\ file' = WriteMetadataPage(pages, n, c, a)
        /\ count' = c
        /\ next' = n
        /\ active' = a

-----------------------------------------------------------------------------
Init ==
    /\ file = NoFile
    /\ open = FALSE
    /\ next = 0 /\ count = 0 /\ active = 0

\* PageManager::Open and InitializeStore for a new file, else the metadata page
Open ==
    /\ ~open
    /\ open' = TRUE
    /\ IF file = NoFile
       THEN /\ file' = [pages |-> <<>>, meta |-> Meta(0, 0, 0)]
            /\ next' = 0 /\ count' = 0 /\ active' = 0
       ELSE /\ next' = file.meta[1] /\ count' = file.meta[2] /\ active' = file.meta[3]
            /\ UNCHANGED file

\* the engine's caches are cleared: the object goes, the file stays
Close ==
    /\ open
    /\ open' = FALSE
    /\ next' = 0 /\ count' = 0 /\ active' = 0
    /\ UNCHANGED file

\* a row that fits no page is refused before anything changes
Storable(t) == SizeOf[t] <= Capacity

Insert(t) ==
    LET p == FindPageWithFreeSpace(t)
        row == [rid |-> next, tuple |-> t, deleted |-> FALSE]
        pages == IF p <= count THEN [file.pages EXCEPT ![p] = Append(@, row)]
                 ELSE Append(file.pages, <<row>>)
        c == IF p <= count THEN count ELSE count + 1
    IN  /\ open /\ next < MaxRid
        /\ Storable(t)
        /\ file' = WriteMetadataPage(pages, next + 1, c, active + 1)
        /\ next' = next + 1 /\ count' = c /\ active' = active + 1
        /\ UNCHANGED open

Update(r, t) ==
    LET rows == LoadAllRows
        i == FindRowIndexById(rows, r)
    IN  /\ open
        /\ i # 0
        /\ ~rows[i].deleted
        /\ Storable(t)
        /\ RewriteAllRows([rows EXCEPT ![i].tuple = t], next, active)
        /\ UNCHANGED open

\* a row that is not there is an error, a deleted one is left alone
IsLiveRow(rows, i) == i # 0 /\ ~rows[i].deleted

Delete(r) ==
    LET rows == LoadAllRows
        i == FindRowIndexById(rows, r)
    IN  /\ open
        /\ IsLiveRow(rows, i)
        /\ RewriteAllRows([rows EXCEPT ![i].deleted = TRUE], next, active - 1)
        /\ UNCHANGED open

\* mutant: the allocator ignores the restored id
NextStays(r) == next

\* the allocator stays beyond every id
NextBeyond(r) == IF r < next THEN next ELSE r + 1

\* Restored tuples were rows before, so they are storable.
Restore(r, t) ==
    LET rows == LoadAllRows
        i == FindRowIndexById(rows, r)
        row == [rid |-> r, tuple |-> t, deleted |-> FALSE]
    IN  /\ open
        /\ Storable(t)
        /\ IF i # 0
           THEN RewriteAllRows([rows EXCEPT ![i] = row], NextBeyond(r),
                               IF rows[i].deleted THEN active + 1 ELSE active)
           ELSE RewriteAllRows(Append(rows, row), NextBeyond(r), active + 1)
        /\ UNCHANGED open

Next ==
    \/ Open
    \/ Close
    \/ \E t \in Tuples : Insert(t)
    \/ \E r \in 0..(MaxRid - 1), t \in Tuples : Update(r, t) \/ Restore(r, t)
    \/ \E r \in 0..(MaxRid - 1) : Delete(r)

Spec == Init /\ [][Next]_vars

-----------------------------------------------------------------------------
AllRows == ToSet(FlattenSeq(file.pages))

TypeOK ==
    /\ AllRows \subseteq [rid : 0..(MaxRid - 1), tuple : Tuples, deleted : BOOLEAN]
    /\ open \in BOOLEAN
    /\ next \in 0..MaxRid /\ count \in Nat /\ active \in Nat

\* Every page can be read back, its rows fitting beside the header.  The three
\* counters describe the pages exactly, and the metadata page has them between
\* any two calls: the store may be closed at any time.  Ids are unique and the
\* allocator is beyond all of them, for any order of inserts, restores of
\* unknown ids, deletes and reopenings.
PagesSound ==
    /\ TypeOK
    /\ \A p \in DOMAIN file.pages : UsedBytes(file.pages[p]) <= Capacity
    /\ open =>
        /\ file.meta = Meta(next, count, active)
        /\ count = Len(file.pages)
        /\ active = Cardinality({row \in AllRows : ~row.deleted})
        /\ Cardinality(AllRows) = Len(FlattenSeq(file.pages))
        /\ \A row, other \in AllRows : row.rid = other.rid => row = other
        /\ \A row \in AllRows : row.rid < next

\* The store implements the map of HeapRows: repacking moves rows between pages
\* and neither loses, duplicates nor changes any row but the one addressed, and
\* reopening changes nothing.
RowOf(r) == CHOOSE row \in AllRows : row.rid = r
RowMap == [r \in {row.rid : row \in AllRows} |->
              [tuple |-> RowOf(r).tuple, deleted |-> RowOf(r).deleted]]
NextId == IF file = NoFile THEN 0 ELSE file.meta[1]
HR == INSTANCE HeapRows WITH rows <- RowMap, next <- NextId

ImplementsHeapRows == HR!Spec
=============================================================================
