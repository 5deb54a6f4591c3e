----------------------------- MODULE Statements -----------------------------
(***************************************************************************)
(* INSERT, SELECT, UPDATE and DELETE on one table, from the tokens of the  *)
(* statement to its answer: QueryProcessor::Execute parses, binds and      *)
(* plans it, the executor then calls the engine row by row, and the first  *)
(* error ends the statement with what was done so far left as it is.       *)
(*                                                                         *)
(* Statements come one at a time: nothing in the engine takes a lock.      *)
(***************************************************************************)
EXTENDS IndexedHeap

CONSTANTS Schema,          \* the columns: name, type, notNull, indexed, default
          Values,          \* what a column may hold besides NULL
          Statements,      \* what clients may send
          MaxRows          \* bound: rows ever inserted

\* The language of conditions, see module Conditions.
CONSTANTS Parse(_, _),     \* tokens, and whether there may be none, to ok and expr
          ColumnsKnown(_), \* the binder finds the columns of the condition
          IndexColumn(_),  \* the column whose index the planner chooses, "" for none
          IndexKey(_),     \* the key the executor looks up in it
          KeyFits(_),      \* the condition compares that column with that key
          Matches(_, _)    \* the condition on a tuple: "yes", "no" or "error"

Column == DOMAIN Schema
Tuple == [Column -> Values \cup {Null}]

\* TableSchema::FindColumn, which returns -1 for none
FindColumn(c) == IF \E i \in Column : Schema[i].name = c
                 THEN CHOOSE i \in Column : Schema[i].name = c ELSE 0

Condition(s) == Parse(s.where, s.kind \in {"select", "insert"})
NoWhere == Parse(<<>>, TRUE).expr

\* What CREATE TABLE accepts; indexed columns come first, in the order of the schema.
ASSUME SchemaAssumption ==
    /\ MaxRows \in Nat /\ Indexes \subseteq Column
    /\ \A i, j \in Column : Schema[i].name = Schema[j].name => i = j
    /\ \A i \in Column : /\ Schema[i].indexed <=> i \in Indexes
                         /\ Schema[i].indexed => Schema[i].notNull
                         /\ Schema[i].default \in Values \cup {Null}
                         /\ Schema[i].default # Null => Schema[i].default.type = Schema[i].type

\* What the grammar accepts outside WHERE.
ASSUME StatementsAssumption ==
    \A s \in Statements :
        /\ s.kind \in {"insert", "select", "update", "delete"}
        /\ s.columns \in Seq(STRING)
        /\ s.rows \in Seq(Seq(Values \cup {Null}))
        /\ s.set \in Seq([name : STRING, value : Values \cup {Null}])

\* An index is chosen for a column that has one.  With the right key it is enough
\* to look at the row that has this key: no other satisfies the condition.
ASSUME ConditionsAssumption ==
    \A s \in Statements :
        LET e == Condition(s).expr
            column == FindColumn(IndexColumn(e))
        IN  IndexColumn(e) # "" =>
                /\ column \in Indexes
                /\ KeyFits(e) => \A t \in Tuple : Matches(e, t) = "yes" => t[column] = IndexKey(e)

VARIABLES stmt,     \* the statement, NoStatement between two
          where,    \* its condition as parsed
          phase,    \* "idle", "run" or "answered"
          rows,     \* what the executor loops over: rows read at the start, or values to insert
          next,     \* the position of the loop
          answer,   \* the QueryResult
          before,   \* history: the table when the statement came
          torn      \* history: some change failed with heap and indexes half done

statementVars == <<heap, index, stmt, where, phase, rows, next, answer, before, torn>>

NoStatement == [kind |-> "none"]
NoAnswer == [ok |-> FALSE, rows |-> <<>>, affected |-> 0]

-----------------------------------------------------------------------------
(* The binder and the planner.                                             *)

MayBeNull(column) == ~column.notNull /\ ~column.indexed

CheckValueType(column, v) == IF v = Null THEN MayBeNull(column) ELSE v.type = column.type

Known(names) == \A i \in DOMAIN names : FindColumn(names[i]) # 0

BindInsert(s) ==
    /\ s.columns # <<>> /\ Known(s.columns)
    /\ \A r \in DOMAIN s.rows :
          /\ Len(s.rows[r]) = Len(s.columns)
          /\ \A i \in DOMAIN s.columns :
                CheckValueType(Schema[FindColumn(s.columns[i])], s.rows[r][i])
    /\ \A c \in Column : MayBeNull(Schema[c]) \/ \E i \in DOMAIN s.columns : FindColumn(s.columns[i]) = c

BindUpdate(s) ==
    \A i \in DOMAIN s.set :
        /\ FindColumn(s.set[i].name) # 0
        /\ CheckValueType(Schema[FindColumn(s.set[i].name)], s.set[i].value)

Bind(s, condition) ==
    /\ s.kind = "select" => Known(s.columns)
    /\ s.kind = "insert" => BindInsert(s)
    /\ s.kind = "update" => BindUpdate(s)
    /\ ColumnsKnown(condition)

\* only SELECT uses an index
UsesIndex(s, condition) == s.kind = "select" /\ IndexColumn(condition) # ""

\* the members of a finite set of numbers in their order
Rank(S, r) == Cardinality({q \in S : q <= r})
InOrder(S) == [i \in 1..Cardinality(S) |-> CHOOSE r \in S : Rank(S, r) = i]

RowOf(r) == [rid |-> r, tuple |-> heap[r].tuple]

\* ScanTable: the live rows in the order of their ids
ScanTable == LET ids == InOrder(LiveRows(heap)) IN [i \in DOMAIN ids |-> RowOf(ids[i])]

\* BStarTree::Find refuses keys that are not of the column's type.
CanFind(c, key) == key # Null /\ key.type = Schema[c].type

\* the one row that the index has for the key, if the scan finds it
Find(c, key) ==
    IF key \in DOMAIN index[c] /\ IsLive(heap, index[c][key]) THEN <<RowOf(index[c][key])>>
    ELSE <<>>

-----------------------------------------------------------------------------
StatementInit ==
    /\ heap = [r \in {} |-> <<>>]
    /\ index = [c \in Indexes |-> [k \in {} |-> 0]]
    /\ stmt = NoStatement /\ where = NoWhere /\ phase = "idle"
    /\ rows = <<>> /\ next = 1 /\ answer = NoAnswer
    /\ before = Table(heap) /\ torn = FALSE

\* an error leaves nothing of the result
Answer(ok) ==
    /\ phase' = "answered"
    /\ answer' = IF ok THEN [answer EXCEPT !.ok = TRUE] ELSE NoAnswer

\* QueryProcessor::Execute up to the executor's loop.
Execute(s) ==
    /\ phase = "idle"
    /\ s.kind = "insert" => NextRid + Len(s.rows) <= MaxRows
    /\ stmt' = s
    /\ before' = Table(heap)
    /\ next' = 1
    /\ LET parsed == Condition(s)
           condition == parsed.expr
           column == FindColumn(IndexColumn(condition))
           key == IndexKey(condition)
       IN  /\ where' = condition
           /\ IF ~parsed.ok \/ ~Bind(s, condition)
                 \/ (UsesIndex(s, condition) /\ ~CanFind(column, key))
              THEN Answer(FALSE) /\ rows' = <<>>
              ELSE /\ phase' = "run"
                   /\ rows' = IF s.kind = "insert" THEN s.rows
                              ELSE IF UsesIndex(s, condition) THEN Find(column, key)
                              ELSE ScanTable
                   /\ UNCHANGED answer
    /\ UNCHANGED <<heap, index, torn>>

-----------------------------------------------------------------------------
(* The loops of the executors, a row at a step.                            *)

Running(kind) == phase = "run" /\ next <= Len(rows) /\ stmt.kind = kind

NextRow(affected) ==
    /\ next' = next + 1
    /\ answer' = [answer EXCEPT !.affected = @ + affected]
    /\ phase' = phase

\* TableStorage::NormalizeTuple
ValidateTuple(t) == \A c \in Column : IF t[c] = Null THEN ~Schema[c].notNull
                                      ELSE t[c].type = Schema[c].type

Validated(t, res) == IF ValidateTuple(t) THEN res ELSE Failed

\* mutant: a row that the engine refuses is passed over
EngineCallSkips(res) ==
    /\ heap' = res.heap
    /\ index' = res.index
    /\ torn' = (torn \/ (~res.ok /\ res # Failed))
    /\ NextRow(IF res.ok THEN 1 ELSE 0)

\* one call of the engine, and what the loop does with its status
EngineCall(res) ==
    /\ heap' = res.heap
    /\ index' = res.index
    /\ torn' = (torn \/ (~res.ok /\ res # Failed))
    /\ IF res.ok THEN NextRow(1) ELSE Answer(FALSE) /\ next' = next

PositionsOf(names, c) == {i \in DOMAIN names : FindColumn(names[i]) = c}

\* A column that is not given, or given as NULL, has its default.
BuildTuple(names, values) ==
    [c \in Column |->
        LET given == {i \in PositionsOf(names, c) : values[i] # Null}
        IN  IF given = {} THEN Schema[c].default ELSE values[CHOOSE i \in given : TRUE]]

CanBuild(names, values) ==
    /\ \A c \in Column : Cardinality(PositionsOf(names, c)) <= 1
    /\ \A c \in Column : MayBeNull(Schema[c]) \/ BuildTuple(names, values)[c] # Null

InsertRow ==
    /\ Running("insert")
    /\ LET t == BuildTuple(stmt.columns, rows[next])
       IN  IF CanBuild(stmt.columns, rows[next]) THEN EngineCall(Validated(t, InsertInternal(t)))
           ELSE Answer(FALSE) /\ UNCHANGED <<heap, index, torn, next>>
    /\ UNCHANGED <<stmt, where, rows, before>>

\* the later of two assignments to a column counts
Assigned(t) ==
    [c \in Column |->
        LET to == {i \in DOMAIN stmt.set : FindColumn(stmt.set[i].name) = c}
        IN  IF to = {} THEN t[c] ELSE stmt.set[CHOOSE i \in to : \A j \in to : j <= i].value]

Match(t) == Matches(where, t)

\* What every loop over rows does with a row that it does not act on.
SkipRow ==
    /\ phase = "run" /\ next <= Len(rows) /\ stmt.kind # "insert"
    /\ Match(rows[next].tuple) # "yes"
    /\ IF Match(rows[next].tuple) = "error" THEN Answer(FALSE) /\ next' = next ELSE NextRow(0)
    /\ UNCHANGED <<heap, index, stmt, where, rows, before, torn>>

UpdateRow ==
    /\ Running("update")
    /\ Match(rows[next].tuple) = "yes"
    /\ LET t == Assigned(rows[next].tuple)
       IN  EngineCall(Validated(t, UpdateInternal(rows[next].rid, t)))
    /\ UNCHANGED <<stmt, where, rows, before>>

DeleteRow ==
    /\ Running("delete")
    /\ Match(rows[next].tuple) = "yes"
    /\ EngineCall(DeleteInternal(rows[next].rid))
    /\ UNCHANGED <<stmt, where, rows, before>>

ProjectRow(s, t) == [i \in DOMAIN s.columns |-> t[FindColumn(s.columns[i])]]

\* mutant: what the index finds is taken to satisfy the whole condition
SelectRowTrustingIndex ==
    /\ Running("select")
    /\ Match(rows[next].tuple) = "yes" \/ UsesIndex(stmt, where)
    /\ answer' = [answer EXCEPT !.rows = Append(@, ProjectRow(stmt, rows[next].tuple)),
                                !.affected = @ + 1]
    /\ next' = next + 1
    /\ UNCHANGED <<heap, index, stmt, where, phase, rows, before, torn>>

SelectRow ==
    /\ Running("select")
    /\ Match(rows[next].tuple) = "yes"
    /\ answer' = [answer EXCEPT !.rows = Append(@, ProjectRow(stmt, rows[next].tuple)),
                                !.affected = @ + 1]
    /\ next' = next + 1
    /\ UNCHANGED <<heap, index, stmt, where, phase, rows, before, torn>>

Finish ==
    /\ phase = "run" /\ next > Len(rows)
    /\ Answer(TRUE)
    /\ UNCHANGED <<heap, index, stmt, where, rows, next, before, torn>>

\* the client has its answer
Done ==
    /\ phase = "answered"
    /\ stmt' = NoStatement /\ where' = NoWhere /\ phase' = "idle"
    /\ rows' = <<>> /\ next' = 1 /\ answer' = NoAnswer
    /\ before' = Table(heap)
    /\ UNCHANGED <<heap, index, torn>>

StatementNext ==
    \/ \E s \in Statements : Execute(s)
    \/ InsertRow
    \/ SkipRow
    \/ UpdateRow
    \/ DeleteRow
    \/ SelectRow
    \/ Finish
    \/ Done

StatementSpec == StatementInit /\ [][StatementNext]_statementVars

-----------------------------------------------------------------------------
Answered(kind) == phase = "answered" /\ stmt.kind = kind

\* A condition means what it was written to mean: AND binds more strongly than
\* OR, both group to the left, the AND of BETWEEN is not taken for a conjunction,
\* and what is not a condition is refused.  (stmt.means is the tree the tokens
\* were written from, NoWhere for tokens that are no condition.)
ParsesAsWritten ==
    phase # "idle" => /\ where = stmt.means
                      /\ (stmt.means = NoWhere /\ stmt.where # <<>>) => phase = "answered" /\ ~answer.ok

MatchingRows == {r \in LiveRows(heap) : Match(heap[r].tuple) = "yes"}

\* A SELECT returns the rows that satisfy its condition, each once and in the
\* order of the table, whether it scans the table or goes through an index.
\* Through an index it can miss rows in two cases, and even then it returns none
\* that does not satisfy the condition: when the first equality of the condition
\* is on another column than the index, and when an earlier statement has failed
\* with a row stored but not indexed.
SelectAnswers ==
    Answered("select") /\ answer.ok =>
        LET wanted == InOrder(MatchingRows)
            projected == [i \in DOMAIN wanted |-> ProjectRow(stmt, heap[wanted[i]].tuple)]
        IN  IF ~torn /\ (UsesIndex(stmt, where) => KeyFits(where)) THEN answer.rows = projected
            ELSE \/ answer.rows = projected
                 \/ UsesIndex(stmt, where) /\ Len(answer.rows) <= 1
                    /\ \A i \in DOMAIN answer.rows : \E j \in DOMAIN projected : answer.rows[i] = projected[j]

\* the satisfying rows among the first n that the loop meets
Acted(n) == {rows[i].rid : i \in {j \in 1..n : Match(rows[j].tuple) = "yes"}}

\* what the table must be once the statement has acted on them
Effect(n) ==
    CASE stmt.kind = "update" ->
            [r \in DOMAIN before |-> IF r \in Acted(n) THEN Assigned(before[r]) ELSE before[r]]
      [] stmt.kind = "delete" -> [r \in DOMAIN before \ Acted(n) |-> before[r]]
      [] OTHER -> before

\* the rows that an INSERT has added
Added == [r \in LiveRows(heap) \ DOMAIN before |-> heap[r].tuple]

\* An UPDATE or DELETE that succeeds has changed exactly the rows that satisfied
\* its condition when it began, whatever it did to them on the way, and counts
\* them.  One that fails has done so to the matching rows of a first part of the
\* table and touched no row after it.  An INSERT has added its first rows in
\* order, all of them if it succeeds.  A statement that was not run, and a
\* SELECT, change nothing.
StatementEffect ==
    phase = "answered" =>
        \E n \in 0..Len(rows) :
            /\ answer.ok => n = Len(rows)
            /\ [r \in LiveRows(heap) \cap DOMAIN before |-> heap[r].tuple] = Effect(n)
            /\ answer.ok /\ stmt.kind \in {"update", "delete"} =>
                  /\ Acted(n) = {r \in DOMAIN before : Match(before[r]) = "yes"}
                  /\ answer.affected = Cardinality(Acted(n))
            /\ IF stmt.kind # "insert" THEN DOMAIN Added = {}
               ELSE Added = [r \in (NextRid - n)..(NextRid - 1) |->
                               BuildTuple(stmt.columns, rows[r - (NextRid - n) + 1])]

\* Every stored row obeys the schema: values of the column's type and NULL only
\* where it is allowed, and, until a statement has failed halfway through a row,
\* no two rows with the same value in an indexed column.
ConstraintsHold ==
    /\ \A r \in LiveRows(heap) : \A c \in Column : CheckValueType(Schema[c], heap[r].tuple[c])
    /\ ~torn => \A r, q \in LiveRows(heap), c \in Indexes :
                  heap[r].tuple[c] = heap[q].tuple[c] => r = q
=============================================================================
