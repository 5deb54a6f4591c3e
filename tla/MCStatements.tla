---------------------------- MODULE MCStatements ----------------------------
(***************************************************************************)
(* An instance of Statements for TLC: a table (id INT INDEXED, age INT,    *)
(* name STRING with a default), conditions of up to three comparisons that *)
(* include errors which depend on the row, keys of the wrong type and      *)
(* column, and text that is no condition.                                  *)
(***************************************************************************)
EXTENDS Statements, TLC

CONSTANT RegexMatch(_, _)

INSTANCE Conditions

Num(n) == [type |-> "int", n |-> n]
Str(n) == [type |-> "string", n |-> n]

MCValues == {Num(n) : n \in 1..3} \cup {Str(n) : n \in 1..2}

MCSchema == <<[name |-> "id", type |-> "int", notNull |-> TRUE, indexed |-> TRUE, default |-> Null],
              [name |-> "age", type |-> "int", notNull |-> FALSE, indexed |-> FALSE, default |-> Null],
              [name |-> "name", type |-> "string", notNull |-> FALSE, indexed |-> FALSE,
               default |-> Str(1)]>>

\* pattern 2 is not a regular expression; the others match the equal string only
MCRegexMatch(v, p) == IF p.n = 2 THEN "error" ELSE IF v.n = p.n THEN "yes" ELSE "no"

Eq(c, v) == Binary("=", Col(c), Lit(v))

Plain == {Eq("id", Num(1)), Eq("age", Num(2)), Eq("age", Str(1)),
          Between(Col("age"), Lit(Num(1)), Lit(Num(2)))}

Single == Plain \cup
          {Binary("=", Lit(Num(2)), Col("id")), Eq("id", Null), Eq("id", Str(1)),
           Binary("=", Col("age"), Col("id")), Binary("!=", Col("id"), Lit(Num(1))),
           Binary("<=", Col("id"), Lit(Num(1))), Binary(">", Col("id"), Lit(Num(1))),
           Like(Col("name"), Lit(Str(1))), Like(Col("name"), Lit(Str(2))),
           Like(Col("age"), Lit(Str(1))), Eq("size", Num(1))}

Pairs == UNION {{Logical(op, l, r) : r \in Plain \ {l}} : op \in {"AND", "OR"}, l \in Plain}

Triples ==
    LET l == Eq("age", Num(2))  m == Between(Col("id"), Lit(Num(1)), Lit(Num(2)))  r == Eq("id", Num(2))
    IN  {Logical(p, l, Logical(q, m, r)) : p \in {"AND", "OR"}, q \in {"AND", "OR"}} \cup
        {Logical(p, Logical(q, l, m), r) : p \in {"AND", "OR"}, q \in {"AND", "OR"}}

\* Text that is no condition.
Malformed == {<<Col("id"), Word("=")>>,
              <<Word("("), Col("id"), Word("="), Lit(Num(1))>>,
              <<Col("id"), Word("="), Lit(Num(1)), Lit(Num(1))>>,
              <<Col("id"), Word("BETWEEN"), Lit(Num(1))>>,
              <<Col("id"), Word("="), Lit(Num(1)), Word("OR")>>}

Text(e) == [where |-> Written(e), means |-> e]
NoText == [where |-> <<>>, means |-> NoCondition]

Texts == {Text(e) : e \in Single \cup Pairs \cup Triples}
         \cup {[where |-> t, means |-> NoCondition] : t \in Malformed} \cup {NoText}
         \cup {[where |-> <<Col("id"), Word("="), Word("AND")>>,
                means |-> Binary("=", Col("id"), Col("AND"))]}

\* for the statements that change rows: conditions that select some of the
\* rows, or fail on some, depending on their values
Selective == {Text(e) : e \in Plain \cup {Logical("OR", Eq("age", Str(1)), Eq("id", Num(2))),
                                          Logical("AND", Eq("age", Num(1)), Eq("name", Null)),
                                          Binary(">", Col("id"), Lit(Num(1))),
                                          Eq("name", Str(1)), Eq("size", Num(1))}}
             \cup {NoText}

Stmt(kind, columns, values, set, text) ==
    [kind |-> kind, columns |-> columns, rows |-> values, set |-> set,
     where |-> text.where, means |-> text.means]

All == <<"id", "age", "name">>

Sets == {<<[name |-> "id", value |-> Num(2)]>>,
         <<[name |-> "age", value |-> Null], [name |-> "age", value |-> Num(2)]>>,
         <<[name |-> "id", value |-> Null]>>,
         <<[name |-> "age", value |-> Str(1)]>>}

Inserts ==
    {Stmt("insert", <<"id", "age">>, <<v>>, <<>>, NoText) :
        v \in {<<Num(1), Null>>, <<Num(2), Num(1)>>, <<Num(3), Null>>}}
    \cup {Stmt("insert", <<"id">>, <<<<Num(1)>>, <<Num(i)>>>>, <<>>, NoText) : i \in 1..2}
    \cup {Stmt("insert", <<"id", "age">>, <<<<Num(1), Null>>, <<Num(2)>>>>, <<>>, NoText),
          Stmt("insert", <<"id", "id">>, <<<<Num(1), Num(1)>>>>, <<>>, NoText),
          Stmt("insert", <<"age">>, <<<<Num(1)>>>>, <<>>, NoText),
          Stmt("insert", <<"id", "age">>, <<<<Num(1), Str(1)>>>>, <<>>, NoText)}

MCStatements ==
    Inserts
    \cup {Stmt("select", All, <<>>, <<>>, t) : t \in Texts}
    \cup {Stmt("select", c, <<>>, <<>>, NoText) : c \in {<<"age">>, <<"size">>}}
    \cup {Stmt("update", <<>>, <<>>, set, t) : set \in Sets, t \in Selective}
    \cup {Stmt("delete", <<>>, <<>>, <<>>, t) : t \in Selective}
=============================================================================
