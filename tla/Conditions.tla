----------------------------- MODULE Conditions -----------------------------
(***************************************************************************)
(* The conditions of WHERE clauses: how the parser reads them, what the    *)
(* binder accepts, which index the planner chooses for them, which key the *)
(* index scan looks up, and what they evaluate to on a row.                *)
(*                                                                         *)
(* A token is a record; numbers, strings and NULL are tokens with a value. *)
(* A string is a number, which keeps the order of strings; the regular     *)
(* expressions of LIKE are an operator of two strings.  A condition is a   *)
(* tree whose leaves are the operand tokens.                               *)
(***************************************************************************)
EXTENDS Integers, Sequences

CONSTANTS Null,
          Schema,               \* the columns: name, type, notNull, indexed, default
          FindColumn(_),        \* the position in it of a column's name, 0 for none
          RegexMatch(_, _)      \* std::regex: "yes", "no", or "error" for a bad pattern

-----------------------------------------------------------------------------
(* Tokens and trees.                                                       *)

Word(w) == [kind |-> "word", name |-> w, value |-> Null]      \* keywords, signs, parentheses
Col(c) == [kind |-> "column", name |-> c, value |-> Null]
Lit(v) == [kind |-> "literal", name |-> "", value |-> v]

Signs == {"=", "!=", "<", ">", "<=", ">="}
Keywords == {"AND", "OR", "BETWEEN", "LIKE"}

Node(kind, op, args) == [kind |-> kind, op |-> op, args |-> args]
Binary(op, l, r) == Node("binary", op, <<l, r>>)
Logical(op, l, r) == Node("logical", op, <<l, r>>)
Between(v, low, high) == Node("between", "", <<v, low, high>>)
Like(v, pattern) == Node("like", "", <<v, pattern>>)

NoCondition == Node("none", "", <<>>)

-----------------------------------------------------------------------------
(* The parser.  An operator takes the tokens and the position to read at   *)
(* and returns the tree and the position after it; an exception of the     *)
(* parser is a result that is not ok.                                      *)

Parsed(expr, next) == [ok |-> TRUE, expr |-> expr, next |-> next]
ParseError == [ok |-> FALSE, expr |-> NoCondition, next |-> 0]

At(tokens, i, w) == i <= Len(tokens) /\ tokens[i] = Word(w)
AtSign(tokens, i) == i <= Len(tokens) /\ tokens[i].kind = "word" /\ tokens[i].name \in Signs

\* The lexer knows no keywords: where an operand is expected, AND is a column name.
AtOperand(tokens, i) ==
    i <= Len(tokens) /\ (tokens[i].kind # "word" \/ tokens[i].name \in Keywords)
ParseOperand(tokens, i) == IF tokens[i].kind = "word" THEN Col(tokens[i].name) ELSE tokens[i]

\* the predicates without parentheses
ParseComparison(tokens, i) ==
    LET x(k) == ParseOperand(tokens, i + k)
    IN  IF ~AtOperand(tokens, i) THEN ParseError
        ELSE CASE At(tokens, i + 1, "BETWEEN") ->
                IF AtOperand(tokens, i + 2) /\ At(tokens, i + 3, "AND") /\ AtOperand(tokens, i + 4)
                THEN Parsed(Between(x(0), x(2), x(4)), i + 5) ELSE ParseError
          [] At(tokens, i + 1, "LIKE") ->
                IF AtOperand(tokens, i + 2) THEN Parsed(Like(x(0), x(2)), i + 3) ELSE ParseError
          [] AtSign(tokens, i + 1) /\ AtOperand(tokens, i + 2) ->
                Parsed(Binary(tokens[i + 1].name, x(0), x(2)), i + 3)
          [] OTHER -> ParseError

RECURSIVE ParseOr(_, _), ParseAndRest(_, _), ParseOrRest(_, _)

ParsePredicate(tokens, i) ==
    IF At(tokens, i, "(")
    THEN LET inner == ParseOr(tokens, i + 1)
         IN  IF inner.ok /\ At(tokens, inner.next, ")")
             THEN Parsed(inner.expr, inner.next + 1) ELSE ParseError
    ELSE ParseComparison(tokens, i)

\* the loops of ParseAnd and ParseOr, with what has been read so far
ParseAndRest(tokens, left) ==
    IF ~left.ok \/ ~At(tokens, left.next, "AND") THEN left
    ELSE LET right == ParsePredicate(tokens, left.next + 1)
         IN  IF right.ok
             THEN ParseAndRest(tokens, Parsed(Logical("AND", left.expr, right.expr), right.next))
             ELSE ParseError

ParseAnd(tokens, i) == ParseAndRest(tokens, ParsePredicate(tokens, i))

\* mutant: the right operand of OR is a single predicate
ParseOrRestFlat(tokens, left) ==
    IF ~left.ok \/ ~(At(tokens, left.next, "OR") \/ At(tokens, left.next, "AND")) THEN left
    ELSE LET right == ParsePredicate(tokens, left.next + 1)
         IN  IF right.ok
             THEN ParseOrRest(tokens, Parsed(Logical(tokens[left.next].name, left.expr, right.expr),
                                             right.next))
             ELSE ParseError

ParseOrRest(tokens, left) ==
    IF ~left.ok \/ ~At(tokens, left.next, "OR") THEN left
    ELSE LET right == ParseAnd(tokens, left.next + 1)
         IN  IF right.ok
             THEN ParseOrRest(tokens, Parsed(Logical("OR", left.expr, right.expr), right.next))
             ELSE ParseError

ParseOr(tokens, i) == ParseOrRest(tokens, ParseAnd(tokens, i))

\* The end of a statement: WHERE and a condition, which only SELECT may leave
\* out (written here as no tokens), and nothing after it.
ParseWhere(tokens, optional) ==
    IF tokens = <<>> THEN [ParseError EXCEPT !.ok = optional]
    ELSE LET where == ParseOr(tokens, 1)
         IN  IF where.ok /\ where.next = Len(tokens) + 1 THEN where ELSE ParseError

\* A condition as it is written: parentheses only where AND binds too strongly
\* or the tree does not lean to the left.
RECURSIVE Written(_)
Written(e) ==
    LET Inner(x, needs) == IF needs THEN <<Word("(")>> \o Written(x) \o <<Word(")")>>
                           ELSE Written(x)
        IsOr(x) == x.kind = "logical" /\ x.op = "OR"
    IN  CASE e.kind = "binary" -> <<e.args[1], Word(e.op), e.args[2]>>
          [] e.kind = "between" ->
                <<e.args[1], Word("BETWEEN"), e.args[2], Word("AND"), e.args[3]>>
          [] e.kind = "like" -> <<e.args[1], Word("LIKE"), e.args[2]>>
          [] e.kind = "logical" ->
                Inner(e.args[1], e.op = "AND" /\ IsOr(e.args[1]))
                \o <<Word(e.op)>>
                \o Inner(e.args[2], IF e.op = "AND" THEN e.args[2].kind = "logical"
                                    ELSE IsOr(e.args[2]))

-----------------------------------------------------------------------------
(* The binder.                                                             *)

RECURSIVE CheckExprColumns(_)
CheckExprColumns(e) ==
    CASE e.kind = "column" -> FindColumn(e.name) # 0
      [] e.kind = "literal" -> TRUE
      [] OTHER -> \A i \in DOMAIN e.args : CheckExprColumns(e.args[i])

-----------------------------------------------------------------------------
(* Evaluation.  The outcome is "yes", "no" or "error".                     *)

Outcome(b) == IF b THEN "yes" ELSE "no"

Holds(op, m, n) ==
    CASE op = "=" -> m = n
      [] op = "!=" -> m # n
      [] op = "<" -> m < n
      [] op = ">" -> m > n
      [] op = "<=" -> m <= n
      [] op = ">=" -> m >= n

Compare(op, l, r) ==
    IF Null \in {l, r} THEN "no"
    ELSE IF l.type # r.type THEN "error"
    ELSE Outcome(Holds(op, l.n, r.n))

Operand(x, tuple) == IF x.kind = "literal" THEN x.value ELSE tuple[FindColumn(x.name)]

\* Once the left operand has decided, the right one is not evaluated.
ShortCircuit(op, left, right) ==
    CASE left = "error" -> "error"
      [] op = "AND" /\ left = "no" -> "no"
      [] op = "OR" /\ left = "yes" -> "yes"
      [] OTHER -> right

RECURSIVE Evaluate(_, _)
Evaluate(e, tuple) ==
    LET v(i) == Operand(e.args[i], tuple)
    IN  CASE e.kind = "none" -> "yes"
          [] e.kind = "binary" -> Compare(e.op, v(1), v(2))
          [] e.kind = "logical" ->
                ShortCircuit(e.op, Evaluate(e.args[1], tuple), Evaluate(e.args[2], tuple))
          [] e.kind = "between" ->
                IF Null \in {v(1), v(2), v(3)} THEN "no"
                ELSE IF v(1).type # v(2).type \/ v(1).type # v(3).type THEN "error"
                ELSE Outcome(v(2).n <= v(1).n /\ v(1).n < v(3).n)
          [] e.kind = "like" ->
                IF Null \in {v(1), v(2)} THEN "no"
                ELSE IF v(1).type # "string" \/ v(2).type # "string" THEN "error"
                ELSE RegexMatch(v(1), v(2))

-----------------------------------------------------------------------------
(* The choice of an index, and of the key to look up in it.                *)

\* the operands of e that are columns and those that are literals
Columns(e) == {i \in DOMAIN e.args : e.args[i].kind = "column"}
Literals(e) == {i \in DOMAIN e.args : e.args[i].kind = "literal"}

IsColumnEqLiteral(e) ==
    e.kind = "binary" /\ e.op = "=" /\ Columns(e) # {} /\ Literals(e) # {}

ColumnOf(e) == e.args[CHOOSE i \in Columns(e) : TRUE].name
LiteralOf(e) == e.args[CHOOSE i \in Literals(e) : TRUE].value

\* the equalities that an AND combines, from left to right
RECURSIVE Equalities(_)
Equalities(e) ==
    CASE IsColumnEqLiteral(e) -> <<e>>
      [] e.kind = "logical" /\ e.op = "AND" -> Equalities(e.args[1]) \o Equalities(e.args[2])
      [] OTHER -> <<>>

IsIndexed(c) == FindColumn(c) # 0 /\ Schema[FindColumn(c)].indexed

\* The planner: the column of the first equality that has an index, "" for none.
FindIndexedEquality(e) ==
    LET found == SelectSeq(Equalities(e), LAMBDA q : IsIndexed(ColumnOf(q)))
    IN  IF found = <<>> THEN "" ELSE ColumnOf(found[1])

\* The executor: the literal of the first equality, whatever its column.
ExtractEqualityKey(e) == LiteralOf(Equalities(e)[1])

\* the first equality is the one the index was chosen for
KeyFitsIndex(e) == FindIndexedEquality(e) \in {"", ColumnOf(Equalities(e)[1])}
=============================================================================
