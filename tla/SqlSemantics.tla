---------------------------- MODULE SqlSemantics ----------------------------
(***************************************************************************)
(* The statements the plan builder (src/pkg/sql/plan2) consumes, and what  *)
(* they mean.  This is the abstract specification the builder's plans are *)
(* compared with: SQL's own evaluation of a SELECT over a tiny database,  *)
(* with three-valued logic and outer-join null extension.                 *)
(*                                                                         *)
(* Every table has the two columns of one catalog definition: position 0 *)
(* is a key column (never NULL, unique per row) and position 1 a data     *)
(* column "a".  The key makes a set of result tuples carry the same       *)
(* information as SQL's bag of rows for SELECT *.                         *)
(***************************************************************************)
EXTENDS Integers, Sequences, FiniteSets, SequencesExt, Functions, TLC

CONSTANTS
    Tables,     \* table names the catalog resolves (model values)
    Vals,       \* values of the data column
    RowKeys(_), \* the row keys a table may hold in a database over tables ts
    NULL        \* SQL NULL, also the unknown truth value

ASSUME /\ NULL \notin Vals /\ NULL \notin BOOLEAN
       /\ \A ts \in SUBSET Tables : NULL \notin RowKeys(ts)

\* Column positions of every table definition: 0 = key, 1 = data column.
ColPositions == 0..1

(***************************************************************************)
(* Abstract syntax (tree.* of the parser).  A column reference is always  *)
(* qualified: rel is the table name, pos the column position.  After      *)
(* binding the same record shape carries a tag (and after remapping a     *)
(* child index) in rel, exactly as plan.ColRef reuses RelPos.             *)
(***************************************************************************)
Col(rel, pos)   == [kind |-> "col", rel |-> rel, pos |-> pos]
Lit(v)          == [kind |-> "const", val |-> v]
BoolLit(b)      == [kind |-> "bool", val |-> b]
Fn(name, args)  == [kind |-> "fn", name |-> name, args |-> args]

\* An aggregate call count(*) (no args), count(x) or max(x).
Agg(name, args) == [kind |-> "agg", name |-> name, args |-> args]

\* The select-list item "*".
Star == [kind |-> "star"]

TableRef(t)             == [type |-> "table", name |-> t]
JoinRef(jt, l, r, on)   == [type |-> "join", jt |-> jt, left |-> l, right |-> r, on |-> on]

\* A SELECT statement: FROM list, select items, WHERE conjuncts (already
\* split at AND), GROUP BY expressions, HAVING conjuncts, ORDER BY items;
\* SELECT DISTINCT or not.
SelectStmt(from, items, where, groupBy, having, order) ==
    [from |-> from, items |-> items, where |-> where, groupBy |-> groupBy,
     having |-> having, order |-> order, distinct |-> FALSE]

\* The same statement written SELECT DISTINCT.
Distinct(stmt) == [stmt EXCEPT !.distinct = TRUE]

\* SELECT * FROM from WHERE where ORDER BY order.
Select(from, where, order) == SelectStmt(from, <<Star>>, where, <<>>, <<>>, order)

(***************************************************************************)
(* Three-valued evaluation.  A row is a function from column keys         *)
(* <<rel, pos>> to values; NULL doubles as UNKNOWN.                       *)
(***************************************************************************)
\* A column the row does not carry reads as NULL.
Operand(e, row) ==
    IF e.kind # "col" THEN e.val
    ELSE IF <<e.rel, e.pos>> \in DOMAIN row THEN row[<<e.rel, e.pos>>] ELSE NULL

Compare(name, x, y) ==
    IF x = NULL \/ y = NULL THEN NULL
    ELSE IF name = "=" THEN x = y ELSE x < y

\* operator.IsNotNull: FALSE for a NULL input, TRUE otherwise.
IsNotNull(v) == IF v = NULL THEN FALSE ELSE TRUE

ExprValue(e, row) ==
    IF e.kind # "fn" THEN Operand(e, row)
    ELSE LET vs == [i \in DOMAIN e.args |-> Operand(e.args[i], row)]
         IN CASE e.name \in {"=", "<"} -> Compare(e.name, vs[1], vs[2])
              [] e.name = "isnull"     -> vs[1] = NULL
              [] e.name = "isnotnull"  -> IsNotNull(vs[1])

\* A WHERE/ON/filter conjunct keeps a row only when it is TRUE.
Holds(e, row) == ExprValue(e, row) = TRUE

AllHold(conds, row) == \A i \in DOMAIN conds : Holds(conds[i], row)

(***************************************************************************)
(* Databases over tables ts: each holds a subset of RowKeys(ts), each    *)
(* row a data value.                                                      *)
(***************************************************************************)
DatabasesOver(ts) == [ts -> UNION {[S -> Vals \cup {NULL}] : S \in SUBSET RowKeys(ts)}]

Databases == DatabasesOver(Tables)

RECURSIVE TablesOf(_)
\* Tables of a FROM item, left to right (the order SELECT * expands them).
TablesOf(tr) == IF tr.type = "table" THEN <<tr.name>>
                ELSE TablesOf(tr.left) \o TablesOf(tr.right)

KeysOf(ts) == {<<t, c>> : t \in ToSet(ts), c \in ColPositions}

NullRow(keys) == [k \in keys |-> NULL]

TableRows(t, db) ==
    {[k \in KeysOf(<<t>>) |-> IF k[2] = 0 THEN r ELSE db[t][r]] : r \in DOMAIN db[t]}

\* Rows of a join of L and R under join type jt: the matching pairs, plus
\* the unmatched rows of the preserved side(s) combined with the other
\* side's all-NULL row (lNull, rNull).
JoinRows(jt, L, R, lNull, rNull, Match(_, _), Combine(_, _)) ==
    LET inner  == {Combine(p[1], p[2]) : p \in {p \in L \X R : Match(p[1], p[2])}}
        lOuter == {Combine(l, rNull) : l \in {l \in L : \A r \in R : ~Match(l, r)}}
        rOuter == {Combine(lNull, r) : r \in {r \in R : \A l \in L : ~Match(l, r)}}
    IN  CASE jt \in {"INNER", "CROSS"} -> inner
          [] jt = "LEFT"  -> inner \cup lOuter
          [] jt = "RIGHT" -> inner \cup rOuter
          [] jt = "FULL"  -> inner \cup lOuter \cup rOuter

RECURSIVE FromRows(_, _)
FromRows(tr, db) ==
    IF tr.type = "table" THEN TableRows(tr.name, db)
    ELSE JoinRows(tr.jt, FromRows(tr.left, db), FromRows(tr.right, db),
                  NullRow(KeysOf(TablesOf(tr.left))), NullRow(KeysOf(TablesOf(tr.right))),
                  LAMBDA l, r : AllHold(tr.on, l @@ r), LAMBDA l, r : l @@ r)

\* Tables of the whole FROM list, in SELECT * order.
StarTables(stmt) == FoldLeft(LAMBDA acc, tr : acc \o TablesOf(tr), <<>>, stmt.from)

\* The comma-separated FROM list is a cross product.
FromListRows(stmt, db) ==
    FoldLeft(LAMBDA acc, tr : {a @@ b : a \in acc, b \in FromRows(tr, db)},
             {<<>>}, stmt.from)

\* The columns "*" expands to over the tables ts, in order.
StarCols(ts) == FoldLeft(LAMBDA acc, t : acc \o <<Col(t, 0), Col(t, 1)>>, <<>>, ts)

\* The select list with "*" expanded.
SelectList(stmt) ==
    FoldLeft(LAMBDA acc, it : acc \o (IF it.kind = "star" THEN StarCols(StarTables(stmt)) ELSE <<it>>),
             <<>>, stmt.items)

(***************************************************************************)
(* Grouping.  A query groups when it has GROUP BY or calls an aggregate;  *)
(* then every group of the WHERE rows with equal GROUP BY values yields   *)
(* one row, and without GROUP BY the single group exists even when there  *)
(* are no rows.  A query that does not group applies HAVING to each row,  *)
(* as MySQL does.  GROUP BY expressions are columns.                      *)
(***************************************************************************)
\* The terms of an expression: itself, and a function's arguments.
Terms(e) == IF e.kind = "fn" THEN {e} \cup Range(e.args) ELSE {e}

\* The expressions of the ORDER BY items that are not ordinals.
OrderExprs(stmt) == {stmt.order[i].expr : i \in {i \in DOMAIN stmt.order : stmt.order[i].kind = "expr"}}

AggCalls(stmt) ==
    {x \in UNION {Terms(e) : e \in Range(stmt.items) \cup Range(stmt.having) \cup OrderExprs(stmt)}
       : x.kind = "agg"}

IsGrouped(stmt) == stmt.groupBy # <<>> \/ AggCalls(stmt) # {}

\* SQL's grouping rule: HAVING, and in a grouping query the select list
\* and ORDER BY, read a column only inside an aggregate call or as a
\* GROUP BY expression.
GroupingViolation(stmt) ==
    LET Plain(es) == {x \in UNION {Terms(e) : e \in es} : x.kind = "col" /\ x \notin Range(stmt.groupBy)}
    IN \/ Plain(Range(stmt.having)) # {}
       \/ IsGrouped(stmt) /\ Plain(Range(SelectList(stmt)) \cup OrderExprs(stmt)) # {}

GroupKey(stmt, row) == [i \in DOMAIN stmt.groupBy |-> ExprValue(stmt.groupBy[i], row)]

GroupKeys(stmt, rows) == IF stmt.groupBy = <<>> THEN {<<>>} ELSE {GroupKey(stmt, r) : r \in rows}

\* count(*) counts rows, count(x) the rows where x is not NULL, max(x) is
\* the largest non-NULL x (NULL when there is none).
AggValue(a, rows) ==
    CASE a.name = "count" /\ a.args = <<>> -> Cardinality(rows)
      [] a.name = "count" -> Cardinality({r \in rows : ExprValue(a.args[1], r) # NULL})
      [] a.name = "max"   -> LET vs == {ExprValue(a.args[1], r) : r \in rows} \ {NULL}
                             IN IF vs = {} THEN NULL ELSE Max(vs)

\* A term over the group with key k and rows: a GROUP BY expression is its
\* key value, an aggregate call its value over the rows.
GroupTerm(stmt, k, rows, x) ==
    LET g == SelectInSeq(stmt.groupBy, LAMBDA y : y = x) IN
    IF g > 0 THEN Lit(k[g])
    ELSE IF x.kind = "agg" THEN Lit(AggValue(x, rows)) ELSE x

GroupValue(stmt, k, rows, e) ==
    ExprValue(IF e.kind = "fn"
              THEN [e EXCEPT !.args = [i \in DOMAIN e.args |-> GroupTerm(stmt, k, rows, e.args[i])]]
              ELSE GroupTerm(stmt, k, rows, e), <<>>)

\* The answer SQL gives: the set of select-list tuples, one per row
\* satisfying WHERE and HAVING, or one per group satisfying HAVING.  As a
\* set it is already free of duplicates, so DISTINCT leaves it unchanged.
SqlResult(stmt, db) ==
    LET rows == {r \in FromListRows(stmt, db) : AllHold(stmt.where, r)}
        list == SelectList(stmt)
        Members(k) == {r \in rows : GroupKey(stmt, r) = k}
        Val(k, e)  == GroupValue(stmt, k, Members(k), e)
    IN IF ~IsGrouped(stmt)
       THEN {[i \in DOMAIN list |-> ExprValue(list[i], r)] : r \in {r \in rows : AllHold(stmt.having, r)}}
       ELSE {[i \in DOMAIN list |-> Val(k, list[i])] :
               k \in {k \in GroupKeys(stmt, rows) : \A i \in DOMAIN stmt.having : Val(k, stmt.having[i]) = TRUE}}

=============================================================================
