--------------------------- MODULE MCQueryBuilder ---------------------------
(***************************************************************************)
(* Model-checking instance of QueryBuilder: three catalog tables, two     *)
(* data values, and bounded families of statements.  A family is chosen  *)
(* by its FROM shapes, join types, condition forms and ORDER BY lists;    *)
(* each run's Stmts is a union of families.  A database over at most two *)
(* tables holds up to two rows per table, one over three tables one row.  *)
(***************************************************************************)
EXTENDS QueryBuilder

CONSTANTS T1, T2, T3   \* the catalog tables (model values)

\* Column "a" (the data column) of table t, as the parser qualifies it.
A(t) == Col(t, 1)

Pairs(ts) == {p \in ts \X ts : p[1] # p[2]}

\* The condition forms over the tables ts.
Atoms(ts) ==
       {Fn("=", <<A(p[1]), A(p[2])>>) : p \in Pairs(ts)} \X {"eq"}
  \cup {Fn("<", <<A(p[1]), A(p[2])>>) : p \in Pairs(ts)} \X {"lt"}
  \cup {Fn("=", <<A(x), Lit(1)>>) : x \in ts} \X {"eqlit"}
  \cup {Fn("<", <<A(x), Lit(2)>>) : x \in ts} \X {"ltlit"}
  \cup {Fn("isnull", <<A(x)>>) : x \in ts} \X {"isnull"}
  \cup {Fn("isnotnull", <<A(x)>>) : x \in ts} \X {"isnotnull"}
  \cup {BoolLit(TRUE)} \X {"true"}

AtomsOf(ts, kinds) == {p[1] : p \in {p \in Atoms(ts) : p[2] \in kinds}}

Tb(t) == TableRef(t)

\* Joins of l and r under the join types jts, with an ON clause of one
\* condition of the forms onKinds (CROSS JOIN has none).
Joins(jts, onKinds, l, r, ts) ==
    UNION {{JoinRef(jt, l, r, on) :
              on \in IF jt = "CROSS" THEN {<<>>} ELSE {<<c>> : c \in AtomsOf(ts, onKinds)}}
             : jt \in jts}

\* The nested operand is an INNER or LEFT join on the equality of its
\* tables' data columns.
Inner(x, y) == {JoinRef(jt, Tb(x), Tb(y), <<Fn("=", <<A(x), A(y)>>)>>) : jt \in {"INNER", "LEFT"}}

\* The FROM lists of each shape; jts and rnjts are the join types of the
\* outer join and of a join over a right-nested join.
FromLists(shapes, jts, rnjts, onKinds) ==
    LET F(shape, S) == IF shape \in shapes THEN S ELSE {}
    IN  F("single", {<<Tb(T1)>>})
   \cup F("list2", {<<Tb(T1), Tb(T2)>>})
   \cup F("list3", {<<Tb(T1), Tb(T2), Tb(T3)>>})
   \cup F("dup", {<<Tb(T1), Tb(T1)>>})
   \cup F("join", {<<j>> : j \in Joins(jts, onKinds, Tb(T1), Tb(T2), {T1, T2})})
   \cup F("leftnested", {<<j>> : j \in UNION {Joins(jts, onKinds, n, Tb(T3), {T1, T2, T3}) : n \in Inner(T1, T2)}})
   \cup F("rightnested", {<<j>> : j \in UNION {Joins(rnjts, onKinds, Tb(T1), n, {T1, T2, T3}) : n \in Inner(T2, T3)}})
   \cup F("joinlist", {<<j, Tb(T3)>> : j \in Joins(jts, onKinds, Tb(T1), Tb(T2), {T1, T2})})

\* Tables a FROM list names.
FromTables(from) == UNION {ToSet(TablesOf(from[i])) : i \in DOMAIN from}

\* SELECT * over the FROM lists, with no WHERE or one condition of the
\* forms whereKinds, and each ORDER BY list of orders.
StarStmts(froms, whereKinds, orders) ==
    UNION {{Select(from, where, order) :
               where \in {<<>>} \cup {<<c>> : c \in AtomsOf(FromTables(from), whereKinds)},
               order \in orders} : from \in froms}

Ordinal(k) == [kind |-> "ordinal", val |-> k]
OrderExpr(e) == [kind |-> "expr", expr |-> e]

\* ORDER BY lists: none, an ordinal, a data column (deduplicated against
\* the star projection), a hidden isnull(...) projection.
MCOrderItems == {<<>>, <<Ordinal(1)>>, <<OrderExpr(A(T1))>>, <<OrderExpr(Fn("isnull", <<A(T1)>>))>>}

NoOrder == {<<>>}

AllJoinTypes == {"INNER", "LEFT", "RIGHT", "FULL", "CROSS"}

\* One-join statements, FROM lists of two tables, ORDER BY.
JoinStmts ==
    StarStmts(FromLists({"single", "list2", "dup", "join"}, AllJoinTypes, {},
                        {"eq", "lt", "eqlit", "isnull", "isnotnull", "true"}),
              {"eq", "lt", "eqlit", "ltlit", "isnotnull", "true"}, MCOrderItems)

\* Nested joins and three-table FROM lists.  A LEFT join over a
\* right-nested join is OnRightFilterStmts' question.
NestedStmts ==
    StarStmts(FromLists({"list3", "leftnested", "rightnested", "joinlist"}, AllJoinTypes,
                        {"INNER", "RIGHT", "FULL", "CROSS"}, {"eq", "eqlit", "isnotnull"}),
              {"eqlit", "isnotnull"}, NoOrder)

Cnt == Agg("count", <<>>)

\* HAVING conditions: on an aggregate, on a group column, constant.
AggHaving      == <<Fn("<", <<Lit(1), Cnt>>)>>
GroupHaving(t) == <<Fn("=", <<A(t), Lit(1)>>)>>
ConstHaving    == <<Fn("=", <<Lit(1), Lit(2)>>)>>

\* GROUP BY over t1: grouped and ungrouped select lists (a star, a
\* function of the group column, an aggregate of the key), HAVING, and
\* ORDER BY an aggregate or an ungrouped column.
GroupStmts ==
    {SelectStmt(<<Tb(T1)>>, items, where, group, having, order) :
        items  \in {<<A(T1), Cnt>>, <<Star>>, <<Cnt>>,
                    <<Fn("isnull", <<A(T1)>>), Agg("max", <<Col(T1, 0)>>)>>},
        where  \in {<<>>, <<Fn("<", <<A(T1), Lit(2)>>)>>},
        group  \in {<<A(T1)>>, <<Col(T1, 0), A(T1)>>},
        having \in {<<>>, AggHaving, GroupHaving(T1), ConstHaving},
        order  \in {<<>>, <<OrderExpr(Cnt)>>, <<OrderExpr(Col(T1, 0))>>}}

\* Without GROUP BY: scalar aggregates, Scenario F's "SELECT x, count(*)",
\* a star under an aggregate HAVING, a column in HAVING.
ScalarStmts ==
    {SelectStmt(<<Tb(T1)>>, items, where, <<>>, having, <<>>) :
        items  \in {<<Cnt>>, <<Cnt, Agg("max", <<A(T1)>>)>>, <<A(T1), Cnt>>, <<Star>>},
        where  \in {<<>>, <<Fn("<", <<A(T1), Lit(2)>>)>>},
        having \in {<<>>, AggHaving, GroupHaving(T1)}}

\* Grouping on the nullable side of an outer join, HAVING on that column.
JoinAggStmts ==
    {SelectStmt(<<JoinRef(jt, Tb(T1), Tb(T2), <<Fn("=", <<A(T1), A(T2)>>)>>)>>,
                <<A(T2), Cnt, Agg("count", <<A(T2)>>)>>, <<>>, <<A(T2)>>, having, <<>>) :
        jt \in {"INNER", "LEFT", "RIGHT"}, having \in {<<>>, AggHaving, GroupHaving(T2)}}

\* SELECT DISTINCT without ORDER BY: a column of one table, the star of
\* a join, and a grouped select list.
DistinctStmts ==
    {Distinct(SelectStmt(<<Tb(T1)>>, <<A(T1)>>, where, <<>>, <<>>, <<>>)) :
        where \in {<<>>, <<Fn("<", <<A(T1), Lit(2)>>)>>}}
    \cup {Distinct(Select(<<JoinRef(jt, Tb(T1), Tb(T2), <<Fn("=", <<A(T1), A(T2)>>)>>)>>, <<>>, <<>>)) :
            jt \in {"INNER", "LEFT"}}
    \cup {Distinct(SelectStmt(<<Tb(T1)>>, <<Cnt>>, <<>>, <<A(T1)>>, having, <<>>)) :
            having \in {<<>>, AggHaving}}

PassStmts == JoinStmts \cup NestedStmts \cup GroupStmts \cup ScalarStmts \cup JoinAggStmts
             \cup DistinctStmts

\* SELECT DISTINCT t1.a FROM t1 ORDER BY t1.a. (ORDER BY 1 stops earlier, at
\* the ordinal panic of order_binder.go:61.)
DistinctOrderStmts ==
    {Distinct(SelectStmt(<<Tb(T1)>>, <<A(T1)>>, <<>>, <<>>, <<>>, <<OrderExpr(A(T1))>>))}

\* SELECT * FROM t1 HAVING 1 = 2.
HavingNoAggStmts == {SelectStmt(<<Tb(T1)>>, <<Star>>, <<>>, <<>>, ConstHaving, <<>>)}

\* SELECT count(*) FROM t1 HAVING 1 = 2.
HavingScalarStmts == {SelectStmt(<<Tb(T1)>>, <<Cnt>>, <<>>, <<>>, ConstHaving, <<>>)}

\* t1 LEFT JOIN (t2 JOIN t3 ON ...) ON <condition on t2/t3 only>.
OnRightFilterStmts ==
    StarStmts(FromLists({"rightnested"}, {}, {"LEFT"}, {"eqlit"}), {}, NoOrder)

\* A LEFT or RIGHT join under a WHERE isnull(...) on its nullable side.
OuterToInnerStmts ==
    StarStmts(FromLists({"join"}, {"LEFT", "RIGHT"}, {}, {"eq"}), {"isnull"}, NoOrder)

\* ORDER BY ordinals 1..3 over a two-column select list, and an ordinal
\* after an item that added a hidden projection.
OrdinalStmts ==
    StarStmts(FromLists({"single"}, {}, {}, {}), {},
              {<<Ordinal(k)>> : k \in 1..3} \cup {<<OrderExpr(Fn("isnull", <<A(T1)>>)), Ordinal(3)>>})

MCCatalog == {T1, T2, T3}
MCTables == {T1, T2, T3}
MCVals == {1, 2}
MCRowKeys(ts) == IF Cardinality(ts) <= 2 THEN {1, 2} ELSE {1}
OneRowKey(ts) == {1}
=============================================================================
