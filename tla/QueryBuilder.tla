---------------------------- MODULE QueryBuilder ----------------------------
(***************************************************************************)
(* The logical plan builder of src/pkg/sql/plan2/query_builder.go and     *)
(* order_binder.go: buildSelect/buildFrom/buildTable/buildJoinTable turn  *)
(* one SELECT into a tree of plan nodes in an append-only arena, then     *)
(* createQuery runs pushdownFilters and remapAllColRefs over it.          *)
(*                                                                         *)
(* The builder is single-threaded; its behaviour is the sequence of the   *)
(* two handlers the caller runs on one statement: BuildSelect, then       *)
(* CreateQuery.  Each handler is one action; the recursive descent inside *)
(* it is a RECURSIVE operator threading the arena exactly as the Go code  *)
(* threads builder.qry.Nodes, builder.tagsByNode and builder.nextTag.     *)
(*                                                                         *)
(* Node ids are 1-based positions in the arena (the code's are 0-based).  *)
(***************************************************************************)
EXTENDS SqlSemantics

CONSTANTS
    Catalog,    \* tables compCtx.Resolve finds (a subset of Tables)
    Stmts       \* the statements the parser may hand the builder

VARIABLES
    stmt,       \* the statement being compiled
    phase,      \* "build" -> "optimize" -> "done", or "failed"
    builder,    \* [nodes, tagsByNode, nextTag]: builder.qry.Nodes & co.
    steps,      \* builder.qry.Steps: root node ids
    err,        \* the error the build or createQuery returned
    builtPlan,  \* history: the arena and root right after buildSelect
    pushedPlan  \* history: the arena right after pushdownFilters

vars == <<stmt, phase, builder, steps, err, builtPlan, pushedPlan>>

NoError == "none"

(***************************************************************************)
(* Plan nodes (plan.Node), with only the fields the builder touches.      *)
(***************************************************************************)
NodeTypes == {"TABLE_SCAN", "VALUE_SCAN", "JOIN", "FILTER", "AGG", "SORT", "PROJECT"}

MkNode(type, children) ==
    [type |-> type, children |-> children, table |-> NULL, filters |-> <<>>,
     onList |-> <<>>, joinType |-> "NONE", projects |-> <<>>, orderBy |-> <<>>,
     groupBy |-> <<>>, aggList |-> <<>>]

FilterNode(child, fs) == [MkNode("FILTER", <<child>>) EXCEPT !.filters = fs]

\* Column types of the table definition: the key and the data column differ.
ColType == [c \in ColPositions |-> IF c = 0 THEN "BIGINT" ELSE "INT"]
TypeOf(e) == IF e.kind = "col" THEN ColType[e.pos] ELSE "BOOL"

Ok(ar, id, ctx) == [ok |-> TRUE, ar |-> ar, id |-> id, ctx |-> ctx]
Fail(e)         == [ok |-> FALSE, err |-> e]

\* builder.appendNode: the new node's id is its position in the arena.
appendNode(ar, node, tags) ==
    [ar EXCEPT !.nodes = Append(@, node), !.tagsByNode = Append(@, tags)]

LastId(ar) == Len(ar.nodes)

\* builder.genNewTag: pre-increment of nextTag.
genNewTag(ar) == [ar EXCEPT !.nextTag = @ + 1]

(***************************************************************************)
(* Binding contexts.  A context is the sequence of its bindings            *)
(* [tag, table], in the order they were added; bindingByTable and         *)
(* bindingByTag are lookups into it.                                      *)
(***************************************************************************)
HasTable(ctx, t) == \E i \in DOMAIN ctx : ctx[i].table = t
TagOf(ctx, t)    == (CHOOSE b \in Range(ctx) : b.table = t).tag
CtxTags(ctx)     == {ctx[i].tag : i \in DOMAIN ctx}

\* ctx.mergeContexts: left's bindings then right's; a table name exposed
\* by both sides is a DuplicateTable error.
mergeContexts(ctx, left, right) ==
    IF \E i \in DOMAIN left, j \in DOMAIN right : left[i].table = right[j].table
    THEN Fail("DuplicateTable")
    ELSE [ok |-> TRUE, ctx |-> ctx \o left \o right]

\* Column references and the rel (table, tag or child index) they name:
\* the expression itself, or the column arguments of a function or an
\* aggregate call.
ColArgs(e) == IF e.kind = "col" THEN {e}
              ELSE IF e.kind \in {"fn", "agg"} THEN {a \in Range(e.args) : a.kind = "col"}
              ELSE {}
RelsOf(e) == {c.rel : c \in ColArgs(e)}

MapCols(e, f) ==
    IF e.kind = "col" THEN f[e]
    ELSE IF e.kind \in {"fn", "agg"}
         THEN [e EXCEPT !.args = [i \in DOMAIN e.args |->
                                    IF e.args[i].kind = "col" THEN f[e.args[i]] ELSE e.args[i]]]
    ELSE e

\* The binders' column resolution for qualified names: table.col becomes
\* a reference to the binding's tag; an unknown table is an error.
BindExpr(e, ctx) == MapCols(e, [c \in ColArgs(e) |-> [c EXCEPT !.rel = TagOf(ctx, c.rel)]])

BindConds(conds, ctx) ==
    IF \A i \in DOMAIN conds : \A t \in RelsOf(conds[i]) : HasTable(ctx, t)
    THEN [ok |-> TRUE, exprs |-> [i \in DOMAIN conds |-> BindExpr(conds[i], ctx)]]
    ELSE Fail("UndefinedColumn")

(***************************************************************************)
(* The GROUP BY, HAVING and projection binders.  bs is what they collect  *)
(* in the context: groups (GROUP BY expressions) and aggregates           *)
(* (aggregate calls), each deduplicated by its text as groupByAst and     *)
(* aggregateByAst are, and boundCols, the plain columns the projection    *)
(* binder bound.  Statements are qualified, so text equality is equality  *)
(* of the syntax records.  Binding a term of a HAVING condition or a      *)
(* select item:                                                           *)
(*   a GROUP BY expression  -> column groupTag.i                          *)
(*   an aggregate call      -> column aggregateTag.j, registered if new   *)
(*   another column         -> HAVING: GroupingError; projection: bound   *)
(*                             to its table's tag and added to boundCols  *)
(***************************************************************************)
NoBinds == [groups |-> <<>>, aggregates |-> <<>>, boundCols |-> <<>>]

AppendNew(s, x) == IF x \in Range(s) THEN s ELSE Append(s, x)

\* The 0-based slot of x in s.
SlotOf(s, x) == SelectInSeq(s, LAMBDA y : y = x) - 1

\* Every column an expression reads, inside aggregate arguments included.
Resolves(e, ctx) == \A x \in Terms(e) : \A t \in RelsOf(x) : HasTable(ctx, t)

\* GroupBinder.BindExpr on each GROUP BY expression.
BindGroupBy(groupBy, ctx, bs) ==
    IF \E i \in DOMAIN groupBy : ~Resolves(groupBy[i], ctx) THEN Fail("UndefinedColumn")
    ELSE [ok |-> TRUE, bs |-> [bs EXCEPT !.groups = FoldLeft(AppendNew, @, groupBy)]]

BindTerm(binder, x, ctx, bs, tags) ==
    CASE x \in Range(bs.groups) ->
            [ok |-> TRUE, bs |-> bs, expr |-> Col(tags.group, SlotOf(bs.groups, x))]
      [] x.kind = "agg" ->
            LET b == [bs EXCEPT !.aggregates = AppendNew(@, x)]
            IN [ok |-> TRUE, bs |-> b, expr |-> Col(tags.aggregate, SlotOf(b.aggregates, x))]
      [] x.kind = "col" /\ binder = "having" -> Fail("GroupingError")
      [] x.kind = "col" ->
            [ok |-> TRUE, bs |-> [bs EXCEPT !.boundCols = Append(@, x)], expr |-> BindExpr(x, ctx)]
      [] OTHER -> [ok |-> TRUE, bs |-> bs, expr |-> x]

RECURSIVE BindArgs(_, _, _, _, _, _, _), ArgBound(_, _, _, _, _, _, _),
          BindList(_, _, _, _, _, _, _), ItemBound(_, _, _, _, _, _, _)

\* A function's arguments, left to right (baseBindExpr on a FuncExpr).
BindArgs(binder, args, i, ctx, bs, tags, out) ==
    IF i > Len(args) THEN [ok |-> TRUE, bs |-> bs, args |-> out]
    ELSE ArgBound(binder, args, i, ctx, tags, out, BindTerm(binder, args[i], ctx, bs, tags))

ArgBound(binder, args, i, ctx, tags, out, b) ==
    IF ~b.ok THEN b ELSE BindArgs(binder, args, i + 1, ctx, b.bs, tags, Append(out, b.expr))

FnBound(e, a) == IF ~a.ok THEN a ELSE [ok |-> TRUE, bs |-> a.bs, expr |-> [e EXCEPT !.args = a.args]]

\* HavingBinder/ProjectionBinder.BindExpr on one root expression.
BindRoot(binder, e, ctx, bs, tags) ==
    IF ~Resolves(e, ctx) THEN Fail("UndefinedColumn")
    ELSE IF e.kind = "fn" /\ e \notin Range(bs.groups)
    THEN FnBound(e, BindArgs(binder, e.args, 1, ctx, bs, tags, <<>>))
    ELSE BindTerm(binder, e, ctx, bs, tags)

\* The HAVING conjuncts or the select list, left to right.
BindList(binder, list, i, ctx, bs, tags, out) ==
    IF i > Len(list) THEN [ok |-> TRUE, bs |-> bs, exprs |-> out]
    ELSE ItemBound(binder, list, i, ctx, tags, out, BindRoot(binder, list[i], ctx, bs, tags))

ItemBound(binder, list, i, ctx, tags, out, b) ==
    IF ~b.ok THEN b ELSE BindList(binder, list, i + 1, ctx, b.bs, tags, Append(out, b.expr))

(***************************************************************************)
(* getJoinSide: bit 0b01 when the expression reads a left tag, 0b10 when  *)
(* it reads any other tag; 0 for a constant.                              *)
(***************************************************************************)
getJoinSide(e, leftTags) ==
    (IF RelsOf(e) \cap leftTags # {} THEN 1 ELSE 0)
      + (IF RelsOf(e) \ leftTags # {} THEN 2 ELSE 0)

IsEquiFn(e) == e.kind = "fn" /\ e.name = "="

(***************************************************************************)
(* buildTable for a (possibly aliased) table name: resolve it, append a   *)
(* TABLE_SCAN with a fresh tag, then addBinding.                          *)
(***************************************************************************)
addBinding(ar, id, ctx) ==
    LET t == ar.nodes[id].table IN
    IF HasTable(ctx, t) THEN Fail("DuplicateTable")
    ELSE Ok(ar, id, Append(ctx, [tag |-> ar.tagsByNode[id][1], table |-> t]))

buildTableName(t, ctx, ar) ==
    IF t \notin Catalog THEN Fail("InvalidTableDefinition")
    ELSE LET ar1 == genNewTag(ar)
             ar2 == appendNode(ar1, [MkNode("TABLE_SCAN", <<>>) EXCEPT !.table = t],
                               <<ar1.nextTag>>)
         IN addBinding(ar2, LastId(ar2), ctx)

(***************************************************************************)
(* buildJoinTable, ON clause: where each bound condition goes.            *)
(*   "filter": a FILTER above an INNER join                               *)
(*   "join"  : the join's OnList                                          *)
(*   "left"/"right": a FILTER on that child                               *)
(*   "error" : "non-equi join condition not yet supported"                *)
(***************************************************************************)
OnCondDest(cond, joinType, leftTags) ==
    LET side == getJoinSide(cond, leftTags)
        equiOrError == IF IsEquiFn(cond) THEN "join" ELSE "error"
    IN IF joinType = "INNER" THEN "filter"
       ELSE CASE side = 0 -> (CASE joinType = "LEFT"  -> "right"
                                [] joinType = "RIGHT" -> "left"
                                [] joinType = "OUTER" -> equiOrError)
              [] side = 1 -> IF joinType = "RIGHT" THEN "left" ELSE equiOrError
              [] side = 2 -> IF joinType = "LEFT" THEN "right" ELSE equiOrError
              [] side = 3 -> equiOrError

CondsTo(conds, dest, joinType, leftTags) ==
    SelectSeq(conds, LAMBDA c : OnCondDest(c, joinType, leftTags) = dest)

\* The placement after the classification loop: OnList, the children's
\* FILTERs (extending a FILTER child in place), and a FILTER on top.
PlaceOnConds(ar, nodeId, leftChildId, rightChildId, conds, joinType, leftTags) ==
    LET joinConds   == CondsTo(conds, "join", joinType, leftTags)
        leftConds   == CondsTo(conds, "left", joinType, leftTags)
        rightConds  == CondsTo(conds, "right", joinType, leftTags)
        filterConds == CondsTo(conds, "filter", joinType, leftTags)
        ar1 == [ar EXCEPT !.nodes[nodeId].onList = joinConds]
        ar2 == IF leftConds = <<>> THEN ar1
               ELSE IF ar1.nodes[leftChildId].type = "FILTER"
               THEN [ar1 EXCEPT !.nodes[leftChildId].filters = @ \o leftConds]
               ELSE LET a == appendNode(ar1, FilterNode(leftChildId, leftConds), <<>>)
                    IN [a EXCEPT !.nodes[nodeId].children[1] = LastId(a)]
        ar3 == IF rightConds = <<>> THEN ar2
               ELSE IF ar2.nodes[rightChildId].type = "FILTER"
               THEN [ar2 EXCEPT !.nodes[rightChildId].filters = @ \o leftConds]
               ELSE LET a == appendNode(ar2, FilterNode(rightChildId, rightConds), <<>>)
                    IN [a EXCEPT !.nodes[nodeId].children[2] = LastId(a)]
    IN IF filterConds = <<>> THEN [ar |-> ar3, id |-> nodeId]
       ELSE LET a == appendNode(ar3, FilterNode(nodeId, filterConds), <<>>)
            IN [ar |-> a, id |-> LastId(a)]

\* Variant: RIGHT JOIN mapped to the LEFT join flag.
JoinFlag_RightAsLeft(jt) == CASE jt \in {"CROSS", "INNER"} -> "INNER"
                              [] jt \in {"LEFT", "RIGHT"} -> "LEFT"
                              [] jt = "FULL"  -> "OUTER"

JoinFlag(jt) == CASE jt \in {"CROSS", "INNER"} -> "INNER"
                  [] jt = "LEFT"  -> "LEFT"
                  [] jt = "RIGHT" -> "RIGHT"
                  [] jt = "FULL"  -> "OUTER"

JoinPlaced(p, m) == Ok(p.ar, p.id, m.ctx)

\* After ctx.mergeContexts: append the JOIN, bind and place the ON list.
JoinMerged(tbl, l, r, m) ==
    LET joinType == JoinFlag(tbl.jt)
        a == appendNode(r.ar, [MkNode("JOIN", <<l.id, r.id>>) EXCEPT !.joinType = joinType], <<>>)
        b == BindConds(tbl.on, m.ctx)
        leftTags == CtxTags(l.ctx)
    IN IF ~m.ok THEN m ELSE IF ~b.ok THEN b
       ELSE IF \E i \in DOMAIN b.exprs : OnCondDest(b.exprs[i], joinType, leftTags) = "error"
       THEN Fail("InternalError")
       ELSE JoinPlaced(PlaceOnConds(a, LastId(a), l.id, r.id, b.exprs, joinType, leftTags), m)


RECURSIVE buildTable(_, _, _), buildJoinTable(_, _, _), JoinLeftBuilt(_, _, _),
          JoinRightBuilt(_, _, _, _)

buildTable(tr, ctx, ar) ==
    IF tr.type = "table" THEN buildTableName(tr.name, ctx, ar)
    ELSE buildJoinTable(tr, ctx, ar)

\* Each operand is built in a fresh child context; the steps of the
\* function after each call are the operators below, each taking the
\* call's result.
buildJoinTable(tbl, ctx, ar) == JoinLeftBuilt(tbl, ctx, buildTable(tbl.left, <<>>, ar))

JoinLeftBuilt(tbl, ctx, l) ==
    IF ~l.ok THEN l ELSE JoinRightBuilt(tbl, ctx, l, buildTable(tbl.right, <<>>, l.ar))

JoinRightBuilt(tbl, ctx, l, r) ==
    IF ~r.ok THEN r ELSE JoinMerged(tbl, l, r, mergeContexts(ctx, l.ctx, r.ctx))


(***************************************************************************)
(* buildFrom: one item is built in ctx; a comma list is folded left to    *)
(* right into INNER joins, merging the contexts step by step.             *)
(***************************************************************************)
RECURSIVE FoldFrom(_, _, _, _, _, _), FoldFromBuilt(_, _, _, _, _, _)
FoldFrom(list, i, ar, nodeId, leftCtx, rightCtx) ==
    IF i > Len(list) THEN [ok |-> TRUE, ar |-> ar, id |-> nodeId, left |-> leftCtx, right |-> rightCtx]
    ELSE FoldFromBuilt(list, i, nodeId, leftCtx, mergeContexts(<<>>, leftCtx, rightCtx),
                       buildTable(list[i], <<>>, ar))

\* One step of the loop: the merged left context m, the built item r.
FoldFromBuilt(list, i, nodeId, leftCtx, m, r) ==
    LET a == appendNode(r.ar, [MkNode("JOIN", <<nodeId, r.id>>) EXCEPT !.joinType = "INNER"], <<>>)
    IN IF ~m.ok THEN m ELSE IF ~r.ok THEN r
       ELSE FoldFrom(list, i + 1, a, LastId(a), m.ctx, r.ctx)

FromMerged(f, m) == IF ~m.ok THEN m ELSE Ok(f.ar, f.id, m.ctx)

FromFolded(ctx, f) ==
    IF ~f.ok THEN f ELSE FromMerged(f, mergeContexts(ctx, f.left, f.right))

FromSecondBuilt(list, ctx, l, r) ==
    LET a == appendNode(r.ar, [MkNode("JOIN", <<l.id, r.id>>) EXCEPT !.joinType = "INNER"], <<>>)
    IN IF ~r.ok THEN r ELSE FromFolded(ctx, FoldFrom(list, 3, a, LastId(a), l.ctx, r.ctx))

FromFirstBuilt(list, ctx, l) ==
    IF ~l.ok THEN l ELSE FromSecondBuilt(list, ctx, l, buildTable(list[2], <<>>, l.ar))

buildFrom(list, ctx, ar) ==
    IF Len(list) = 1 THEN buildTable(list[1], ctx, ar)
    ELSE FromFirstBuilt(list, ctx, buildTable(list[1], <<>>, ar))

(***************************************************************************)
(* OrderBinder.BindExpr, one ORDER BY item at a time; an item may append  *)
(* a hidden projection, so the projection list is threaded through.       *)
(*   ordinal k: checked against the projections bound so far, then the    *)
(*      type is read from ctx.projects[colPos] (0-based index colPos) and *)
(*      the reference is to slot colPos - 1; an index equal to the length *)
(*      is Go's index-out-of-range panic.                                 *)
(*   expression: bound by the projection binder and deduplicated against *)
(*      projectByExpr (first equal projection), else appended.            *)
(***************************************************************************)
OrderExprBound(projects, projectTag, b) ==
    IF ~b.ok THEN b
    ELSE LET found == {i \in DOMAIN projects : projects[i] = b.expr}
             projs == IF found = {} THEN Append(projects, b.expr) ELSE projects
             slot  == IF found = {} THEN Len(projects) ELSE Min(found) - 1
         IN [ok |-> TRUE, projects |-> projs, bs |-> b.bs,
             orderBy |-> [expr |-> Col(projectTag, slot), typ |-> TypeOf(projs[slot + 1])]]

OrderItemBind(item, projects, tags, ctx, bs) ==
    IF item.kind = "ordinal"
    THEN LET colPos == item.val IN
         IF colPos < 1 \/ colPos > Len(projects) THEN Fail("SyntaxError")
         ELSE IF colPos >= Len(projects) THEN Fail("IndexOutOfRange")
         ELSE [ok |-> TRUE, projects |-> projects, bs |-> bs,
               orderBy |-> [expr |-> Col(tags.project, colPos - 1),
                            typ |-> TypeOf(projects[colPos + 1])]]
    ELSE OrderExprBound(projects, tags.project, BindRoot("projection", item.expr, ctx, bs, tags))

RECURSIVE BindOrderBy(_, _, _, _, _, _, _), OrderItemBound(_, _, _, _, _, _)
BindOrderBy(items, i, projects, orderBys, tags, ctx, bs) ==
    IF i > Len(items) THEN [ok |-> TRUE, projects |-> projects, orderBy |-> orderBys, bs |-> bs]
    ELSE OrderItemBound(items, i, orderBys, tags, ctx, OrderItemBind(items[i], projects, tags, ctx, bs))

OrderItemBound(items, i, orderBys, tags, ctx, b) ==
    IF ~b.ok THEN b
    ELSE BindOrderBy(items, i + 1, b.projects, Append(orderBys, b.orderBy), tags, ctx, b.bs)

\* ctx.unfoldStar(""): every column of every binding, in binding order,
\* as qualified names.
unfoldStar(ctx) == FoldLeft(LAMBDA acc, b : acc \o <<Col(b.table, 0), Col(b.table, 1)>>, <<>>, ctx)

\* The select list: each "*" unfolded, other items as they are.
BuildSelectList(items, ctx) ==
    FoldLeft(LAMBDA acc, it : acc \o (IF it.kind = "star" THEN unfoldStar(ctx) ELSE <<it>>), <<>>, items)

(***************************************************************************)
(* buildSelect: FROM, select-list unfolding, a FILTER for WHERE, the      *)
(* group/aggregate/project tags, GROUP BY, HAVING, the projection list    *)
(* and ORDER BY bound in that order; then the GroupingError check, the    *)
(* AGG node and the HAVING FILTER (only when there are groups or          *)
(* aggregates), the PROJECT, for DISTINCT an AGG over it, a SORT for     *)
(* ORDER BY, and a result PROJECT reading distinctTag when ORDER BY added *)
(* hidden projections.  Without DISTINCT, distinctTag = projectTag.  Each *)
(* step is an operator taking the result of the call before it.          *)
(***************************************************************************)
SelectSorted(ctx, resultLen, distinctTag, o, a4) ==
    LET a5 == genNewTag(a4)   \* resultTag
        a6 == IF Len(o.projects) > resultLen
              THEN appendNode(a5, [MkNode("PROJECT", <<LastId(a4)>>) EXCEPT
                                     !.projects = [i \in 1..resultLen |-> Col(distinctTag, i - 1)]],
                              <<a5.nextTag>>)
              ELSE a4
    IN Ok(a6, LastId(a6), ctx)

\* distinctBinder.GetProjectionList(): the DISTINCT AGG's projection, the
\* columns of the PROJECT below it (the projection binder's output).
GetProjectionList(projectTag, n) == [i \in 1..n |-> Col(projectTag, i - 1)]

\* The PROJECT over node id, for DISTINCT an AGG over it tagged
\* <<distinctTag, a new tag>>, the SORT, then the result PROJECT.
SelectAggregated(s, ctx, id, a, tags, resultLen, o) ==
    LET a3 == appendNode(a, [MkNode("PROJECT", <<id>>) EXCEPT !.projects = o.projects],
                         <<tags.project>>)
        g  == genNewTag(a3)
        ad == IF ~s.distinct THEN a3
              ELSE appendNode(g, [MkNode("AGG", <<LastId(a3)>>) EXCEPT
                                    !.projects = GetProjectionList(tags.project, Len(o.projects))],
                              <<tags.distinct, g.nextTag>>)
        a4 == IF s.order = <<>> THEN ad
              ELSE appendNode(ad, [MkNode("SORT", <<LastId(ad)>>) EXCEPT !.orderBy = o.orderBy], <<>>)
    IN SelectSorted(ctx, resultLen, tags.distinct, o, a4)

\* Variant: only GROUP BY, not aggregates, makes a bound column an error.
SelectOrderBound_GroupsOnly(s, ctx, id1, a2, tags, having, resultLen, o) ==
    LET agg == [MkNode("AGG", <<id1>>) EXCEPT
                  !.groupBy = [i \in DOMAIN o.bs.groups |-> BindExpr(o.bs.groups[i], ctx)],
                  !.aggList = [i \in DOMAIN o.bs.aggregates |-> BindExpr(o.bs.aggregates[i], ctx)]]
        a3 == appendNode(a2, agg, <<tags.group, tags.aggregate>>)
        a4 == appendNode(a3, FilterNode(LastId(a3), having), <<>>)
    IN IF ~o.ok THEN o
       ELSE IF o.bs.groups # <<>> /\ o.bs.boundCols # <<>> THEN Fail("GroupingError")
       ELSE IF o.bs.groups = <<>> /\ o.bs.aggregates = <<>> THEN SelectAggregated(s, ctx, id1, a2, tags, resultLen, o)
       ELSE IF having = <<>> THEN SelectAggregated(s, ctx, LastId(a3), a3, tags, resultLen, o)
       ELSE SelectAggregated(s, ctx, LastId(a4), a4, tags, resultLen, o)

\* After ORDER BY: a plain column bound while grouping is GroupingError;
\* with groups or aggregates an AGG node over id1 and, for a non-empty
\* HAVING, a FILTER over it.
SelectOrderBound(s, ctx, id1, a2, tags, having, resultLen, o) ==
    LET grouped == o.bs.groups # <<>> \/ o.bs.aggregates # <<>>
        agg == [MkNode("AGG", <<id1>>) EXCEPT
                  !.groupBy = [i \in DOMAIN o.bs.groups |-> BindExpr(o.bs.groups[i], ctx)],
                  !.aggList = [i \in DOMAIN o.bs.aggregates |-> BindExpr(o.bs.aggregates[i], ctx)]]
        a3 == appendNode(a2, agg, <<tags.group, tags.aggregate>>)
        a4 == appendNode(a3, FilterNode(LastId(a3), having), <<>>)
    IN IF ~o.ok THEN o
       ELSE IF grouped /\ o.bs.boundCols # <<>> THEN Fail("GroupingError")
       ELSE IF ~grouped THEN SelectAggregated(s, ctx, id1, a2, tags, resultLen, o)
       ELSE IF having = <<>> THEN SelectAggregated(s, ctx, LastId(a3), a3, tags, resultLen, o)
       ELSE SelectAggregated(s, ctx, LastId(a4), a4, tags, resultLen, o)

SelectProjected(s, ctx, id1, a2, tags, having, p) ==
    IF ~p.ok THEN p
    ELSE SelectOrderBound(s, ctx, id1, a2, tags, having, Len(p.exprs),
                          BindOrderBy(s.order, 1, p.exprs, <<>>, tags, ctx, p.bs))

SelectHavingBound(s, ctx, id1, a2, tags, h) ==
    IF ~h.ok THEN h
    ELSE SelectProjected(s, ctx, id1, a2, tags, h.exprs,
                         BindList("projection", BuildSelectList(s.items, ctx), 1, ctx, h.bs, tags, <<>>))

SelectGrouped(s, ctx, id1, a2, tags, g) ==
    IF ~g.ok THEN g
    ELSE SelectHavingBound(s, ctx, id1, a2, tags, BindList("having", s.having, 1, ctx, g.bs, tags, <<>>))

\* After the WHERE FILTER (node id1) and the three new tags: a fourth for
\* DISTINCT, else distinctTag = projectTag.
SelectTagged(s, ctx, id1, a) ==
    LET a2 == IF s.distinct THEN genNewTag(a) ELSE a
        tags == [group |-> a.nextTag - 2, aggregate |-> a.nextTag - 1, project |-> a.nextTag,
                 distinct |-> a2.nextTag]
    IN SelectGrouped(s, ctx, id1, a2, tags, BindGroupBy(s.groupBy, ctx, NoBinds))

SelectWhereBound(s, f, w) ==
    LET a1 == IF s.where = <<>> THEN f.ar ELSE appendNode(f.ar, FilterNode(f.id, w.exprs), <<>>)
    IN IF ~w.ok THEN w
       ELSE SelectTagged(s, f.ctx, IF s.where = <<>> THEN f.id ELSE LastId(a1),
                         genNewTag(genNewTag(genNewTag(a1))))

SelectFromBuilt(s, f) ==
    IF ~f.ok THEN f ELSE SelectWhereBound(s, f, BindConds(s.where, f.ctx))

buildSelect(s, ar) == SelectFromBuilt(s, buildFrom(s.from, <<>>, ar))


(***************************************************************************)
(* pushdownFilters.  Each call gets the filters owed to the subtree at id *)
(* and returns the id that now stands for it and the filters it could not *)
(* push ("cant").  enumerateTags, containsTag and replaceColRefs are the  *)
(* helpers it calls.                                                      *)
(***************************************************************************)
RECURSIVE enumerateTags(_, _)
enumerateTags(ar, id) ==
    IF ar.tagsByNode[id] # <<>> THEN Range(ar.tagsByNode[id])
    ELSE UNION {enumerateTags(ar, c) : c \in Range(ar.nodes[id].children)}

replaceColRefs(e, tag, list) ==
    MapCols(e, [c \in ColArgs(e) |-> IF c.rel = tag THEN list[c.pos + 1] ELSE c])

\* Variant: a left-side filter pushed below a full outer join.
JoinFilterDest_NoOuterCheck(f, joinType, side, isEqui) ==
    CASE side = 0 -> IF f.kind = "bool" /\ f.val = TRUE THEN {}
                     ELSE (CASE joinType = "INNER" -> {"left", "right"}
                             [] joinType \in {"LEFT", "SEMI", "ANTI"} -> {"left"}
                             [] joinType = "RIGHT" -> {"right"}
                             [] OTHER -> {"cant"})
      [] side = 1 -> IF joinType # "RIGHT" THEN {"left"} ELSE {"cant"}
      [] side = 2 -> IF joinType \in {"INNER", "RIGHT"} THEN {"right"} ELSE {"cant"}
      [] side = 3 -> IF joinType = "INNER" /\ isEqui THEN {"on"} ELSE {"cant"}

\* Where a filter arriving at a join goes: a subset of {"left", "right",
\* "on", "cant"}; the empty set drops it (a constant TRUE).
JoinFilterDest(f, joinType, side, isEqui) ==
    CASE side = 0 -> IF f.kind = "bool" /\ f.val = TRUE THEN {}
                     ELSE (CASE joinType = "INNER" -> {"left", "right"}
                             [] joinType \in {"LEFT", "SEMI", "ANTI"} -> {"left"}
                             [] joinType = "RIGHT" -> {"right"}
                             [] OTHER -> {"cant"})
      [] side = 1 -> IF joinType \notin {"RIGHT", "OUTER"} THEN {"left"} ELSE {"cant"}
      [] side = 2 -> IF joinType \in {"INNER", "RIGHT"} THEN {"right"} ELSE {"cant"}
      [] side = 3 -> IF joinType = "INNER" /\ isEqui THEN {"on"} ELSE {"cant"}

\* containsTag: the filter reads a column of the scope tag.
containsTag(e, tag) == \E c \in ColArgs(e) : c.rel = tag

RECURSIVE pushdownFilters(_, _, _), PushdownChild(_, _, _, _), PushdownJoin(_, _, _),
          PushdownAgg(_, _, _), PushdownProject(_, _, _)

\* The parent p pushes fs into its k-th child and puts a FILTER over the
\* child for whatever came back; the child slot then names the result.
PushdownChild(ar, p, k, fs) ==
    LET c == ar.nodes[p].children[k]
        r == pushdownFilters(ar, c, fs)
        w == IF r.cant = <<>> THEN r
             ELSE LET a == appendNode(r.ar, FilterNode(c, r.cant), <<>>)
                  IN [ar |-> a, id |-> LastId(a)]
    IN [w.ar EXCEPT !.nodes[p].children[k] = w.id]

\* The JOIN case: strengthen LEFT/RIGHT to INNER on the first filter that
\* reads the nullable side without an argument reading both sides, then
\* route every filter by its side.
PushdownJoin(ar, id, filters) ==
    LET node     == ar.nodes[id]
        leftTags == enumerateTags(ar, node.children[1])
        Side(e)  == getJoinSide(e, leftTags)
        canTurnInner(f) == ~(f.kind = "fn" /\ \E i \in DOMAIN f.args : Side(f.args[i]) = 3)
        turnInner == \E i \in DOMAIN filters :
                        /\ canTurnInner(filters[i])
                        /\ \/ Side(filters[i]) \in {2, 3} /\ node.joinType = "LEFT"
                           \/ Side(filters[i]) \in {1, 3} /\ node.joinType = "RIGHT"
        fs       == IF turnInner THEN node.onList \o filters ELSE filters
        joinType == IF turnInner THEN "INNER" ELSE node.joinType
        onList   == IF turnInner THEN <<>> ELSE node.onList
        isEqui(f) == IF turnInner
                     THEN IsEquiFn(f) /\ Side(f.args[1]) # 3 /\ Side(f.args[2]) # 3
                     ELSE IsEquiFn(f)
        To(d) == SelectSeq(fs, LAMBDA f : d \in JoinFilterDest(f, joinType, Side(f), isEqui(f)))
        ar1 == [ar EXCEPT !.nodes[id].joinType = joinType,
                          !.nodes[id].onList = onList \o To("on")]
        ar2 == PushdownChild(ar1, id, 1, To("left"))
    IN [ar |-> PushdownChild(ar2, id, 2, To("right")), id |-> id, cant |-> To("cant")]

\* The AGG case: a filter that reads no aggregate goes below the AGG with
\* its group columns replaced by the GROUP BY expressions; the others are
\* returned to the parent.
PushdownAgg(ar, id, filters) ==
    LET node == ar.nodes[id]
        readsAgg(f) == containsTag(f, ar.tagsByNode[id][2])
        can == SelectSeq(filters, LAMBDA f : ~readsAgg(f))
        fs  == [i \in DOMAIN can |-> replaceColRefs(can[i], ar.tagsByNode[id][1], node.groupBy)]
    IN [ar |-> PushdownChild(ar, id, 1, fs), id |-> id, cant |-> SelectSeq(filters, readsAgg)]

\* The PROJECT case: every filter goes below with the projected columns
\* replaced by their expressions.
PushdownProject(ar, id, filters) ==
    LET fs == [i \in DOMAIN filters |-> replaceColRefs(filters[i], ar.tagsByNode[id][1], ar.nodes[id].projects)]
    IN [ar |-> PushdownChild(ar, id, 1, fs), id |-> id, cant |-> <<>>]

pushdownFilters(ar, id, filters) ==
    LET node == ar.nodes[id] IN
    CASE node.type = "FILTER" ->
            LET r == pushdownFilters(ar, node.children[1], filters \o node.filters)
            IN IF r.cant # <<>>
               THEN [ar |-> [r.ar EXCEPT !.nodes[id].children[1] = r.id,
                                         !.nodes[id].filters = r.cant],
                     id |-> id, cant |-> <<>>]
               ELSE [ar |-> r.ar, id |-> r.id, cant |-> <<>>]
      [] node.type = "JOIN" -> PushdownJoin(ar, id, filters)
      [] node.type = "AGG" -> PushdownAgg(ar, id, filters)
      [] node.type = "PROJECT" -> PushdownProject(ar, id, filters)
      [] node.type = "TABLE_SCAN" ->
            [ar |-> [ar EXCEPT !.nodes[id].filters = @ \o filters], id |-> id, cant |-> <<>>]
      [] OTHER ->
            IF node.children # <<>>
            THEN [ar |-> PushdownChild(ar, id, 1, filters), id |-> id, cant |-> <<>>]
            ELSE [ar |-> ar, id |-> id, cant |-> filters]

(***************************************************************************)
(* remapAllColRefs: bottom-up, each node builds its ProjectList and       *)
(* returns the map from <<tag, colPos>> to <<relPos, colPos>> its parent  *)
(* must use; a column missing from the map is an error.                   *)
(***************************************************************************)
Remappable(e, colMap) == \A c \in ColArgs(e) : <<c.rel, c.pos>> \in DOMAIN colMap
AllRemappable(es, colMap) == \A i \in DOMAIN es : Remappable(es[i], colMap)

remapExpr(e, colMap) ==
    MapCols(e, [c \in ColArgs(e) |-> Col(colMap[<<c.rel, c.pos>>][1], colMap[<<c.rel, c.pos>>][2])])

RemapAll(es, colMap) == [i \in DOMAIN es |-> remapExpr(es[i], colMap)]

\* The pass-through projection of a child with n columns (RelPos rel).
ColRefs(rel, n) == [i \in 1..n |-> Col(rel, i - 1)]

Width(ar, id) == Len(ar.nodes[id].projects)

\* A join's output puts the right child's columns after the left's colIdx.
RightColMap(rightMap, colIdx) == [k \in DOMAIN rightMap |-> <<0, colIdx + rightMap[k][2]>>]

RemapOk(ar, m) == [ok |-> TRUE, ar |-> ar, map |-> m]

\* Variant: the aggregate columns numbered from 0, not after the groups.
AggColMap_NoGroupOffset(groupTag, aggregateTag, nG, nA) ==
    [k \in {<<groupTag, i>> : i \in 0..nG - 1} \cup {<<aggregateTag, j>> : j \in 0..nA - 1} |-> <<0, k[2]>>]

\* An AGG's output: nG group columns, then nA aggregate columns.
AggColMap(groupTag, aggregateTag, nG, nA) ==
    [k \in {<<groupTag, i>> : i \in 0..nG - 1} \cup {<<aggregateTag, j>> : j \in 0..nA - 1} |->
        IF k[1] = groupTag THEN <<0, k[2]>> ELSE <<0, nG + k[2]>>]

\* The cases of a node with one child, given the child's result c: the
\* node's own expressions are remapped through the child's map.
\* A DISTINCT AGG (one with a ProjectList): the projection becomes its
\* GroupBy, and its output, column i at distinctTag, is slot i.
RemapDistinctAgg(ar, id, c) ==
    LET node == ar.nodes[id]
        n == Len(node.projects)
    IN IF ~AllRemappable(node.projects, c.map) THEN Fail("RemapError")
       ELSE RemapOk([c.ar EXCEPT !.nodes[id].groupBy = RemapAll(node.projects, c.map),
                                 !.nodes[id].projects = ColRefs(-1, n)],
                    [k \in {<<ar.tagsByNode[id][1], i>> : i \in 0..n - 1} |-> <<0, k[2]>>])

\* AGG: group columns (RelPos -1) then aggregate columns (RelPos -2).
RemapAgg(ar, id, c) ==
    LET node == ar.nodes[id]
        nG == Len(node.groupBy)
        nA == Len(node.aggList)
    IN IF ~c.ok THEN c ELSE IF node.projects # <<>> THEN RemapDistinctAgg(ar, id, c)
       ELSE IF ~AllRemappable(node.groupBy \o node.aggList, c.map) THEN Fail("RemapError")
       ELSE RemapOk([c.ar EXCEPT !.nodes[id].groupBy = RemapAll(@, c.map),
                                 !.nodes[id].aggList = RemapAll(@, c.map),
                                 !.nodes[id].projects = ColRefs(-1, nG) \o ColRefs(-2, nA)],
                    AggColMap(ar.tagsByNode[id][1], ar.tagsByNode[id][2], nG, nA))

\* SORT and FILTER: the identity projection, and the child's map returned.
RemapPassThrough(ar, id, c) ==
    LET node == ar.nodes[id]
        exprs == IF node.type = "SORT" THEN [i \in DOMAIN node.orderBy |-> node.orderBy[i].expr]
                 ELSE node.filters
    IN IF ~c.ok THEN c ELSE IF ~AllRemappable(exprs, c.map) THEN Fail("RemapError")
       ELSE RemapOk([c.ar EXCEPT
                       !.nodes[id].orderBy = [i \in DOMAIN @ |-> [@[i] EXCEPT !.expr = remapExpr(@, c.map)]],
                       !.nodes[id].filters = RemapAll(@, c.map),
                       !.nodes[id].projects = ColRefs(0, Width(c.ar, node.children[1]))], c.map)

\* PROJECT: each projection registered at projectTag.
RemapProject(ar, id, c) ==
    LET node == ar.nodes[id]
        projectTag == ar.tagsByNode[id][1]
    IN IF ~c.ok THEN c ELSE IF ~AllRemappable(node.projects, c.map) THEN Fail("RemapError")
       ELSE RemapOk([c.ar EXCEPT !.nodes[id].projects = RemapAll(@, c.map)],
                    [k \in {<<projectTag, i - 1>> : i \in DOMAIN node.projects} |-> <<0, k[2]>>])

RECURSIVE remapAllColRefs(_, _)
remapAllColRefs(ar, id) ==
    LET node == ar.nodes[id] IN
    CASE node.type = "TABLE_SCAN" ->
            LET tag == ar.tagsByNode[id][1]
                m   == [k \in {<<tag, c>> : c \in ColPositions} |-> <<0, k[2]>>]
            IN IF ~AllRemappable(node.filters, m) THEN Fail("RemapError")
               ELSE RemapOk([ar EXCEPT !.nodes[id].projects = ColRefs(0, Cardinality(ColPositions)),
                                       !.nodes[id].filters = RemapAll(@, m)], m)
      [] node.type = "JOIN" ->
            LET l == remapAllColRefs(ar, node.children[1])
                colIdx == Cardinality(DOMAIN l.map)
                r == remapAllColRefs(l.ar, node.children[2])
                returnMap   == RightColMap(r.map, colIdx) @@ l.map
                joinCondMap == [k \in DOMAIN r.map |-> <<1, r.map[k][2]>>] @@ l.map
                rightCols == IF node.joinType \in {"SEMI", "ANTI", "MARK"} THEN <<>>
                             ELSE ColRefs(1, Width(r.ar, node.children[2]))
            IN IF ~l.ok THEN l ELSE IF ~r.ok THEN r
               ELSE IF ~AllRemappable(node.onList, joinCondMap) THEN Fail("RemapError")
               ELSE RemapOk([r.ar EXCEPT
                               !.nodes[id].projects = @ \o ColRefs(0, Width(l.ar, node.children[1]))
                                                        \o rightCols,
                               !.nodes[id].onList = RemapAll(@, joinCondMap)], returnMap)
      [] node.type = "AGG" -> RemapAgg(ar, id, remapAllColRefs(ar, node.children[1]))
      [] node.type \in {"SORT", "FILTER"} -> RemapPassThrough(ar, id, remapAllColRefs(ar, node.children[1]))
      [] node.type = "PROJECT" -> RemapProject(ar, id, remapAllColRefs(ar, node.children[1]))
      [] node.type = "VALUE_SCAN" -> RemapOk(ar, <<>>)
      [] OTHER -> Fail("RemapError")

(***************************************************************************)
(* What a plan computes (the executor's meaning of the plan nodes), used  *)
(* only by the properties.  Before remapping a row maps <<tag, colPos>>   *)
(* to a value; after remapping a node's output is the tuple of its        *)
(* ProjectList, evaluated with RelPos i naming the i-th child's tuple.    *)
(***************************************************************************)
PlanJoinType(jt) == IF jt = "OUTER" THEN "FULL" ELSE jt

RECURSIVE OutKeys(_, _)
OutKeys(ar, id) ==
    LET node == ar.nodes[id] IN
    CASE node.type = "TABLE_SCAN" -> {<<ar.tagsByNode[id][1], c>> : c \in ColPositions}
      [] node.type = "JOIN" -> OutKeys(ar, node.children[1]) \cup OutKeys(ar, node.children[2])
      [] node.type = "PROJECT" -> {<<ar.tagsByNode[id][1], i - 1>> : i \in DOMAIN node.projects}
      [] node.type = "AGG" /\ node.projects # <<>> ->
            {<<ar.tagsByNode[id][1], i - 1>> : i \in DOMAIN node.projects}
      [] node.type = "AGG" -> {<<ar.tagsByNode[id][1], i - 1>> : i \in DOMAIN node.groupBy}
                                \cup {<<ar.tagsByNode[id][2], j - 1>> : j \in DOMAIN node.aggList}
      [] OTHER -> OutKeys(ar, node.children[1])

\* An aggregation of rows: one output per GROUP BY key (a single one when
\* there is no GROUP BY, even for no rows); Env(row) is the environment
\* a row's expressions read, Out(k, members) the output for key k.
Aggregate(node, rows, Env(_), Out(_, _)) ==
    LET Key(r) == [i \in DOMAIN node.groupBy |-> ExprValue(node.groupBy[i], Env(r))]
        keys   == IF node.groupBy = <<>> THEN {<<>>} ELSE {Key(r) : r \in rows}
    IN {Out(k, {Env(r) : r \in {r \in rows : Key(r) = k}}) : k \in keys}

\* The values an AGG's group column i and aggregate column j take.
AggOut(node, keys, groupTag, aggregateTag, k, members) ==
    [x \in keys |-> IF x[1] = groupTag THEN k[x[2] + 1] ELSE AggValue(node.aggList[x[2] + 1], members)]

RECURSIVE PlanRows(_, _, _)
PlanRows(ar, id, db) ==
    LET node == ar.nodes[id] IN
    CASE node.type = "TABLE_SCAN" ->
            LET tag == ar.tagsByNode[id][1]
                scan == {[k \in {<<tag, c>> : c \in ColPositions} |-> IF k[2] = 0 THEN r ELSE db[node.table][r]]
                            : r \in DOMAIN db[node.table]}
            IN {row \in scan : AllHold(node.filters, row)}
      [] node.type = "JOIN" ->
            LET l == node.children[1]
                r == node.children[2]
            IN JoinRows(PlanJoinType(node.joinType), PlanRows(ar, l, db), PlanRows(ar, r, db),
                        NullRow(OutKeys(ar, l)), NullRow(OutKeys(ar, r)),
                        LAMBDA x, y : AllHold(node.onList, x @@ y), LAMBDA x, y : x @@ y)
      [] node.type = "FILTER" -> {row \in PlanRows(ar, node.children[1], db) : AllHold(node.filters, row)}
      [] node.type = "AGG" /\ node.projects = <<>> ->
            Aggregate(node, PlanRows(ar, node.children[1], db), LAMBDA r : r,
                      LAMBDA k, m : AggOut(node, OutKeys(ar, id), ar.tagsByNode[id][1], ar.tagsByNode[id][2], k, m))
      [] node.type \in {"PROJECT", "AGG"} ->   \* PROJECT, or the DISTINCT AGG's distinct rows
            {[k \in OutKeys(ar, id) |-> ExprValue(node.projects[k[2] + 1], row)]
                : row \in PlanRows(ar, node.children[1], db)}
      [] OTHER -> PlanRows(ar, node.children[1], db)

\* The PROJECT whose columns a root delivers (a SORT passes them through).
ResultProject(ar, id) == IF ar.nodes[id].type = "SORT" THEN ar.nodes[id].children[1] ELSE id

\* The result tuples of a tag-based plan.
PlanResult(plan, db) ==
    LET root == plan.ar.nodes[ResultProject(plan.ar, plan.root)]
        tag  == plan.ar.tagsByNode[ResultProject(plan.ar, plan.root)][1]
    IN {[i \in DOMAIN root.projects |-> row[<<tag, i - 1>>]] : row \in PlanRows(plan.ar, plan.root, db)}

\* The environment a positional expression reads: RelPos 0 = the first
\* input tuple, RelPos 1 = the second.
Env(x, y) == [k \in {<<0, i - 1>> : i \in DOMAIN x} \cup {<<1, i - 1>> : i \in DOMAIN y} |->
                IF k[1] = 0 THEN x[k[2] + 1] ELSE y[k[2] + 1]]

Output(projects, x, y) == [i \in DOMAIN projects |-> ExprValue(projects[i], Env(x, y))]

NullTuple(n) == [i \in 1..n |-> NULL]

RECURSIVE PosRows(_, _, _)
PosRows(ar, id, db) ==
    LET node == ar.nodes[id] IN
    CASE node.type = "TABLE_SCAN" ->
            LET scan == {<<r, db[node.table][r]>> : r \in DOMAIN db[node.table]}
            IN {Output(node.projects, t, <<>>) : t \in {t \in scan : AllHold(node.filters, Env(t, <<>>))}}
      [] node.type = "JOIN" ->
            LET l == node.children[1]
                r == node.children[2]
            IN JoinRows(PlanJoinType(node.joinType), PosRows(ar, l, db), PosRows(ar, r, db),
                        NullTuple(Width(ar, l)), NullTuple(Width(ar, r)),
                        LAMBDA x, y : AllHold(node.onList, Env(x, y)),
                        LAMBDA x, y : Output(node.projects, x, y))
      [] node.type = "FILTER" ->
            {Output(node.projects, t, <<>>)
                : t \in {t \in PosRows(ar, node.children[1], db) : AllHold(node.filters, Env(t, <<>>))}}
      [] node.type = "AGG" ->
            LET nG == Len(node.groupBy)
                keys == {<<-1, i>> : i \in 0..nG - 1} \cup {<<-2, j>> : j \in 0..Len(node.aggList) - 1}
            IN Aggregate(node, PosRows(ar, node.children[1], db), LAMBDA t : Env(t, <<>>),
                         LAMBDA k, m : [i \in DOMAIN node.projects |->
                                          ExprValue(node.projects[i], AggOut(node, keys, -1, -2, k, m))])
      [] OTHER -> {Output(node.projects, t, <<>>) : t \in PosRows(ar, node.children[1], db)}

(***************************************************************************)
(* The handlers.                                                          *)
(***************************************************************************)
EmptyBuilder == [nodes |-> <<>>, tagsByNode |-> <<>>, nextTag |-> 0]

NoPlan == [ar |-> EmptyBuilder, root |-> 0]

Init ==
    /\ stmt \in Stmts
    /\ phase = "build"
    /\ builder = EmptyBuilder
    /\ steps = <<>>
    /\ err = NoError
    /\ builtPlan = NoPlan
    /\ pushedPlan = NoPlan

\* Variant: a failed build leaves no error behind.
BuildSelectDone_DropsErr(r) ==
    \/ /\ r.ok
       /\ builder' = r.ar
       /\ steps' = <<r.id>>
       /\ phase' = "optimize"
       /\ builtPlan' = [ar |-> r.ar, root |-> r.id]
       /\ UNCHANGED <<err, pushedPlan>>
    \/ /\ ~r.ok
       /\ phase' = "failed"
       /\ UNCHANGED <<err, builder, steps, builtPlan, pushedPlan>>

\* The end of runBuildSelect with the result r of buildSelect: its root
\* appended to Steps, or the error ending the compilation.
BuildSelectDone(r) ==
    \/ /\ r.ok
       /\ builder' = r.ar
       /\ steps' = <<r.id>>
       /\ phase' = "optimize"
       /\ builtPlan' = [ar |-> r.ar, root |-> r.id]
       /\ UNCHANGED <<err, pushedPlan>>
    \/ /\ ~r.ok
       /\ phase' = "failed"
       /\ err' = r.err
       /\ UNCHANGED <<builder, steps, builtPlan, pushedPlan>>

\* runBuildSelect: buildSelect(stmt, ctx, true).
BuildSelect ==
    /\ phase = "build"
    /\ BuildSelectDone(buildSelect(stmt, builder))
    /\ UNCHANGED stmt

\* createQuery: pushdownFilters on every step (its cantPushdown dropped),
\* Steps[i] replaced by the returned id, then remapAllColRefs from the id
\* the step had before the pushdown.
CreateQuery ==
    /\ phase = "optimize"
    /\ LET rootId == steps[1]
           p == pushdownFilters(builder, rootId, <<>>)
           m == remapAllColRefs(p.ar, rootId)
       IN /\ steps' = <<p.id>>
          /\ pushedPlan' = [ar |-> p.ar, root |-> p.id]
          /\ builder' = IF m.ok THEN m.ar ELSE p.ar
          /\ phase' = IF m.ok THEN "done" ELSE "failed"
          /\ err' = IF m.ok THEN err ELSE m.err
    /\ UNCHANGED <<stmt, builtPlan>>

Next == BuildSelect \/ CreateQuery

Spec == Init /\ [][Next]_vars /\ WF_vars(Next)

(***************************************************************************)
(* Properties.                                                            *)
(***************************************************************************)
Phases == {"build", "optimize", "done", "failed"}

\* The databases the statement can tell apart: contents of its own tables.
StmtDatabases == DatabasesOver(ToSet(StarTables(stmt)))

TypeOK ==
    /\ phase \in Phases
    /\ builder.nextTag \in Nat
    /\ Len(builder.nodes) = Len(builder.tagsByNode)
    /\ \A i \in DOMAIN builder.nodes : builder.nodes[i].type \in NodeTypes
    /\ steps \in Seq(DOMAIN builder.nodes)
    /\ (phase = "failed") <=> (err # NoError)

\* buildSelect is sound: whenever it returns a plan, that plan computes, on
\* every database, exactly the rows SQL defines for the statement (the
\* join placement of ON conditions, WHERE, star expansion and the hidden
\* ORDER BY projections included).
BuildSound ==
    builtPlan.root # 0 =>
        \A db \in StmtDatabases : PlanResult(builtPlan, db) = SqlResult(stmt, db)

\* pushdownFilters preserves the meaning of the plan: moving WHERE/ON
\* conditions to the scans and join OnLists, turning outer joins inner,
\* and dropping constant TRUE filters never changes the result.
PushdownSound ==
    pushedPlan.root # 0 =>
        \A db \in StmtDatabases : PlanResult(pushedPlan, db) = PlanResult(builtPlan, db)

\* remapAllColRefs, started from the root id Steps held before pushdown,
\* succeeds for every plan buildSelect produced, and the positional plan
\* it leaves computes the same rows as the tag-based plan it was given.
RemapSound ==
    /\ (phase = "failed" /\ builtPlan.root # 0) => err # "RemapError"
    /\ phase = "done" =>
         \A db \in StmtDatabases : PosRows(builder, steps[1], db) = PlanResult(pushedPlan, db)

\* buildSelect reports GroupingError exactly for the statements that break
\* the grouping rule (spec 4.3 step 8, Scenario F): a column outside an
\* aggregate in HAVING, or, when the query groups or aggregates, in the
\* select list (a star's columns included) or ORDER BY, that is not a
\* GROUP BY expression.  The code checks boundCols, which the projection
\* binder fills while binding the select list and ORDER BY, only after
\* ORDER BY, against groups and aggregates collected by three binders.
GroupingChecked ==
    phase # "build" => ((err = "GroupingError") <=> GroupingViolation(stmt))

\* ORDER BY <k> names the k-th column of the select list: an ordinal
\* within the star columns binds (no error, no index panic) to slot k - 1
\* with that column's type, and one beyond them is the "not in select
\* list" SyntaxError, whatever hidden projections earlier ORDER BY items
\* added (order_binder.go, the NumVal case).
OrderByOrdinalBinds ==
    LET width == 2 * Len(StarTables(stmt))
        IsOrd(i) == stmt.order[i].kind = "ordinal"
        outOfList == \E i \in DOMAIN stmt.order : IsOrd(i) /\ stmt.order[i].val \notin 1..width
        sorts == {n \in Range(builtPlan.ar.nodes) : n.type = "SORT"}
    IN /\ err # "IndexOutOfRange"
       /\ builtPlan.root # 0 => ~outOfList
       /\ \A n \in sorts, i \in DOMAIN stmt.order :
             IsOrd(i) => n.orderBy[i].typ = TypeOf(builtPlan.ar.nodes[n.children[1]].projects[stmt.order[i].val])

====
