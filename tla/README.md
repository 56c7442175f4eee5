# TLA+ models of the MatrixOne sources in `src/`

This directory holds TLA+ models of the code under `src/`, the TLC
configurations that check them, and `PROJECT.json`. `PROJECT.json` lists the
components, the runs, the mutants, the map from TLA+ definitions to source
lines, the findings, and the hazards.

## 1. Inventory of the system

| Part | Source | State | Operations | Interacts with |
|---|---|---|---|---|
| Plan builder | `pkg/sql/plan2/query_builder.go` | `qry.Nodes` (append-only arena of plan nodes), `qry.Steps` (root ids), `tagsByNode`, `nextTag`, `ctxByNode`; one `BindContext` per scope (bindings by table, by tag, by column) | `buildSelect`, `buildFrom`, `buildTable`, `buildJoinTable`, `addBinding`, `appendNode`, `genNewTag` | the binders, which bind AST expressions against a context; the catalog (`compCtx.Resolve`) |
| ORDER BY binder | `pkg/sql/plan2/order_binder.go` | reads and extends `ctx.projects`, `ctx.projectByExpr`, `ctx.aliasMap` | `OrderBinder.BindExpr` (alias, ordinal, expression) | called by `buildSelect` once per ORDER BY item |
| Optimizer passes | `query_builder.go` | rewrites the node arena in place | `createQuery` runs `pushdownFilters` (predicate placement, outer-to-inner strengthening), then `remapAllColRefs` (tag references become child/column positions) | the tree the builder produced |
| `IsNotNull` operator | `pkg/sql/plan2/function/operator/isnotnull.go` | none | one vectorized function | the expression evaluator |
| `oct` builtin | `.../builtin/unary/oct.go` | none | one vectorized function | |
| Buffer manager | `pkg/vm/engine/aoe/storage/buffer/manager/manager.go` | node map under an RWMutex, evict queue, usage counters, per-handle locks and reference counts | `RegisterMemory`, `RegisterSpillableNode`, `RegisterNode`, `UnregisterNode`, `Pin`, `Unpin`, `makePoolNode` (evict until `Alloc` succeeds) | concurrent callers; node handles (outside `src/`) |
| Datetime | `pkg/container/types/datetime.go` | packed `int64` (seconds << 20, microseconds) | `ParseDatetime`, `FromClock`, `MicroSec`, `sec`, `AddInterval`, `AddDateTime`, `String`, `String2` | SQL functions |
| HAKeeper ticks | `pkg/hakeeper/utils/utils.go` | none | `ExpiredTick` (uint64 arithmetic) | |
| Server startup | `cmd/db-server/main.go` | process configuration | start sequence and `waitClusterStartup` (poll until a timeout) | cube driver (I/O) |

The code is hard to get right in these places:

* **Join placement.** `buildJoinTable` gives each ON condition a two-bit
  side mask. By the mask and the join type, the condition goes to the join's
  OnList, to a FILTER on one child (extending an existing FILTER in place),
  to a FILTER above the join, or to an error. Outer-join null extension makes
  a wrong route visible only on databases with unmatched rows.
* **Pushdown.** `pushdownFilters` moves filters down the tree. It turns
  LEFT/RIGHT joins into INNER joins, drops a constant TRUE, and wraps a child
  in a FILTER for what the child could not absorb. Each step must keep the
  result unchanged.
* **Remap.** `remapAllColRefs` works bottom-up. It rebuilds every
  ProjectList and turns `<<tag, col>>` references into
  `<<child, position>>`. A JOIN shifts its right child's columns by
  `len(returnMap)` of the left child.
* **ORDER BY.** Ordinals are 1-based, they are checked against a projection
  list that earlier items may have grown, and an expression item is
  deduplicated against the existing projections.
* **Buffer manager.** The registration logic does check-then-act under
  separate locks. Pin holds one handle's lock while it locks other handles to
  evict them. Unpin panics if it has no matching Pin.
* **Datetime.** The values are packed with bit shifts, so sign extension and
  carry can go wrong. Interval arithmetic goes through Go's `time` and back.

## 2. Modules

### `SqlSemantics.tla`: what a statement means (the abstract specification)

This module defines the statements the builder accepts and their meaning.

* **Syntax.** The constructors are `Col`, `Lit`, `BoolLit`, `Fn`, `Agg`,
  `Star`, `TableRef`, `JoinRef` and `SelectStmt`. A statement has a FROM
  list, a select list (expressions, aggregate calls and `*`), WHERE
  conjuncts, GROUP BY expressions, HAVING conjuncts and ORDER BY items.
  `Select` is the SELECT * form.
* **Grouping.** `GroupingViolation` is the rule of spec.md 4.3: a query
  with GROUP BY or an aggregate may not name an ungrouped column in its
  select list or ORDER BY, and HAVING may never name one. `GroupKeys`,
  `AggValue` (count(*), count(x) of non-NULL values, max(x), NULL on no
  input) and `GroupValue` give a grouped query's rows. A grouped query
  without GROUP BY has exactly one group, even on empty input. A query that
  is not grouped applies HAVING to each row.
* **Evaluation.** Expressions follow SQL's three-valued logic
  (`ExprValue`, `Holds`). `IsNotNull` is the operator of `isnotnull.go`.
* **Join results.** `JoinRows` gives the rows of INNER, CROSS, LEFT, RIGHT
  and FULL joins, with null extension.
* **Answer.** `SqlResult(stmt, db)` is the set of result tuples SQL
  defines on a database `db`.

Every table has a key column (position 0, unique, never NULL) and one data
column `a` (position 1). `RowKeys(ts)` is the set of keys a table may hold
when the statement reads the tables `ts`, so a cfg can give statements over
more tables fewer rows. Because of the key, a set of SELECT * tuples carries
the same information as SQL's bag of rows. A grouped result, or a select
list without the key, is compared as a set: two groups with equal output
tuples are not told apart.

### `QueryBuilder.tla`: the plan builder and `createQuery`

The state is the builder and two history variables:

* `builder = [nodes, tagsByNode, nextTag]` mirrors `qry.Nodes`,
  `tagsByNode` and `nextTag`. Node ids are 1-based arena positions.
* `steps` is `qry.Steps`.
* `phase` is one of `build → optimize → done | failed`.
* `err` is the error the code returned.
* `builtPlan` and `pushedPlan` record the arena right after `buildSelect`
  and right after `pushdownFilters`, so properties can compare the stages.

The builder is single-threaded, so there are two actions, one for each
handler the caller runs on a statement:

* **`BuildSelect`** is `buildSelect(stmt, ctx, true)` followed by appending
  its root to `Steps` (`runBuildSelect`, which is not in `src/`). The
  recursive descent of the handler is made of RECURSIVE operators, each named
  after its Go function: `buildSelect`, `buildFrom`, `buildTable`,
  `buildJoinTable`, `addBinding`, `OrderItemBind`. They thread the arena
  record the way the Go code threads `builder.qry.Nodes` and
  `builder.nextTag`, in the same order. That order covers the node
  appends, the tag numbering, the error checks and the early returns.
  `PlaceOnConds` reproduces lines 1091–1125 as written, including the
  `leftConds` append at line 1109.
  Where a Go function calls a builder function and then goes on, the rest
  of the function is a separate operator that takes the call's result as a
  parameter. These are `JoinLeftBuilt`, `JoinRightBuilt` and `JoinMerged` in
  `buildJoinTable`; `FromFirstBuilt`, `FromSecondBuilt`, `FoldFromBuilt`,
  `FromFolded` and `FromMerged` in `buildFrom`; and `SelectFromBuilt`,
  `SelectWhereBound`, `SelectTagged`, `SelectGrouped`, `SelectHavingBound`,
  `SelectProjected`, `SelectOrderBound`, `SelectAggregated` and
  `SelectSorted` in `buildSelect`. Each one starts with the error check that follows the
  call in the Go code. `BuildSelectDone` is the end of `runBuildSelect`.
  Written this way, each recursive call appears once in the text, which
  keeps TLC's coverage profile of the recursion small.
* **`CreateQuery`** is `createQuery`: `pushdownFilters` from the root with
  no filters. `Steps[0]` is replaced by the returned id, and the
  `cantPushdown` result is dropped. It then runs `remapAllColRefs` from the
  id the step had *before* pushdown (line 336). The pushdown operators are
  `pushdownFilters`, `PushdownAgg`, `PushdownJoin`, `PushdownProject`,
  `PushdownChild` and `JoinFilterDest`. `remapAllColRefs` returns the column
  map or a remap error, as the Go function does; its AGG, pass-through and
  PROJECT cases are `RemapAgg` (with `AggColMap`: group columns first, then
  aggregates), `RemapPassThrough` and `RemapProject`.

`buildSelect` binds GROUP BY, HAVING, the select list and ORDER BY with
three tags: group, aggregate and project. `BindGroupBy` registers the
group expressions. `BindList` binds a list with the HAVING or projection
binder (`BindTerm`): an expression equal to a group expression becomes a
column of the group tag; an aggregate call is registered and becomes a
column of the aggregate tag; a plain column is a `GroupingError` in HAVING,
and in the projection it is recorded in `boundCols` and bound to its table.
`BuildSelectList` expands `*` (`unfoldStar`). `OrderExprBound` binds an ORDER
BY expression through the projection binder and adds a hidden projection.
`SelectOrderBound` is lines 604–631: the `GroupingError` check on
`boundCols`, the AGG node, and the HAVING FILTER.

DISTINCT takes a fourth tag in `SelectTagged` (a new one, or the project
tag when there is no DISTINCT). After the PROJECT, `SelectAggregated`
appends an AGG whose ProjectList is `GetProjectionList` (every projected
column, read through the project tag) and whose output carries the
distinct tag. The SORT is appended over that AGG, and the result PROJECT
reads the distinct tag (lines 649–697). `RemapDistinctAgg` is the DISTINCT
case of the AGG remap (lines 178–200): the ProjectList becomes the GROUP BY
list and the output is one column per projected column. Because
`SqlResult` is a set, DISTINCT does not change what `BuildSound` compares;
it is checked through `RemapSound` and `PushdownSound`, which compare
plans.

A plan is given a meaning so that the properties can compare stages:

* `PlanRows` is the executor's meaning of a plan that still uses tags.
* `PosRows` is the meaning of a remapped plan: a node outputs the tuple of
  its ProjectList, and RelPos *i* names the tuple of its *i*-th child.

The following helpers are called by the code but are not under `src/`:

* `mergeContexts`
* `getJoinSide`
* the binders' qualified-column binding (`BindExpr`, `BindConds`)
* the GROUP BY, HAVING and projection binders (`BindTerm`, `BindArgs`,
  `BindRoot`, `unfoldStar`, `containsTag`)
* `replaceColRefs`
* `runBuildSelect`

They are modelled from `spec.md` and marked `spec_modelled` in the map.

Some definitions exist only to test the properties. They are named
`<definition>_<defect>`, are defined just before the definition they vary,
and are used only by the mutants in `PROJECT.json`:

* `JoinFlag_RightAsLeft`
* `JoinFilterDest_NoOuterCheck`
* `AggColMap_NoGroupOffset`
* `SelectOrderBound_GroupsOnly`
* `BuildSelectDone_DropsErr`

### `MCQueryBuilder.tla`: the model-checking instance

The catalog has three tables, `T1`, `T2` and `T3` (model values), and `NULL`
is a model value. The module defines families of statements, and each
run's cfg sets `Stmts` to a union of them:

* `JoinStmts`: SELECT * over one table, `T1, T2`, `T1, T1`, or one join of
  each type with each ON form (`t.a = u.a`, `t.a < u.a`, `t.a = 1`,
  `isnull`, `isnotnull`, `TRUE`), a WHERE of those forms, and ORDER BY
  none, `1`, `t1.a` (deduplicated against the star) or `isnull(t1.a)` (a
  hidden projection, which adds a result PROJECT);
* `NestedStmts`: three-table lists, joins over left-nested and
  right-nested INNER/LEFT joins, and a join followed by a comma table;
* `GroupStmts`: GROUP BY `t1.a` or `(t1.id, t1.a)`, select lists that are
  grouped, ungrouped or `*`, a WHERE or none, HAVING on `count(*)`, on the
  group column or constant, and ORDER BY `count(*)` or an ungrouped column;
* `ScalarStmts`: aggregates without GROUP BY, including spec.md Scenario
  F's `SELECT a, count(*)`, and HAVING without aggregates;
* `JoinAggStmts`: GROUP BY the nullable side of an INNER, LEFT or RIGHT
  join, with `count(*)` and `count(t2.a)`;
* `DistinctStmts`: SELECT DISTINCT `t1.a` with and without a WHERE,
  DISTINCT `*` over an INNER and a LEFT join, and DISTINCT `count(*)` with
  GROUP BY, with and without HAVING.

`PassStmts` is the union of all six. `OnRightFilterStmts`,
`HavingNoAggStmts`, `DistinctOrderStmts` (DISTINCT with ORDER BY a column;
DISTINCT with ORDER BY 1 panics earlier, at `order_binder.go:61`) and the
other `*Stmts` sets named in the cfgs each feed one violation run, so that
each counterexample shows one finding. `Init` picks any one statement, and
every statement is one the parser can hand to the builder. `MCRowKeys`
gives two rows per table to statements over at most two tables and one row
otherwise; the violation runs use `OneRowKey`.

### `BufferPool.tla`: what the buffer manager promises (abstract)

A pool of `Capacity` units. `resident` is the set of nodes holding `Size`
units, `pins[i]` counts pins on node `i`, and `spare` is memory reserved from
the pool but not yet the buffer of a node. The actions are `Reserve` (only
when it fits), `Release`, `Attach`, `Evict` (only with no pins), `PinNode`
(only while resident) and `UnpinNode`. There are no handles, locks, queue or
step order.

### `BufferManager.tla`: `manager.go`

Each client is a goroutine with a program counter `pc[c]`, the call it is in
(`op`, `target`), whether it holds a pool node (`node`) and the evict entry it
is working on (`victim`). The shared state mirrors the manager and its
handles:

* `usage` is the memory pool's usage; `pendingFree` counts pool nodes given
  to `go pNode.FreeMemory()` (line 131) that have not been freed yet;
* `mapped` is the key set of `mgr.Nodes`; `nextTransient` is
  `TransientId`;
* per id: `hstate` (unload, loading, loaded), `refs`, `iter` (the handle's
  iteration) and `hlock` (the client holding the handle's mutex, or `NoOne`);
* `evictQ` is the evict holder's queue of `[id, iter]` entries;
* `pins[c][i]` is the pins client `c` holds, so a client only unpins what
  it pinned.

Each region between two lock operations of the code is one atomic step:
`CallRegisterSpillableNode` is the RLock lookup, `MPAlloc` an `Alloc`,
`RegisterInsert` the Lock re-check and insert, `MPDequeue` the dequeue and
the unlocked checks (lines 202–217), `MPEvict` the locked re-check and
`Unload` (218–234), `PinLock` the Pin's lock and `PrepareLoad`, `PinLoaded`
the result of `makePoolNode` (`RollbackLoad` or `CommitLoad`), `PinRef`, and
`Unpin`. `makePoolNode` is a sub-procedure: `AfterPoolNode` returns to the
caller's next step. `RegisterNode` is one step (one Lock region). A handle
lock that is held makes `PinLock`, `MPEvict` and `Unpin` wait, as
`handle.Lock()` does.

The node handle, the memory pool and the evict holder are outside `src/`.
`PrepareLoad`, `Unloadable`, `IterCurrent` and `Fits` model the contract
`manager.go` relies on and are marked `spec_modelled`.

The refinement maps the manager onto the pool:
`resident <- Loaded`, `pins <- refs`,
`spare <- usage - NodeSize * Cardinality(Loaded)`, which is the memory held
by pool nodes in flight and by pending frees.

Variants used only by the mutants: `MPAlloc_NoCapCheck`,
`RegisterInsert_NoFree`, `MPEvict_NoUnloadableCheck` and `PinLoaded_KeepsLock`.

`MCBufferManager.tla` fixes two clients (model values) and node ids `{1, 2}`.

### `Datetime.tla`: `datetime.go`

A `Datetime` is an `int64` whose upper 44 bits hold seconds since
0001-01-01 and whose lower 20 bits hold microseconds (the comment at lines
36–37). The model keeps the value as the pair `[hi, lo]` with
`v = hi * 2^20 + lo`. This is the same integer, and it makes the shifts exact
and fits TLC's 32-bit integers:

* `sec` is `v >> 20`, so it is `hi`;
* `MicroSec` is `v << 44 >> 44`, which sign-extends bit 19 of `lo`;
* `Pack(secs, msec)` is `(secs << 20) + msec`.

The operators follow the code one for one:

* `ParseDatetime` dispatches on the length and on `s[4]`. `ParseDash`,
  `ParseCompact` and `ParseDate` are its three branches, with every
  early return.
* `Fraction` and `Done` cover the optional fraction and the final
  `FromClock(..., second+carry, msec)`.
* `FromClock`, `Clock`, `ToDate` and `validTimeInDay` follow their Go
  functions.
* `AddInterval`, `AddDateTime`, `ClampedDays` (the month-end correction at
  lines 257–265), `ConvertToGoTime` and `validDatetime` cover the interval
  arithmetic.

Go's `/` and `%` truncate, so they are written `GoQuo` and `GoRem`.

A string is not spelled character by character. An input is a record of
its format, the numbers its digit pairs spell, its fraction (each byte
minus `'0'`, so `10` is `':'`), the precision, and a *shape*:

* `ok`;
* `trunc`: shorter than its format;
* `badsep`: a wrong separator;
* `badtail`: a wrong byte after the seconds, or a lone `.`.

Several helpers are not in `src/`. They are modelled from their use and from
the comments, and marked `spec_modelled`:

* `getMsec`: rounding half away from zero, as the comment at lines 78–83
  shows;
* `FromCalendar`, `isLeap`, `MonthDays`, `validDate`, `Calendar` and
  `LastDay`;
* the `IntervalType` enum.

Go's `time` package is modelled by `GoDate`, `GoAdd`, `GoAddDate`, `GoCivil`
and `GoClock`. These cover a time as seconds and nanoseconds since year 1,
with `Date` normalising every field. They model a library, so they have no
map entry. The zone is taken to have no daylight-saving change.

The state machine makes one `ParseDatetime` call (`Parse`) on an input from
`Inputs`, then at most one `AddInterval` call (`CallAddInterval`) with
`nums ∈ Nums`, any unit and either `isDate`.

The reference reading is independent of the code:

* `YearDaysBefore` counts the days year by year;
* `NextSecond` ticks the written fields once when the fraction rounds up
  to a whole second;
* `RoundedMicros` rounds the fraction;
* `IntervalMeant` adds an interval on the calendar, clamping the day of a
  month step.

`String` and `String2` (lines 53–70) are modelled by the fields they print:
the calendar date, `Hour`, `Minute` and `Sec`, and for `String2` the
fraction. The fraction is `Sprintf("%06d\n", msec)` cut to `precision`
bytes: `Padded` writes the six digits with leading zeros (`Decimal`) and the
newline byte (`NewlineByte`) is the seventh.

Variants used only by the mutants: `Done_NoCarry`, `Clock_NoHourMod`,
`ClampedDays_NewMonth` and `String2_Unpadded` (`%d` without the padding).

`MCDatetime.tla` builds the inputs:

* years 1 and 4 (the first year, a common year and a leap year);
* February and December, with days 1, 28, 29 and 31;
* times that are valid and invalid (hour 24, minute 60, second 60);
* fractions that round up at precisions 0, 3 and 6, round down, start
  with a zero (`.05` at precision 2), or contain a non-digit;
* every shape.

### `DbServer.tla`: `cmd/db-server/main.go`

`main` is a sequence of steps. `pc` names the step main is at. Each step
that can fail is one action, with a disjunct for success and one for each
`os.Exit(code)`:

* `CheckArgs` handles `--version` (exit 0) and the missing config argument
  (exit −1).
* `LoadConfig` may fail with `InitialValuesExit` or `LoadConfigExit`.
* `StartProfile` is the optional CPU and allocation profiles; it cannot fail.
* `NewPebbleStorage` has no exit: its error is overwritten unread.
* `RunStep` covers the eight steps from `recreateDir` to `runMOServer`,
  using the tables `ExitOnFailure` (the exit codes) and `NextStep`.
* `Shutdown` runs when a signal arrives: `serverShutdown`, the closes,
  `cleanup`, and main's return.

`waitClusterStartup` is one action per pass of its loop:

* `WaitPoll`: the timeout case of the `select` comes first. Otherwise
  `ClusterReady` is the two `ForeachShards` scans, each starting its
  minimum at `maxReplicas`. A pass that finds the cluster not ready only
  sleeps, which is a stuttering step.
* `WaitTimeout`: the `time.After` channel becomes ready.

The cube cluster is outside `src/` and is modelled as an environment
(`spec_modelled`): once `a.Start()` ran, the router appears (`RouterUp`),
shards are created (`CreateShard`), and they gain or lose replicas
(`AddReplica`, `RemoveReplica`).

Each poll reads the router in one step. The router's own locking is not in
`src/`.

The variant `WaitPoll_NoTimeout` is used by the mutant.

`MCDbServer.tla` uses one AOE shard and one KV shard (model values), 3
replicas, and 1 pre-allocated group.

## 3. Properties and runs

Each soundness property quantifies over **every database** of the
statement's tables (`StmtDatabases`). A database gives each table a subset
of `Rows`, and each row a value in `Vals ∪ {NULL}`.

| Property | What it says |
|---|---|
| `TypeOK` | Arena and phase shape; `err` is set exactly when the compilation failed. |
| `BuildSound` | The plan `buildSelect` returns computes `SqlResult` on every database. |
| `PushdownSound` | The plan after `pushdownFilters` computes the same rows as the plan before it. |
| `RemapSound` | `remapAllColRefs`, started from the pre-pushdown root id, never fails on a built plan, and the positional plan it leaves computes the same rows as the tag-based plan it was given. |
| `GroupingChecked` | A statement is rejected with `GroupingError` exactly when spec.md's grouping rule says it names an ungrouped column, wherever the column occurs (select list, HAVING, ORDER BY). |
| `OrderByOrdinalBinds` | An ordinal within the star columns binds without error or panic to that column's slot and type, and an ordinal beyond them is never accepted, even after hidden projections. |

| Run (cfg) | Expect | Statements | Result |
|---|---|---|---|
| `qb_pass` (`QB_Pass.cfg`) | pass | `PassStmts`; two rows per table over at most two tables, one otherwise | 10,605 states, about 70 s with coverage |
| `qb_on_right_filter` (`QB_OnRightFilter.cfg`) | violation of `BuildSound` | `T1 LEFT JOIN (T2 JOIN T3 ON T2.a = T3.a) ON T2.a = 1` | finding 1 |
| `qb_having_no_agg` (`QB_HavingNoAgg.cfg`) | violation of `BuildSound` | `SELECT * FROM T1 HAVING 1 = 2` | finding 7 |
| `qb_distinct_order` (`QB_DistinctOrder.cfg`) | violation of `RemapSound` | `SELECT DISTINCT t1.a FROM T1 ORDER BY t1.a` | finding 9 |
| `qb_outer_to_inner` (`QB_OuterToInner.cfg`) | violation of `PushdownSound` | `T1 LEFT JOIN T2 ON T1.a = T2.a WHERE isnull(T2.a)` | finding 2 |
| `qb_order_ordinal` (`QB_OrderOrdinal.cfg`) | violation of `OrderByOrdinalBinds` | `SELECT * FROM T1 ORDER BY 2` | finding 3 |
| `qb_having_scalar` (`QB_HavingScalar.cfg`) | violation of `PushdownSound` | `SELECT count(*) FROM T1 HAVING 1 = 2` | finding 8 |

The pass run leaves out only the statement shapes that the violation runs
show to be wrong: a LEFT join over a right-nested join with a right-only ON
condition, `isnull` on the nullable side in WHERE, a constant HAVING with
no GROUP BY, and DISTINCT with ORDER BY. `ORDER BY 1` is in the pass run:
it binds without a panic (to the next column's type, finding 3, which no
property of that run reads), while ordinals that reach the last column are
left to `qb_order_ordinal`. Everything else in the enumerated family is
checked.

**Findings.**

1. **`query_builder.go:1109`.** A right-only ON condition of a LEFT join
   whose right operand is a FILTER (a nested INNER join with ON) is dropped,
   because `leftConds` is appended instead of `rightConds`.
2. **`query_builder.go:1237`.** A LEFT (or RIGHT) join is strengthened to
   INNER for any filter that reads the nullable side. This includes
   `IS NULL`, which keeps exactly the null-extended rows. `spec.md` requires
   the filter to reject NULLs.
3. **`order_binder.go:61`.** The ordinal reads `projects[colPos]` with a
   1-based `colPos`. `ORDER BY <last column>` panics with an index out of
   range, and every other ordinal gets the next column's type. `spec.md`
   Scenario A expects `ORDER BY 2` to bind. The related range check at
   line 56 counts hidden projections, so `ORDER BY isnull(t.a), 3` is
   accepted by the check; it then panics the same way.
7. **`query_builder.go:610`.** The HAVING FILTER is appended only inside
   `if len(ctx.groups) > 0 || len(ctx.aggregates) > 0`. A HAVING that names
   neither, as in `SELECT * FROM t1 HAVING 1 = 2`, is bound and then dropped,
   and every row is returned. spec.md's node order places the HAVING FILTER
   after the AGG node without that condition.
8. **`query_builder.go:1180`.** The AGG case of `pushdownFilters` pushes
   every filter that reads no aggregate below the AGG. Without GROUP BY the
   AGG yields one row even on empty input, so `SELECT count(*) FROM t1
   HAVING 1 = 2` returns one row (count 0) after pushdown, where the built
   plan and SQL return none. `BuildSound` holds; `PushdownSound` fails.
   With GROUP BY the push is sound, and `qb_pass` checks it.
9. **`query_builder.go:657`.** With DISTINCT, the SORT is appended over the
   DISTINCT AGG, whose output carries the distinct tag, but its ORDER BY
   expressions were bound to the project tag. `remapAllColRefs` finds no
   column of the project tag below the SORT and returns an error, so
   `SELECT DISTINCT a FROM t ORDER BY a` fails to compile.

**Bounds.**

* `Vals = {1, 2}` with literals 1 and 2. This distinguishes equality,
  less-than, and both outcomes of each comparison against a constant.
* `NULL` gives the third truth value.
* Statements over at most two tables get two rows per table, so a join
  has partial matches, a row can be both matched and unmatched, and a group
  can hold one or two rows (count 1 versus 2, a HAVING that keeps some
  groups and not others).
* Statements over three tables get one row per table, which already
  separates every placement of a condition relative to an outer join (a row
  is matched or is null-extended) and keeps the run within two minutes.
* Empty tables are among the databases, which is what makes a scalar
  aggregate's one row on empty input visible.
* Every mutant in `PROJECT.json` is caught under these bounds.

**Fairness and deadlock.** Compilation of one statement is a finite sequence
of handler calls, so the runs set `CHECK_DEADLOCK FALSE`: `done` and `failed`
are the states where the program stops. `Spec` carries `WF_vars(Next)`
because the caller always runs the next handler. No liveness property is
stated yet; termination of the two-step pipeline is immediate.

### Buffer manager

| Property | What it says |
|---|---|
| `TypeOK` | Shapes of all variables, and `usage` never exceeds `Capacity`. |
| `MemoryAccounting` | `usage` is `NodeSize` times the number of loaded nodes, pool nodes held by a client and pool nodes awaiting the async free: no memory leaks and none is counted twice. |
| `PoolRefinement` | The manager implements `BufferPool`: in particular no node with a reference is unloaded, and memory is only taken when it fits. |
| `CallsReturn` | Every call a client starts returns (`pc` back to idle): no deadlock between handle locks. (A client calls `Unpin` only while it holds a pin, as the callers do, so the panic at line 188 is not reached.) |

| Run (cfg) | Expect | Instance | Result |
|---|---|---|---|
| `bm_pool` (`BM.cfg`) | pass | 2 clients, ids 1 and 2, one transient id, room for 2 nodes, 3 calls per client; safety, refinement and `CallsReturn` | 71,721 states, about 15 seconds |

**Bounds.** Capacity 2 with three ids means a third load must evict, and
two clients can race on the same id or on eviction of each other's node.
Three calls per client are enough for the lock-leak mutant
(`PinLoaded_KeepsLock`, the early return after `RollbackLoad` without the
deferred unlock): a client pins a node another client loaded and then
calls on it again.

**Fairness.** `SF_vars(Running(c))` for every client: a goroutine waiting
on a `sync.Mutex` gets it eventually because the mutex switches to
starvation mode after 1 ms of waiting, even if the lock is released and
taken again repeatedly. `WF_vars(FreeMemory)`: the freeing goroutine is
always enabled once started. Starting a call (`Begin`) has no fairness:
callers may stop. `CHECK_DEADLOCK FALSE` because the `MaxOps` bound ends
every client's calls.

### Datetime

| Property | What it says |
|---|---|
| `ParseMatchesReference` | `ParseDatetime` accepts exactly the well-formed strings. The value it returns holds, in its upper bits, the seconds since year 1 of the date and time written, and in its lower bits the rounded microseconds. A fraction that rounds up carries into the next second, minute, hour, day, month or year. |
| `ClockMatchesReference` | `Clock` and `ToDate` of a parsed value give back the time of day and the day number written, after the carry. |
| `MicroSecMatchesLayout` | `MicroSec` of a parsed value is its microseconds. |
| `FormatRoundTrip` | `String2` at the parsed precision prints a string that `ParseDatetime` reads back to the same value, and `String` (no fraction) one that reads back to the value with its microseconds cleared. |
| `AddIntervalMatchesReference` | `AddInterval` is valid exactly when the calendar result lies in year 1 or later, and then returns that result. |

| Run (cfg) | Expect | Inputs | Result |
|---|---|---|---|
| `dt_calendar` (`DT_Calendar.cfg`) | pass (the three reference properties and `FormatRoundTrip`) | every date-only and dash string above and the compact strings with valid fields, each then given to `AddInterval` with `nums ∈ {-1, 0, 1}` of every unit | 47,318 states, under 20 s |
| `dt_microsec` (`DT_MicroSec.cfg`) | violation of `MicroSecMatchesLayout` | `0001-01-01 00:00:00.6`, precision 1 | finding 5 |

The pass run leaves out compact strings with invalid fields (finding 4)
and fractions of 2^19 µs (.524288 s) or more (finding 5).

**Findings.**

4. **`datetime.go:137`.** The compact branch never calls `validDate` or
   `validTimeInDay`. So `00010101235960` is accepted as
   0001-01-02 00:00:00, while the same fields in the dash format are
   rejected. It is found by adding `00010101235960` to `Inputs`:
   `ParseMatchesReference` then fails with it as the counterexample. No
   run of the project keeps that input (hazard at line 137).
5. **`datetime.go:311`.** `MicroSec` sign-extends bit 19. For a fraction of
   .524288 s or more it is negative (−448576 for .6), although the layout
   comment says the lower 20 bits hold the microseconds. `String2` reads
   them correctly with `& 0xfffff`. The wrong value spreads:
   `ConvertToGoTime` (line 237) builds the Go time with `MicroSec()*1000`
   nanoseconds, so `AddInterval` of such a value is 1.048576 s too early,
   and at `0001-01-01 00:00:00.6` even an interval of 0 is reported
   invalid.

**Bounds.** Dates at the start of the calendar, the end of February in a
leap year and the end of the year reach every carry, every month-end clamp
and the lower validity bound. Years above 9999 cannot be reached with small
years, so the upper bound of `validDatetime` is not exercised. Both
mutants of the parser and the clamp mutant are caught by `dt_calendar`. No fairness is
needed: each run is one or two calls, and `CHECK_DEADLOCK FALSE` because
the program stops after them.

### Server start-up

| Property | What it says |
|---|---|
| `StartupEnds` | Start-up always ends in serving or in an exit, whatever the cluster does. |
| `StorageCreatedBeforeUse` | main goes past the pebble storage only if it was created. |

| Run (cfg) | Expect | Result |
|---|---|---|
| `ds_start` (`DS_Start.cfg`) | pass | 298 states, under a second |
| `ds_pebble` (`DS_Pebble.cfg`) | violation of `StorageCreatedBeforeUse` | finding 6 |

**Findings.**

6. **`main.go:206`.** The error of `cPebble.NewStorage` is overwritten at
   line 217 before it is checked, so start-up goes on with a failed
   storage.

**Fairness.** The main goroutine is never blocked outside the wait, so it
has `WF_vars(MainStep)`. The timer fires 300 s after the call, so it has
`WF_vars(WaitTimeout)`. The cluster and the signal get no fairness: the
cluster may never become ready, and no signal may ever come.
`CHECK_DEADLOCK FALSE` because an exited or stopped process takes no more
steps.

**Bounds.** One shard per group and 3 replicas let the cluster become ready,
fall back, and become ready again while the timer races the poll.

## 4. What is not modelled, and why

* **Parts of `buildSelect` not yet reached.** LIMIT/OFFSET (the results
  are sets, so which rows a limit keeps cannot be told apart), select-list aliases (the ORDER BY
  alias path), subqueries in FROM, CTEs, `dual`, and USING/NATURAL joins.
  They are planned (section 5). Aggregates other than count and max differ
  only in the value they compute, not in the plan.
* **The empty select list.** `buildSelect` returns "No tables used" when
  the unfolded select list is empty (lines 463–465). The model unfolds the
  list later, in `BuildSelectList`, and has no such check: every statement
  of the model has a non-empty select list, so only the error order of a
  malformed statement would differ.
* **Pointer sharing of `plan.Expr`.** The Go code rewrites expressions in
  place, and `remapExpr` would remap an expression twice if two nodes shared
  it. The model is value-based. In the modelled statements no expression is
  reachable from two nodes: the INNER side-0 pushdown uses `DeepCopyExpr`, and
  filters never reach a PROJECT from above.
* **Buffer manager, what is left out.** `UnregisterNode` calls
  `handle.Clean`, whose effect is defined neither in `src/` nor in
  `spec.md`. `IsClosed` is never true without it, so lines 210–212 are not
  reached. A failing `CommitLoad` panics and is not modelled. `NodeCount`
  and `String` only read. A registered node that is never pinned stays
  loaded and never enters the evict queue, so `makePoolNode` can return nil
  while memory is held by it; no source says whether that is intended, so
  no property claims more (hazard at line 206).
* **Datetime, what is left out.** The `*Str` accessors are formatting
  that nothing parses back. The rounding carry of
  `9999-12-31 23:59:59.5` gives year 10000, which `String` prints with
  five digits and which no longer parses; the value is 3652058·86400
  seconds, beyond TLC's integers (hazard at line 154). `String2` with a
  precision of 7 prints the newline and above 7 panics; callers pass the
  column's precision, 0 to 6. `Now` reads the runtime clock
  through `unsafe`. `UTC`, `UnixTimestamp`, `FromUnix` and
  `DatetimeToTimestamp` shift by `localTZ` and `unixEpoch`, which are
  defined outside `src/`. Digit bytes that are not digits in the date and
  time fields (which wrap in `uint8`) are not enumerated.
* **`ExpiredTick`.** It is one `uint64` expression. Its wraparound needs
  values near 2^64, beyond TLC's integers, and no caller in `src/` says what
  a deadline must satisfy. `timeout/time.Second` truncates first, so a
  sub-second timeout gives 0 ticks.
* **Server startup, what is left out.** What the configuration loaders,
  storages, driver and MO server do inside is in other packages (I/O). The
  model keeps only whether each one succeeds. `removeEpoch` is a callback
  the catalog runs later. The CPU and allocs profiles are deferred
  `stop()` calls, which every `os.Exit` after line 179 skips (the profile
  is then not written: hazard at line 296). That follows from what
  `os.Exit` is, with no interleaving or bound involved, so the model does
  not keep the profile state.
* **`oct.go` and the two test files.** `oct.go` is a formatting wrapper with
  no control worth checking; the test files are test code.

## 5. Plan

The most important behaviour comes first:

1. **Done.** `QueryBuilder` checked against `SqlSemantics` as its abstract
   specification (plan results versus SQL results), with pushdown and remap
   as semantics-preserving rewrites.
2. **Done: `BufferManager`** refined to `BufferPool`, with safety and
   liveness. Originally planned as:
   * Concurrent clients run `RegisterSpillableNode`, `Pin` (with
     `makePoolNode` evicting through the evict queue) and `Unpin` on a small
     set of node ids, with bounded capacity. Each lock region is an atomic
     step, and the RLock check, allocation and Lock re-check are separate
     steps.
   * Properties: usage never exceeds capacity except for memory awaiting the
     async free; one live handle per id; no deadlock between handle locks;
     a pinned node stays loaded.
   * An abstract buffer pool (`loaded ⊆ ids`, `Σcap ≤ capacity`) is shown to
     be refined with `INSTANCE ... WITH`.
3. **Done: `Datetime`** (parse, accessors, interval arithmetic).
   Originally planned as:
   * `FromClock`, `MicroSec`, `sec` and `ParseDatetime` (both formats, carry
     from `getMsec`) as operators over bounded fields, with 64-bit
     wraparound and the arithmetic shift.
   * These are checked against a reference decomposition: round trip of the
     fields, and the sign of `MicroSec`.
   * `ExpiredTick` goes with this module.
4. **Extend `QueryBuilder`.**
   * **Done:** explicit select lists, GROUP BY/HAVING and aggregates, with
     the AGG cases of pushdown and remap.
   * Select-list aliases (the ORDER BY alias path).
   * **Done:** DISTINCT.
   * USING joins.
   * Subqueries in FROM, where replaceColRefs at a PROJECT is reached.
