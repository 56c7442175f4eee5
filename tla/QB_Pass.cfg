\* Build, pushdown and remap of joins, nested joins, FROM lists, ORDER BY,
\* GROUP BY, HAVING and aggregates.
CONSTANTS
    T1 = T1
    T2 = T2
    T3 = T3
    NULL = NULL
    Tables <- MCTables
    Catalog <- MCCatalog
    Vals <- MCVals
    RowKeys <- MCRowKeys
    Stmts <- PassStmts
SPECIFICATION Spec
INVARIANTS
    TypeOK
    BuildSound
    PushdownSound
    RemapSound
    GroupingChecked
\* Compilation of a statement ends in "done" or "failed".
CHECK_DEADLOCK FALSE
