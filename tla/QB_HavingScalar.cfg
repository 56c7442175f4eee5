\* SELECT count(*) FROM t1 HAVING 1 = 2: a constant HAVING over a scalar aggregate.
CONSTANTS
    T1 = T1
    T2 = T2
    T3 = T3
    NULL = NULL
    Tables <- MCTables
    Catalog <- MCCatalog
    Vals <- MCVals
    RowKeys <- OneRowKey
    Stmts <- HavingScalarStmts
SPECIFICATION Spec
INVARIANT PushdownSound
CHECK_DEADLOCK FALSE
