\* SELECT DISTINCT T1.a FROM T1 ORDER BY T1.a.
CONSTANTS
    T1 = T1
    T2 = T2
    T3 = T3
    NULL = NULL
    Tables <- MCTables
    Catalog <- MCCatalog
    Vals <- MCVals
    RowKeys <- OneRowKey
    Stmts <- DistinctOrderStmts
SPECIFICATION Spec
INVARIANT RemapSound
CHECK_DEADLOCK FALSE
