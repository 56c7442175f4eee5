\* T1 LEFT JOIN (T2 JOIN T3 ON T2.a = T3.a) ON <condition on T2/T3 only>.
CONSTANTS
    T1 = T1
    T2 = T2
    T3 = T3
    NULL = NULL
    Tables <- MCTables
    Catalog <- MCCatalog
    Vals <- MCVals
    RowKeys <- OneRowKey
    Stmts <- OnRightFilterStmts
SPECIFICATION Spec
INVARIANT BuildSound
CHECK_DEADLOCK FALSE
