\* SELECT * FROM T1 HAVING 1 = 2.
CONSTANTS
    T1 = T1
    T2 = T2
    T3 = T3
    NULL = NULL
    Tables <- MCTables
    Catalog <- MCCatalog
    Vals <- MCVals
    RowKeys <- OneRowKey
    Stmts <- HavingNoAggStmts
SPECIFICATION Spec
INVARIANT BuildSound
CHECK_DEADLOCK FALSE
