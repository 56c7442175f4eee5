\* SELECT * FROM t ORDER BY <ordinal>.
CONSTANTS
    T1 = T1
    T2 = T2
    T3 = T3
    NULL = NULL
    Tables <- MCTables
    Catalog <- MCCatalog
    Vals <- MCVals
    RowKeys <- OneRowKey
    Stmts <- OrdinalStmts
SPECIFICATION Spec
INVARIANT OrderByOrdinalBinds
CHECK_DEADLOCK FALSE
