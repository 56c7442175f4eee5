\* WHERE <predicate on the nullable side> over a LEFT or RIGHT join.
CONSTANTS
    T1 = T1
    T2 = T2
    T3 = T3
    NULL = NULL
    Tables <- MCTables
    Catalog <- MCCatalog
    Vals <- MCVals
    RowKeys <- OneRowKey
    Stmts <- OuterToInnerStmts
SPECIFICATION Spec
INVARIANT PushdownSound
CHECK_DEADLOCK FALSE
