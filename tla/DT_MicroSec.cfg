CONSTANTS
    Inputs <- MCInputsMicro
    Nums <- MCNoNums
SPECIFICATION Spec
INVARIANT MicroSecMatchesLayout
CHECK_DEADLOCK FALSE
