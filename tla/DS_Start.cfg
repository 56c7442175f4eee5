CONSTANTS
    a1 = a1
    k1 = k1
    AOEShards <- MCAOEShards
    KVShards <- MCKVShards
    MaxReplicas = 3
    PreAllocatedGroupNum = 1
SPECIFICATION Spec
PROPERTY StartupEnds
CHECK_DEADLOCK FALSE
