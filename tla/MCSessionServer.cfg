CONSTANTS
    c1 = c1
    c2 = c2
    s1 = s1
    s2 = s2
    Conns <- MCConns
    Streams <- MCStreams
    CfgIdleTimeout = 0
    CfgMaxLifetime = 2
    DefaultIdleTimeout = 1
    DefaultMaxLifetime = 3
    MaxTime = 3
    MaxID = 2
SPECIFICATION Spec
SYMMETRY Symmetry
INVARIANTS TypeOK OnlyExpiredEvicted NoSilentStream
PROPERTIES StoreOwned ImplementsRegistry AdmittedIsStored DormantForever
CHECK_DEADLOCK FALSE
