CONSTANTS
    c1 = c1
    c2 = c2
    s1 = s1
    s2 = s2
    Conns <- MCConns
    Streams <- MCOneStream
    CfgIdleTimeout = 1
    CfgMaxLifetime = 0
    DefaultIdleTimeout = 2
    DefaultMaxLifetime = 1
    MaxTime = 2
    MaxID = 2
SPECIFICATION FairSpec
PROPERTIES ShutdownDrains ExpiredReclaimed
CHECK_DEADLOCK FALSE
