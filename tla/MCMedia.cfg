CONSTANTS
    k1 = k1
    k2 = k2
    s1 = s1
    s2 = s2
    v1 = v1
    v2 = v2
    NoOne = NoOne
    Tokens <- MCTokens
    Sessions <- MCSessions
    Requests <- MCRequests
    SessionBound = TRUE
    MaxTokenTTL = 1
    MaxTime = 3
SPECIFICATION Spec
SYMMETRY Symmetry
INVARIANTS TypeOK NoStaleGrant NoWrongRefusal
CHECK_DEADLOCK FALSE
