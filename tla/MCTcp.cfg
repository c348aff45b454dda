CONSTANTS
    d1 = d1
    d2 = d2
    x1 = x1
    NoOne = NoOne
    Dos <- MCTwoDos
    Closers <- MCOneClose
    Kinds <- AllKinds
    MaxPush = 1
SPECIFICATION FairSpec
INVARIANTS TypeOK OwnResponse
PROPERTIES DoReturns CloseReturns SessionReclaimed
CHECK_DEADLOCK FALSE
