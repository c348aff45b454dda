CONSTANTS
    d1 = d1
    d2 = d2
    x1 = x1
    NoOne = NoOne
    Dos <- MCOneDo
    Closers <- MCOneClose
    Kinds <- MCPanicking
    MaxPush = 1
SPECIFICATION Spec
INVARIANT PanicRecovered
CHECK_DEADLOCK FALSE
