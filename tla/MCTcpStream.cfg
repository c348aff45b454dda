CONSTANTS
    d1 = d1
    d2 = d2
    x1 = x1
    NoOne = NoOne
    Dos <- MCOneDo
    Closers <- MCOneClose
    Kinds <- MCStreaming
    MaxPush = 1
SPECIFICATION FairSpec
PROPERTY DoAnswered
CHECK_DEADLOCK FALSE
