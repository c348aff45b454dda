CONSTANTS
    d1 = d1
    d2 = d2
    x1 = x1
    Dos <- MCDos
    Closers <- MCClosers
    SessionIDs <- MCSessionIDs
    ClientKeys <- MCClientKeys
    KeyStore <- MCKeyStore
    NoID = ""
    AnonSecret = "hush-anonymous"
    Client = "client"
    Server = "server"
    Garbage = "garbage"
    MaxStreams = 2
SPECIFICATION FairSpec
INVARIANTS TypeOK KeyAgreement HandlerAuthentic
PROPERTY DoReturns
CHECK_DEADLOCK FALSE
