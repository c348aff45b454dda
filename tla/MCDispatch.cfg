CONSTANTS
    limit = limit
    require = require
    handle = handle
    event = event
    r1 = r1
    r2 = r2
    r3 = r3
    s1 = s1
    s2 = s2
    NoCall = NoCall
    Calls <- MCCalls
    CallOf <- MCCallOf
    Sessions <- MCSessions
    KeyOf <- MCKeyOf
    AddrOf <- MCAddrOf
    Tcp <- MCTcp
    Requests <- MCRequests
    SessionOf <- MCSessionOf
    OpcodeOf <- MCOpcodeOf
    Opcodes = {1, 2}
    KeyIDs = {"", "a"}
    NoID = ""
    Limiters = {"second", "minute"}
    Limit <- MCLimit
    Bys = {"session", "key"}
SPECIFICATION FairSpec
INVARIANTS TypeOK Guarded
PROPERTY SessionServed
CHECK_DEADLOCK FALSE
