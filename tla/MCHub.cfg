CONSTANTS
    t1 = t1
    t2 = t2
    a = a
    b = b
    h1 = h1
    h2 = h2
    p1 = p1
    NoSub = NoSub
    Topics <- TwoTopics
    Sessions <- TwoSessions
    Tcp <- OverTcp
    Subs <- TwoSubs
    Publishers <- OnePublisher
    Cap = 1
    MaxEvents = 2
SPECIFICATION FairSpec
INVARIANTS TypeOK TopicsExact RegisteredIsLive SoleSubscriberReached InOrderOnce
PROPERTIES PublishReturns RemovedLeaves ShutdownEmpties
CHECK_DEADLOCK FALSE
