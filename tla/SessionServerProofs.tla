------------------------ MODULE SessionServerProofs ------------------------
(***************************************************************************)
(* What SessionServer guarantees for every number of connections and       *)
(* streams, every pair of timeouts and every bound of the clock.           *)
(***************************************************************************)
EXTENDS SessionServer, TLAPS

\* The two timeouts in force are positive whatever the application configured.
LEMMA TimeoutsPositive ==
    IdleTimeout \in Nat \ {0} /\ MaxLifetime \in Nat \ {0}
BY ConfigAssumption DEF IdleTimeout, MaxLifetime, fillDefaults

\* Every reachable state has the shape TypeOK gives it, LastUsed and the times
\* sampled by Touch included.
THEOREM TypeCorrect == Spec => []TypeOK
<1>1. Init => TypeOK
  <2> SUFFICES ASSUME Init PROVE TypeOK
    OBVIOUS
  <2> USE ConfigAssumption DEF Init, ConnStates, StreamStates, Answers
  <2>1. now \in 0..MaxTime /\ nextID \in Nat
    OBVIOUS
  <2>6. ctxDone \in BOOLEAN /\ loops \subseteq {"accept", "gc"}
    BY Zenon
  <2>2. cpc \in [Conns -> ConnStates] /\ connUp \in [Conns -> BOOLEAN]
    OBVIOUS
  <2>3. id \in [Conns -> Nat] /\ created \in [Conns -> 0..MaxTime] /\ lastUsed \in [Conns -> 0..MaxTime]
    OBVIOUS
  <2>4. spc \in [Streams -> StreamStates] /\ stamp \in [Streams -> 0..MaxTime]
    OBVIOUS
  <2>5. answer \in [Streams -> Answers] /\ closed \in [Streams -> BOOLEAN]
    OBVIOUS
  <2> QED BY <2>1, <2>2, <2>3, <2>4, <2>5, <2>6 DEF TypeOK
<1>2. TypeOK /\ [Next]_vars => TypeOK'
  <2> SUFFICES ASSUME TypeOK, [Next]_vars PROVE TypeOK'
    OBVIOUS
  <2> USE ConfigAssumption DEF TypeOK, time, conn, stream
  <2>1. CASE Tick
    BY <2>1 DEF Tick
  <2>2. CASE Cancel
    BY <2>2 DEF Cancel
  <2>3. CASE GC
    BY <2>3 DEF GC
  <2>4. ASSUME NEW l \in {"accept", "gc"}, LoopExit(l) PROVE TypeOK'
    BY <2>4 DEF LoopExit
  <2>5. ASSUME NEW c \in Conns, ConnStep(c) PROVE TypeOK'
    <3> USE DEF ConnStates
    <3>1. CASE AcceptConn(c)       BY <3>1 DEF AcceptConn
    <3>2. CASE PeerGone(c)         BY <3>2 DEF PeerGone
    <3>3. CASE AcceptHandshake(c)  BY <3>3 DEF AcceptHandshake
    <3>4. CASE HandshakeAbort(c)   BY <3>4 DEF HandshakeAbort, Leave
    <3>5. CASE NegotiateFail(c)    BY <3>5 DEF NegotiateFail, Leave
    <3>6. CASE AssignID(c)         BY <3>6 DEF AssignID
    <3>7. CASE NewSession(c)       BY <3>7 DEF NewSession
    <3>8. CASE Register(c)         BY <3>8 DEF Register, Set, Without
    <3>9. CASE ServeExit(c)        BY <3>9 DEF ServeExit, Delete, Without, Leave
    <3> QED BY <2>5, <3>1, <3>2, <3>3, <3>4, <3>5, <3>6, <3>7, <3>8, <3>9 DEF ConnStep
  <2>6. ASSUME NEW s \in Streams, StreamStep(s) PROVE TypeOK'
    <3> USE DEF StreamStates, Answers, Finish, Proceed
    <3>1. CASE AcceptStream(s)         BY <3>1 DEF AcceptStream
    <3>2. CASE CheckExpired(s)         BY <3>2 DEF CheckExpired
    <3>3. CASE CheckIdle(s)            BY <3>3 DEF CheckIdle
    <3>4. CASE TouchRead(s)            BY <3>4 DEF TouchRead
    <3>5. CASE TouchStore(s)           BY <3>5 DEF TouchStore
    <3>6. CASE ReadBad(s)              BY <3>6 DEF ReadBad
    <3>7. CASE ReadUnknown(s)          BY <3>7 DEF ReadUnknown
    <3>8. CASE ReadRequest(s)          BY <3>8 DEF ReadRequest
    <3>9. CASE HandlerReturn(s)        BY <3>9 DEF HandlerReturn
    <3>10. CASE StreamHandlerReturn(s) BY <3>10 DEF StreamHandlerReturn
    <3>11. CASE Panic(s)               BY <3>11 DEF Panic
    <3> QED BY <2>6, <3>1, <3>2, <3>3, <3>4, <3>5, <3>6, <3>7, <3>8, <3>9, <3>10, <3>11 DEF StreamStep
  <2>7. CASE UNCHANGED vars
    BY <2>7 DEF vars
  <2> QED BY <2>1, <2>2, <2>3, <2>4, <2>5, <2>6, <2>7 DEF Next
<1> QED BY <1>1, <1>2, PTL DEF Spec

(***************************************************************************)
(* The store.  OnlyServed and OnlyExpiredEvicted are not inductive alone:  *)
(* Set and Delete are keyed by the session ID, so another connection's     *)
(* entry survives them only because IDs are unique, which in turn holds    *)
(* because no ID exceeds the counter they are drawn from.                  *)
(***************************************************************************)
IDsBounded == nextID <= MaxID /\ \A c \in Conns : id[c] <= nextID

UniqueIDs ==
    /\ \A c \in Conns : cpc[c] \in {"numbered", "created", "serving", "closed"} => id[c] # 0
    /\ \A c, d \in Conns : c # d /\ id[c] # 0 => id[c] # id[d]

StoreInv == IDsBounded /\ UniqueIDs /\ OnlyServed /\ OnlyExpiredEvicted

LEMMA StoreInvariant == Spec => []StoreInv
<1>1. Init => StoreInv
  BY ConfigAssumption DEF Init, StoreInv, IDsBounded, UniqueIDs, OnlyServed, OnlyExpiredEvicted
<1>2. TypeOK /\ TypeOK' /\ StoreInv /\ [Next]_vars => StoreInv'
  <2> SUFFICES ASSUME TypeOK, TypeOK', StoreInv, [Next]_vars PROVE StoreInv'
    OBVIOUS
  <2> MaxLifetime \in Nat /\ MaxID \in Nat
    BY TimeoutsPositive, ConfigAssumption
  <2> USE DEF TypeOK, StoreInv, time, conn, stream, IsExpired
  <2>1. CASE UNCHANGED <<nextID, cpc, id, created, sessions>> /\ now <= now'
    BY <2>1 DEF IDsBounded, UniqueIDs, OnlyServed, OnlyExpiredEvicted
  <2>2. CASE GC
    BY <2>2 DEF GC, IDsBounded, UniqueIDs, OnlyServed, OnlyExpiredEvicted
  <2>3. ASSUME NEW c \in Conns, ConnStep(c) PROVE StoreInv'
    <3>1. CASE AcceptConn(c)
      BY <3>1 DEF AcceptConn, IDsBounded, UniqueIDs, OnlyServed, OnlyExpiredEvicted
    <3>2. CASE PeerGone(c)
      BY <3>2, <2>1 DEF PeerGone
    <3>3. CASE AcceptHandshake(c)
      BY <3>3 DEF AcceptHandshake, IDsBounded, UniqueIDs, OnlyServed, OnlyExpiredEvicted
    <3>4. CASE HandshakeAbort(c) \/ NegotiateFail(c)
      BY <3>4 DEF HandshakeAbort, NegotiateFail, Leave, IDsBounded, UniqueIDs, OnlyServed, OnlyExpiredEvicted
    <3>5. CASE AssignID(c)
      <4>1. IDsBounded' /\ OnlyServed' /\ OnlyExpiredEvicted'
        BY <3>5 DEF AssignID, IDsBounded, OnlyServed, OnlyExpiredEvicted
      <4>2. UniqueIDs'
        BY <3>5 DEF AssignID, IDsBounded, UniqueIDs
      <4> QED BY <4>1, <4>2
    <3>6. CASE NewSession(c)
      <4>1. IDsBounded' /\ UniqueIDs' /\ OnlyServed'
        BY <3>6 DEF NewSession, IDsBounded, UniqueIDs, OnlyServed
      <4>2. OnlyExpiredEvicted'
        BY <3>6 DEF NewSession, OnlyExpiredEvicted
      <4> QED BY <4>1, <4>2
    <3>7. CASE Register(c)
      <4>1. IDsBounded' /\ UniqueIDs'
        BY <3>7 DEF Register, IDsBounded, UniqueIDs
      <4>2. sessions' = sessions \cup {c}
        BY <3>7 DEF Register, Set, Without, UniqueIDs
      <4>3. OnlyServed' /\ OnlyExpiredEvicted'
        BY <3>7, <4>2 DEF Register, OnlyServed, OnlyExpiredEvicted
      <4> QED BY <4>1, <4>3
    <3>8. CASE ServeExit(c)
      <4>1. IDsBounded' /\ UniqueIDs'
        BY <3>8 DEF ServeExit, Leave, IDsBounded, UniqueIDs
      <4>2. sessions' = sessions \ {c}
        BY <3>8 DEF ServeExit, Delete, Without, UniqueIDs
      <4>3. OnlyServed' /\ OnlyExpiredEvicted'
        BY <3>8, <4>2 DEF ServeExit, Leave, OnlyServed, OnlyExpiredEvicted
      <4> QED BY <4>1, <4>3
    <3> QED BY <2>3, <3>1, <3>2, <3>3, <3>4, <3>5, <3>6, <3>7, <3>8 DEF ConnStep
  <2>4. ASSUME NEW s \in Streams, StreamStep(s)
        PROVE UNCHANGED <<nextID, cpc, id, created, sessions>> /\ now' = now
    BY <2>4 DEF StreamStep, AcceptStream, CheckExpired, CheckIdle, TouchRead, TouchStore,
        ReadBad, ReadUnknown, ReadRequest, HandlerReturn, StreamHandlerReturn, Panic,
        Finish, Proceed
  <2>5. CASE Tick \/ Cancel \/ \E l \in {"accept", "gc"} : LoopExit(l)
    BY <2>1, <2>5 DEF Tick, Cancel, LoopExit
  <2>6. CASE UNCHANGED vars
    BY <2>1, <2>6 DEF vars
  <2> QED BY <2>1, <2>2, <2>3, <2>4, <2>5, <2>6 DEF Next
<1> QED BY <1>1, <1>2, TypeCorrect, PTL DEF Spec

\* Concurrent handshakes draw distinct, non-zero session IDs (server.go's
\* atomic nextID).
THEOREM IDsAreUnique == Spec => []UniqueIDs
BY StoreInvariant, PTL DEF StoreInv

\* No session outlives its handleConnection in the store, and no deferred
\* Delete takes away another connection's session: whatever leaves the store
\* leaves with its own connection or past its lifetime.
THEOREM StoreIsOwned == Spec => StoreOwned
<1> DEFINE Leaves == \A c \in sessions \ sessions' :
        \/ cpc' = [cpc EXCEPT ![c] = "closed"]
        \/ cpc' = cpc /\ IsExpired(c)
<1>1. TypeOK /\ StoreInv /\ [Next]_vars => [Leaves]_vars
  <2> SUFFICES ASSUME TypeOK, StoreInv, Next, NEW d \in sessions \ sessions'
               PROVE  \/ cpc' = [cpc EXCEPT ![d] = "closed"]
                      \/ cpc' = cpc /\ IsExpired(d)
    BY DEF vars
  <2> USE DEF TypeOK, StoreInv, time, conn, stream
  <2>1. CASE Tick \/ Cancel \/ \E l \in {"accept", "gc"} : LoopExit(l)
    BY <2>1 DEF Tick, Cancel, LoopExit
  <2>2. CASE GC
    BY <2>2 DEF GC, IsExpired
  <2>3. ASSUME NEW c \in Conns, ConnStep(c)
        PROVE  \/ cpc' = [cpc EXCEPT ![d] = "closed"]
               \/ cpc' = cpc /\ IsExpired(d)
    <3>1. CASE Register(c)
      BY <3>1 DEF Register, Set, Without, UniqueIDs, OnlyServed
    <3>2. CASE ServeExit(c)
      <4>1. d = c
        BY <3>2 DEF ServeExit, Delete, Without, UniqueIDs
      <4> QED BY <3>2, <4>1 DEF ServeExit, Leave
    <3> QED BY <2>3, <3>1, <3>2 DEF ConnStep, AcceptConn, PeerGone, AcceptHandshake,
        HandshakeAbort, NegotiateFail, AssignID, NewSession, Leave
  <2>4. ASSUME NEW s \in Streams, StreamStep(s) PROVE sessions' = sessions
    BY <2>4 DEF StreamStep, AcceptStream, CheckExpired, CheckIdle, TouchRead, TouchStore,
        ReadBad, ReadUnknown, ReadRequest, HandlerReturn, StreamHandlerReturn, Panic,
        Finish, Proceed
  <2> QED BY <2>1, <2>2, <2>3, <2>4 DEF Next
<1>2. StoreInv' /\ [Leaves]_vars => [OnlyServed' /\ Leaves]_vars
  BY DEF StoreInv
<1> QED BY <1>1, <1>2, TypeCorrect, StoreInvariant, PTL DEF Spec, StoreOwned

\* While a connection is served, only GC of an expired session removes its
\* entry.
THEOREM EvictionOnlyByLifetime == Spec => []OnlyExpiredEvicted
BY StoreInvariant, PTL DEF StoreInv

(***************************************************************************)
(* The store, seen by session ID, implements SessionRegistry: Register is  *)
(* Open, GC and ServeExit are End of what they remove or change nothing,   *)
(* and every other step leaves both sets of IDs as they are.               *)
(***************************************************************************)
Opened == {id[c] : c \in {d \in Conns : cpc[d] \in {"serving", "closed"}}}
Live == {id[c] : c \in sessions}

LEMMA StepIsRegistryStep ==
    ASSUME TypeOK, StoreInv, StoreInv', [Next]_vars
    PROVE  [Registry!Next]_<<Opened, Live>>
<1> USE DEF TypeOK, StoreInv, time, conn, stream
<1> DEFINE Ends(S) == Live' = Live \ S /\ S \subseteq Live /\ Opened' = Opened
<1>e. ASSUME NEW S \in SUBSET (1..MaxID), Ends(S) PROVE [Registry!Next]_<<Opened, Live>>
  <2>1. CASE S = {}
    BY <1>e, <2>1
  <2>2. CASE S # {}
    BY <1>e, <2>2 DEF Registry!Next, Registry!End, Opened, Live
  <2> QED BY <2>1, <2>2
<1>i. Live \subseteq 1..MaxID
  BY ConfigAssumption DEF Live, IDsBounded, UniqueIDs, OnlyServed
<1>u. CASE UNCHANGED <<id, cpc, sessions>>
  BY <1>u DEF Opened, Live
<1>1. CASE Tick \/ Cancel \/ \E l \in {"accept", "gc"} : LoopExit(l)
  BY <1>1, <1>u DEF Tick, Cancel, LoopExit
<1>2. CASE GC
  <2> DEFINE S == {id[c] : c \in {d \in sessions : IsExpired(d)}}
  <2>1. S \subseteq Live /\ Opened' = Opened
    BY <1>2 DEF GC, Live, Opened
  <2>2. Live' = Live \ S
    BY <1>2 DEF GC, Live, UniqueIDs, OnlyServed
  <2> QED BY <2>1, <2>2, <1>e, <1>i
<1>3. ASSUME NEW c \in Conns, ConnStep(c) PROVE [Registry!Next]_<<Opened, Live>>
  <2>1. CASE PeerGone(c)
    BY <2>1, <1>u DEF PeerGone
  <2>2. CASE AcceptConn(c) \/ AcceptHandshake(c) \/ HandshakeAbort(c) \/ NegotiateFail(c) \/ NewSession(c)
    BY <2>2 DEF AcceptConn, AcceptHandshake, HandshakeAbort, NegotiateFail, NewSession, Leave,
        Opened, Live
  <2>3. CASE AssignID(c)
    BY <2>3 DEF AssignID, Opened, Live, OnlyServed
  <2>4. CASE Register(c)
    <3>1. id[c] \in 1..MaxID /\ id[c] \notin Opened
      BY <2>4, ConfigAssumption DEF Register, Opened, IDsBounded, UniqueIDs
    <3>2. sessions' = sessions \cup {c}
      BY <2>4 DEF Register, Set, Without, UniqueIDs, OnlyServed
    <3>3. Opened' = Opened \cup {id[c]} /\ Live' = Live \cup {id[c]}
      BY <2>4, <3>2 DEF Register, Opened, Live
    <3> QED BY <3>1, <3>3 DEF Registry!Next, Registry!Open, Opened, Live
  <2>5. CASE ServeExit(c)
    <3> DEFINE S == {id[d] : d \in sessions \cap {c}}
    <3>1. S \subseteq Live /\ Opened' = Opened
      BY <2>5 DEF ServeExit, Leave, Live, Opened
    <3>2. Live' = Live \ S
      BY <2>5 DEF ServeExit, Delete, Without, Live, UniqueIDs
    <3> QED BY <3>1, <3>2, <1>e, <1>i
  <2> QED BY <1>3, <2>1, <2>2, <2>3, <2>4, <2>5 DEF ConnStep
<1>4. ASSUME NEW s \in Streams, StreamStep(s) PROVE [Registry!Next]_<<Opened, Live>>
  BY <1>4, <1>u DEF StreamStep, AcceptStream, CheckExpired, CheckIdle, TouchRead, TouchStore,
      ReadBad, ReadUnknown, ReadRequest, HandlerReturn, StreamHandlerReturn, Panic,
      Finish, Proceed
<1>5. CASE UNCHANGED vars
  BY <1>5, <1>u DEF vars
<1> QED BY <1>1, <1>2, <1>3, <1>4, <1>5 DEF Next

\* SessionServer implements SessionRegistry for every number of connections: what
\* MediaTokens assumes of the session store is what server.go and session.go do.
THEOREM StoreImplementsRegistry == Spec => ImplementsRegistry
<1>1. Init => Registry!Init
  BY DEF Init, Registry!Init
<1>2. TypeOK /\ StoreInv /\ StoreInv' /\ [Next]_vars => [Registry!Next]_<<Opened, Live>>
  BY StepIsRegistryStep
<1> QED BY <1>1, <1>2, TypeCorrect, StoreInvariant, PTL
        DEF Spec, ImplementsRegistry, Registry!Spec, Opened, Live

(***************************************************************************)
(* Streams.                                                                *)
(***************************************************************************)
\* A goroutine of handleStream exists only once its connection is served.
StreamOwner ==
    \A s \in Streams : spc[s] # "none" => cpc[sconn[s]] \in {"serving", "closed"}

LEMMA StreamOwnerInvariant == Spec => []StreamOwner
<1>1. Init => StreamOwner
  BY DEF Init, StreamOwner
<1>2. TypeOK /\ StreamOwner /\ [Next]_vars => StreamOwner'
  <2> SUFFICES ASSUME TypeOK, StreamOwner, [Next]_vars PROVE StreamOwner'
    OBVIOUS
  <2> USE DEF TypeOK, StreamOwner, time, conn, stream
  <2>1. CASE Tick \/ Cancel \/ GC \/ \E l \in {"accept", "gc"} : LoopExit(l)
    BY <2>1 DEF Tick, Cancel, GC, LoopExit
  <2>2. ASSUME NEW c \in Conns, ConnStep(c) PROVE StreamOwner'
    BY <2>2 DEF ConnStep, AcceptConn, PeerGone, AcceptHandshake, HandshakeAbort, NegotiateFail,
        AssignID, NewSession, Register, ServeExit, Leave
  <2>3. ASSUME NEW s \in Streams, StreamStep(s) PROVE StreamOwner'
    BY <2>3 DEF StreamStep, AcceptStream, CheckExpired, CheckIdle, TouchRead, TouchStore,
        ReadBad, ReadUnknown, ReadRequest, HandlerReturn, StreamHandlerReturn, Panic,
        Finish, Proceed
  <2>4. CASE UNCHANGED vars
    BY <2>4 DEF vars
  <2> QED BY <2>1, <2>2, <2>3, <2>4 DEF Next
<1> QED BY <1>1, <1>2, TypeCorrect, PTL DEF Spec

\* handleStream's lifetime check never lets a stream through whose session GC
\* has evicted while its connection is still served.
THEOREM AdmissionAgreesWithStore == Spec => AdmittedIsStored
<1> DEFINE Admit == \A s \in Streams :
        spc[s] = "expiry" /\ spc'[s] = "idle" =>
            sconn[s] \in sessions \/ cpc[sconn[s]] = "closed"
<1>1. TypeOK /\ StoreInv /\ StreamOwner /\ [Next]_vars => [Admit]_vars
  <2> SUFFICES ASSUME TypeOK, StoreInv, StreamOwner, Next,
                      NEW s \in Streams, spc[s] = "expiry", spc'[s] = "idle"
               PROVE  sconn[s] \in sessions \/ cpc[sconn[s]] = "closed"
    BY DEF vars
  <2> USE DEF TypeOK, time, conn, stream
  <2>1. ASSUME NEW t \in Streams, StreamStep(t) PROVE t = s /\ CheckExpired(s)
    BY <2>1 DEF StreamStep, AcceptStream, CheckExpired, CheckIdle, TouchRead, TouchStore,
        ReadBad, ReadUnknown, ReadRequest, HandlerReturn, StreamHandlerReturn, Panic,
        Finish, Proceed
  <2>2. ASSUME NEW c \in Conns, ConnStep(c) PROVE FALSE
    BY <2>2 DEF ConnStep, AcceptConn, PeerGone, AcceptHandshake, HandshakeAbort, NegotiateFail,
        AssignID, NewSession, Register, ServeExit, Leave
  <2>3. CheckExpired(s)
    BY <2>1, <2>2 DEF Next, Tick, Cancel, GC, LoopExit
  <2>4. ~IsExpired(sconn[s])
    BY <2>3 DEF CheckExpired, Finish, Proceed
  <2> QED BY <2>4 DEF StoreInv, OnlyExpiredEvicted, StreamOwner
<1> QED BY <1>1, TypeCorrect, StoreInvariant, StreamOwnerInvariant, PTL DEF Spec, AdmittedIsStored

\* An idle-dead session stays so once no Touch of it is in flight: requests
\* arriving later are refused and never refresh LastUsed.
THEOREM DormancyIsFinal == Spec => DormantForever
<1> DEFINE Stays == \A c \in Conns : Dormant(c) => Dormant(c)'
<1>1. TypeOK /\ TypeOK' /\ [Next]_vars => [Stays]_vars
  <2> SUFFICES ASSUME TypeOK, TypeOK', Next, NEW c \in Conns, Dormant(c)
               PROVE  Dormant(c)'
    BY DEF vars
  <2> IdleTimeout \in Nat
    BY TimeoutsPositive
  <2> USE DEF TypeOK, Dormant, IsIdleDead, time, conn, stream
  <2>1. CASE Tick \/ Cancel \/ GC \/ \E l \in {"accept", "gc"} : LoopExit(l)
    BY <2>1 DEF Tick, Cancel, GC, LoopExit
  <2>2. ASSUME NEW d \in Conns, ConnStep(d) PROVE Dormant(c)'
    BY <2>2 DEF ConnStep, AcceptConn, PeerGone, AcceptHandshake, HandshakeAbort, NegotiateFail,
        AssignID, NewSession, Register, ServeExit, Leave
  <2>3. ASSUME NEW s \in Streams, StreamStep(s) PROVE Dormant(c)'
    <3>1. CASE CheckIdle(s)
      BY <3>1 DEF CheckIdle, Finish, Proceed
    <3>2. CASE TouchRead(s) \/ TouchStore(s)
      BY <3>2 DEF TouchRead, TouchStore
    <3>3. CASE ~CheckIdle(s) /\ ~TouchRead(s) /\ ~TouchStore(s)
      BY <2>3, <3>3 DEF StreamStep, AcceptStream, CheckExpired, ReadBad, ReadUnknown,
          ReadRequest, HandlerReturn, StreamHandlerReturn, Panic, Finish, Proceed
    <3> QED BY <3>1, <3>2, <3>3
  <2> QED BY <2>1, <2>2, <2>3 DEF Next
<1> QED BY <1>1, TypeCorrect, PTL DEF Spec, DormantForever

\* No way through handleStream, a recovered panic included, leaves the client
\* waiting for a response or an end of stream that never comes.
THEOREM StreamsNeverSilent == Spec => []NoSilentStream
<1>1. Init => NoSilentStream
  BY DEF Init, NoSilentStream
<1>2. TypeOK /\ NoSilentStream /\ [Next]_vars => NoSilentStream'
  <2> SUFFICES ASSUME TypeOK, NoSilentStream, [Next]_vars PROVE NoSilentStream'
    OBVIOUS
  <2> USE DEF TypeOK, NoSilentStream, time, conn, stream
  <2>1. CASE Tick \/ Cancel \/ GC \/ \E l \in {"accept", "gc"} : LoopExit(l)
    BY <2>1 DEF Tick, Cancel, GC, LoopExit
  <2>2. ASSUME NEW c \in Conns, ConnStep(c) PROVE NoSilentStream'
    BY <2>2 DEF ConnStep, AcceptConn, PeerGone, AcceptHandshake, HandshakeAbort, NegotiateFail,
        AssignID, NewSession, Register, ServeExit, Leave
  <2>3. ASSUME NEW s \in Streams, StreamStep(s) PROVE NoSilentStream'
    BY <2>3 DEF StreamStep, AcceptStream, CheckExpired, CheckIdle, TouchRead, TouchStore,
        ReadBad, ReadUnknown, ReadRequest, HandlerReturn, StreamHandlerReturn, Panic,
        Finish, Proceed
  <2>4. CASE UNCHANGED vars
    BY <2>4 DEF vars
  <2> QED BY <2>1, <2>2, <2>3, <2>4 DEF Next
<1> QED BY <1>1, <1>2, TypeCorrect, PTL DEF Spec

(***************************************************************************)
(* LastUsed, which streams of one session write without a lock.            *)
(***************************************************************************)
HasSession(c) == cpc[c] \in {"created", "serving", "closed"}

\* The time of last use lies between the creation of the session and now: the
\* Touch calls of concurrent streams may overtake one another and set LastUsed
\* back, but never to before the session was created.
UsedSinceCreated ==
    \A c \in Conns : HasSession(c) => created[c] <= lastUsed[c] /\ lastUsed[c] <= now

\* A Touch in flight carries a time that is as recent as that.
StampSinceCreated ==
    \A s \in Streams : spc[s] = "store" => created[sconn[s]] <= stamp[s] /\ stamp[s] <= now

UseInv == UsedSinceCreated /\ StampSinceCreated

LEMMA UseInvariant == Spec => []UseInv
<1>1. Init => UseInv
  BY DEF Init, UseInv, UsedSinceCreated, StampSinceCreated, HasSession
<1>2. TypeOK /\ StreamOwner /\ UseInv /\ [Next]_vars => UseInv'
  <2> SUFFICES ASSUME TypeOK, StreamOwner, UseInv, [Next]_vars PROVE UseInv'
    OBVIOUS
  <2>n. MaxTime \in Nat /\ now \in Nat /\ created \in [Conns -> Nat] /\ lastUsed \in [Conns -> Nat]
        /\ stamp \in [Streams -> Nat] /\ sconn \in [Streams -> Conns]
        /\ spc \in [Streams -> StreamStates] /\ cpc \in [Conns -> ConnStates]
    BY ConfigAssumption DEF TypeOK
  <2> USE <2>n DEF UseInv, UsedSinceCreated, StampSinceCreated, HasSession, time, conn, stream
  <2>1. CASE Tick \/ Cancel \/ GC \/ \E l \in {"accept", "gc"} : LoopExit(l)
    BY <2>1 DEF Tick, Cancel, GC, LoopExit
  <2>2. ASSUME NEW c \in Conns, ConnStep(c) PROVE UseInv'
    <3>1. CASE NewSession(c)
      <4>1. \A s \in Streams : spc[s] = "store" => sconn[s] # c
        BY <3>1 DEF NewSession, StreamOwner
      <4> QED BY <3>1, <4>1 DEF NewSession
    <3>2. CASE ~NewSession(c)
      BY <2>2, <3>2 DEF ConnStep, AcceptConn, PeerGone, AcceptHandshake, HandshakeAbort,
          NegotiateFail, AssignID, Register, ServeExit, Leave
    <3> QED BY <3>1, <3>2
  <2>3. ASSUME NEW s \in Streams, StreamStep(s) PROVE UseInv'
    <3>1. CASE TouchRead(s)
      <4>1. created[sconn[s]] <= now
        BY <3>1 DEF TouchRead, StreamOwner
      <4> QED BY <3>1, <4>1 DEF TouchRead
    <3>2. CASE TouchStore(s)
      BY <3>2 DEF TouchStore
    <3>3. CASE ~TouchRead(s) /\ ~TouchStore(s)
      BY <2>3, <3>3 DEF StreamStep, AcceptStream, CheckExpired, CheckIdle, ReadBad, ReadUnknown,
          ReadRequest, HandlerReturn, StreamHandlerReturn, Panic, Finish, Proceed
    <3> QED BY <3>1, <3>2, <3>3
  <2>4. CASE UNCHANGED vars
    BY <2>4 DEF vars
  <2> QED BY <2>1, <2>2, <2>3, <2>4 DEF Next
<1> QED BY <1>1, <1>2, TypeCorrect, StreamOwnerInvariant, PTL DEF Spec

\* The unlocked Touch of any number of streams never sets LastUsed before the
\* creation of its session, nor into the future.
THEOREM UseFollowsCreation == Spec => []UsedSinceCreated
BY UseInvariant, PTL DEF UseInv

\* A session found idle-dead is past its lifetime too.
IdleImpliesExpired == \A c \in Conns : HasSession(c) /\ IsIdleDead(c) => IsExpired(c)

\* A configuration whose idle timeout is not below its lifetime makes the second
\* check of handleStream redundant: whatever Touch calls race, what it would
\* refuse the first has refused, and GC has evicted or may evict.
THEOREM LongIdleTimeoutIsMoot == IdleTimeout >= MaxLifetime => (Spec => []IdleImpliesExpired)
<1> SUFFICES ASSUME IdleTimeout >= MaxLifetime PROVE Spec => []IdleImpliesExpired
  OBVIOUS
<1>1. TypeOK /\ UsedSinceCreated => IdleImpliesExpired
  <2> SUFFICES ASSUME TypeOK, UsedSinceCreated, NEW c \in Conns, HasSession(c), IsIdleDead(c)
               PROVE  IsExpired(c)
    BY DEF IdleImpliesExpired
  <2>1. now \in Nat /\ created[c] \in Nat /\ lastUsed[c] \in Nat
    BY ConfigAssumption DEF TypeOK
  <2>2. IdleTimeout \in Nat /\ MaxLifetime \in Nat
    BY TimeoutsPositive
  <2>3. created[c] <= lastUsed[c] /\ now - lastUsed[c] > IdleTimeout
    BY DEF UsedSinceCreated, IsIdleDead
  <2> QED BY <2>1, <2>2, <2>3 DEF IsExpired
<1> QED BY <1>1, TypeCorrect, UseFollowsCreation, PTL

\* A connection that has not drawn its session number yet has none.
UnnumberedInv ==
    \A c \in Conns : cpc[c] \in {"none", "accepted", "negotiating"} => id[c] = 0

LEMMA UnnumberedInvariant == Spec => []UnnumberedInv
<1>1. Init => UnnumberedInv
  BY DEF Init, UnnumberedInv
<1>2. TypeOK /\ UnnumberedInv /\ [Next]_vars => UnnumberedInv'
  <2> SUFFICES ASSUME TypeOK, UnnumberedInv, [Next]_vars PROVE UnnumberedInv'
    OBVIOUS
  <2> USE DEF TypeOK, UnnumberedInv, time, conn, stream
  <2>1. CASE Tick \/ Cancel \/ GC \/ \E l \in {"accept", "gc"} : LoopExit(l)
    BY <2>1 DEF Tick, Cancel, GC, LoopExit
  <2>2. ASSUME NEW c \in Conns, ConnStep(c) PROVE UnnumberedInv'
    BY <2>2 DEF ConnStep, AcceptConn, PeerGone, AcceptHandshake, HandshakeAbort, NegotiateFail,
        AssignID, NewSession, Register, ServeExit, Leave
  <2>3. ASSUME NEW s \in Streams, StreamStep(s) PROVE UnnumberedInv'
    BY <2>3 DEF StreamStep, AcceptStream, CheckExpired, CheckIdle, TouchRead, TouchStore,
        ReadBad, ReadUnknown, ReadRequest, HandlerReturn, StreamHandlerReturn, Panic,
        Finish, Proceed
  <2>4. CASE UNCHANGED vars
    BY <2>4 DEF vars
  <2> QED BY <2>1, <2>2, <2>3, <2>4 DEF Next
<1> QED BY <1>1, <1>2, TypeCorrect, PTL DEF Spec

\* The connection a session ID was drawn for keeps it for ever, after its end too.
IDsStay == [][\A c \in Conns : id[c] # 0 => id'[c] = id[c]]_vars

\* With IDsAreUnique: what handlers, the hub and the media tokens key by session ID
\* belongs to one connection in all of the server's life.
THEOREM IDsAreFinal == Spec => IDsStay
<1> DEFINE Stays == \A c \in Conns : id[c] # 0 => id'[c] = id[c]
<1>1. TypeOK /\ UnnumberedInv /\ [Next]_vars => [Stays]_vars
  <2> SUFFICES ASSUME TypeOK, UnnumberedInv, Next, NEW c \in Conns, id[c] # 0
               PROVE  id'[c] = id[c]
    BY DEF vars
  <2>1. ASSUME NEW d \in Conns, AssignID(d) PROVE id'[c] = id[c]
    BY <2>1 DEF AssignID, UnnumberedInv, TypeOK
  <2>2. ASSUME NEW d \in Conns, ConnStep(d), ~AssignID(d) PROVE id' = id
    BY <2>2, Zenon DEF ConnStep, AcceptConn, PeerGone, AcceptHandshake, HandshakeAbort,
        NegotiateFail, NewSession, Register, ServeExit
  <2>3. ASSUME NEW s \in Streams, StreamStep(s) PROVE id' = id
    BY <2>3, Zenon DEF StreamStep, AcceptStream, CheckExpired, CheckIdle, TouchRead, TouchStore,
        ReadBad, ReadUnknown, ReadRequest, HandlerReturn, StreamHandlerReturn, Panic,
        Finish, Proceed, conn
  <2>4. CASE Tick \/ Cancel \/ GC \/ \E l \in {"accept", "gc"} : LoopExit(l)
    BY <2>4, Zenon DEF Tick, Cancel, GC, LoopExit, conn
  <2> QED BY <2>1, <2>2, <2>3, <2>4 DEF Next
<1> QED BY <1>1, TypeCorrect, UnnumberedInvariant, PTL DEF Spec, IDsStay

(***************************************************************************)
(* What a client can see of its stream is StreamContract: the two checks,  *)
(* Touch and the wait for the request are all "open" to it.                *)
(***************************************************************************)
PhaseOf(at) == IF at \in {"expiry", "idle", "touch", "store", "read"} THEN "open" ELSE at

Phase == [s \in Streams |-> PhaseOf(spc[s])]
Written == {s \in Streams : answer[s] # "none"}
Ended == {s \in Streams : closed[s] = TRUE}

Contract == INSTANCE StreamContract WITH phase <- Phase, written <- Written, closed <- Ended

\* The server neither writes nor closes before handleStream ends.
OneAnswer == \A s \in Streams : spc[s] # "done" => answer[s] = "none" /\ closed[s] = FALSE

LEMMA OneAnswerInvariant == Spec => []OneAnswer
<1>1. Init => OneAnswer
  BY DEF Init, OneAnswer
<1>2. TypeOK /\ OneAnswer /\ [Next]_vars => OneAnswer'
  <2> SUFFICES ASSUME TypeOK, OneAnswer, [Next]_vars PROVE OneAnswer'
    OBVIOUS
  <2> USE DEF TypeOK, OneAnswer, time, conn, stream
  <2>1. CASE Tick \/ Cancel \/ GC \/ \E l \in {"accept", "gc"} : LoopExit(l)
    BY <2>1 DEF Tick, Cancel, GC, LoopExit
  <2>2. ASSUME NEW c \in Conns, ConnStep(c) PROVE OneAnswer'
    BY <2>2 DEF ConnStep, AcceptConn, PeerGone, AcceptHandshake, HandshakeAbort, NegotiateFail,
        AssignID, NewSession, Register, ServeExit, Leave
  <2>3. ASSUME NEW s \in Streams, StreamStep(s) PROVE OneAnswer'
    BY <2>3 DEF StreamStep, AcceptStream, CheckExpired, CheckIdle, TouchRead, TouchStore,
        ReadBad, ReadUnknown, ReadRequest, HandlerReturn, StreamHandlerReturn, Panic,
        Finish, Proceed
  <2>4. CASE UNCHANGED vars
    BY <2>4 DEF vars
  <2> QED BY <2>1, <2>2, <2>3, <2>4 DEF Next
<1> QED BY <1>1, <1>2, TypeCorrect, PTL DEF Spec

\* What the two ways of moving a stream mean to the client.
LEMMA ProceedIsMove ==
    ASSUME TypeOK, NEW s \in Streams, NEW to \in StreamStates,
           spc' = [spc EXCEPT ![s] = to], UNCHANGED <<answer, closed>>
    PROVE  Phase' = [Phase EXCEPT ![s] = PhaseOf(to)] /\ Written' = Written /\ Ended' = Ended
BY DEF TypeOK, Phase, Written, Ended

LEMMA FinishIsMove ==
    ASSUME TypeOK, OneAnswer, NEW s \in Streams, NEW status, NEW close \in BOOLEAN,
           spc[s] # "done", Finish(s, status, close)
    PROVE  /\ Phase' = [Phase EXCEPT ![s] = "done"]
           /\ Written' = IF status = "none" THEN Written ELSE Written \cup {s}
           /\ Ended' = IF close THEN Ended \cup {s} ELSE Ended
<1> USE DEF TypeOK, OneAnswer, Finish
<1>1. Phase' = [Phase EXCEPT ![s] = "done"]
  BY DEF Phase, PhaseOf
<1>2. Written' = IF status = "none" THEN Written ELSE Written \cup {s}
  BY DEF Written
<1>3. Ended' = IF close THEN Ended \cup {s} ELSE Ended
  <2>1. CASE close = TRUE
    BY <2>1 DEF Ended
  <2>2. CASE close = FALSE
    BY <2>2 DEF Ended
  <2> QED BY <2>1, <2>2
<1> QED BY <1>1, <1>2, <1>3

LEMMA StepIsContractStep ==
    ASSUME TypeOK, OneAnswer, NEW s \in Streams, StreamStep(s)
    PROVE  Contract!Step(s) \/ UNCHANGED <<Phase, Written, Ended>>
<1> USE DEF Contract!Step, Contract!Move
<1>p. Phase[s] = PhaseOf(spc[s]) /\ spc[s] \in StreamStates
  BY DEF Phase, TypeOK
<1>1. CASE AcceptStream(s)
  <2>1. Phase[s] = "none" /\ Phase' = [Phase EXCEPT ![s] = "open"] /\ Written' = Written /\ Ended' = Ended
    BY <1>1, <1>p, ProceedIsMove DEF AcceptStream, stream, PhaseOf, StreamStates
  <2> QED BY <2>1 DEF Contract!Accept
<1>r. ASSUME NEW status \in Answers \ {"none"}, PhaseOf(spc[s]) = "open", Finish(s, status, TRUE)
      PROVE Contract!Refuse(s)
  <2>1. spc[s] # "done"
    BY <1>r DEF PhaseOf
  <2>2. /\ Phase' = [Phase EXCEPT ![s] = "done"]
        /\ Written' = Written \cup {s} /\ Ended' = Ended \cup {s}
    BY <1>r, <2>1, FinishIsMove
  <2> QED BY <1>p, <1>r, <2>2 DEF Contract!Refuse
<1>o. ASSUME NEW to \in StreamStates, PhaseOf(spc[s]) = "open", PhaseOf(to) = "open",
             spc' = [spc EXCEPT ![s] = to], UNCHANGED <<answer, closed>>
      PROVE UNCHANGED <<Phase, Written, Ended>>
  <2>1. Phase' = [Phase EXCEPT ![s] = "open"] /\ Written' = Written /\ Ended' = Ended
    BY <1>o, ProceedIsMove
  <2>2. [Phase EXCEPT ![s] = "open"] = Phase
    BY <1>p, <1>o DEF Phase
  <2> QED BY <2>1, <2>2
<1>2. CASE CheckExpired(s) \/ CheckIdle(s)
  <2>1. CASE Finish(s, "SessionExpired", TRUE)
    BY <1>2, <2>1, <1>r DEF CheckExpired, CheckIdle, PhaseOf, Answers
  <2>2. CASE (Proceed(s, "idle") /\ spc[s] = "expiry") \/ (Proceed(s, "touch") /\ spc[s] = "idle")
    BY <2>2, <1>o DEF Proceed, stream, PhaseOf, StreamStates
  <2> QED BY <1>2, <2>1, <2>2 DEF CheckExpired, CheckIdle
<1>3. CASE TouchRead(s) \/ TouchStore(s)
  BY <1>3, <1>o DEF TouchRead, TouchStore, stream, PhaseOf, StreamStates
<1>4. CASE ReadBad(s) \/ ReadUnknown(s)
  BY <1>4, <1>r DEF ReadBad, ReadUnknown, PhaseOf, Answers
<1>5. CASE ReadRequest(s)
  <2>1. PICK h \in {"handler", "stream"} : Proceed(s, h)
    BY <1>5 DEF ReadRequest
  <2>2. Phase[s] = "open" /\ Phase' = [Phase EXCEPT ![s] = h] /\ Written' = Written /\ Ended' = Ended
    BY <1>5, <1>p, <2>1, ProceedIsMove DEF ReadRequest, Proceed, stream, PhaseOf, StreamStates
  <2> QED BY <2>2 DEF Contract!Handle
<1>6. CASE HandlerReturn(s)
  <2>1. PICK r \in {"Response", "none", "InternalError"} : Finish(s, r, TRUE)
    BY <1>6 DEF HandlerReturn
  <2>2. spc[s] = "handler" /\ Phase[s] = "handler"
    BY <1>6, <1>p DEF HandlerReturn, PhaseOf
  <2>3. /\ Phase' = [Phase EXCEPT ![s] = "done"]
        /\ Written' \in {Written, Written \cup {s}} /\ Ended' = Ended \cup {s}
    BY <2>1, <2>2, FinishIsMove
  <2> QED BY <2>2, <2>3 DEF Contract!Return
<1>7. CASE StreamHandlerReturn(s)
  <2>1. spc[s] = "stream" /\ Phase[s] = "stream"
    BY <1>7, <1>p DEF StreamHandlerReturn, PhaseOf
  <2>2. Phase' = [Phase EXCEPT ![s] = "done"] /\ Written' = Written /\ Ended' = Ended \cup {s}
    BY <1>7, <2>1, FinishIsMove DEF StreamHandlerReturn
  <2> QED BY <2>1, <2>2 DEF Contract!StreamReturn
<1>8. CASE Panic(s)
  <2>1. spc[s] # "done" /\ Phase[s] \in {"open", "handler", "stream"}
    BY <1>8, <1>p DEF Panic, PhaseOf
  <2>2. Phase' = [Phase EXCEPT ![s] = "done"] /\ Written' = Written \cup {s} /\ Ended' = Ended
    <3>1. /\ Phase' = [Phase EXCEPT ![s] = "done"]
          /\ Written' = IF "InternalError" = "none" THEN Written ELSE Written \cup {s}
          /\ Ended' = IF FALSE THEN Ended \cup {s} ELSE Ended
      BY <1>8, <2>1, FinishIsMove, Zenon DEF Panic
    <3> QED BY <3>1
  <2> QED BY <2>1, <2>2 DEF Contract!Recover
<1> QED BY <1>1, <1>2, <1>3, <1>4, <1>5, <1>6, <1>7, <1>8 DEF StreamStep

\* handleStream keeps StreamContract on every stream, with expiry, Touch, panics and
\* any number of connections around it: a refusal is always a frame and an end, a
\* handler's stream is always answered or ended, and handleStream never answers twice.
THEOREM StreamsKeepContract == Spec => Contract!Spec
<1>1. Init => Contract!Init
  BY DEF Init, Contract!Init, Phase, PhaseOf, Written, Ended
<1>2. TypeOK /\ OneAnswer /\ [Next]_vars =>
        [Contract!Next]_<<Phase, Written, Ended>>
  <2> SUFFICES ASSUME TypeOK, OneAnswer, [Next]_vars
               PROVE  Contract!Next \/ UNCHANGED <<Phase, Written, Ended>>
    OBVIOUS
  <2>1. CASE \E s \in Streams : StreamStep(s)
    BY <2>1, StepIsContractStep DEF Contract!Next
  <2>2. ASSUME UNCHANGED <<spc, answer, closed>> PROVE UNCHANGED <<Phase, Written, Ended>>
    BY <2>2 DEF Phase, Written, Ended
  <2>3. ASSUME NEW c \in Conns, ConnStep(c) PROVE UNCHANGED <<spc, answer, closed>>
    BY <2>3 DEF ConnStep, AcceptConn, PeerGone, AcceptHandshake, HandshakeAbort, NegotiateFail,
        AssignID, NewSession, Register, ServeExit, Leave, stream
  <2>4. CASE Tick \/ Cancel \/ GC \/ (\E l \in {"accept", "gc"} : LoopExit(l)) \/ UNCHANGED vars
    BY <2>2, <2>4 DEF Tick, Cancel, GC, LoopExit, vars, stream
  <2> QED BY <2>1, <2>2, <2>3, <2>4 DEF Next
<1> QED BY <1>1, <1>2, TypeCorrect, OneAnswerInvariant, PTL
        DEF Spec, Contract!Spec
=============================================================================
