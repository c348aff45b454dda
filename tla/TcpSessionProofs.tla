------------------------- MODULE TcpSessionProofs --------------------------
(***************************************************************************)
(* Proofs about TcpSession, for any number of Do and Close calls and any   *)
(* kinds of request.                                                       *)
(***************************************************************************)
EXTENDS TcpSession, TLAPS

LEMMA SendType ==
    ASSUME NEW f \in Frames, s2c \in Seq(Frames), Send(f)
    PROVE  s2c' \in Seq(Frames)
BY DEF Send

(***************************************************************************)
(* TypeOK in two parts, since the provers treat Booleans apart.            *)
(***************************************************************************)
Flags ==
    /\ dialed \in BOOLEAN /\ tcpConn \in BOOLEAN /\ cliClosed \in BOOLEAN
    /\ srvClosed \in BOOLEAN /\ stored \in BOOLEAN /\ crashed \in BOOLEAN
    /\ dead \in BOOLEAN /\ ctxDone \in BOOLEAN

Shapes ==
    /\ mu \in Dos \cup {NoOne} /\ cur \in Dos \cup {NoOne}
    /\ dpc \in [Dos -> {"none", "called", "ready", "reading", "returned"}]
    /\ kind \in [Dos -> Kinds]
    /\ res \in [Dos -> Frames \cup {NoFrame}]
    /\ clpc \in [Closers -> {"none", "called", "closing", "returned"}]
    /\ c2s \in Seq(Dos) /\ s2c \in Seq(Frames)
    /\ srv \in {"listen", "negotiate", "negotiated", "top", "read", "handle", "stream", "done"}
    /\ pushed \in 0..MaxPush

LEMMA FlagsPreserved == Flags /\ [Next]_vars => Flags'
<1> SUFFICES ASSUME Flags, [Next]_vars PROVE Flags'
  OBVIOUS
<1> USE DEF Flags, client, timeouts, server
<1>1. CASE DialOK \/ DialFail \/ ClientFinalizer \/ ServerFinalizer
  BY <1>1, Zenon DEF DialOK, DialFail, ClientFinalizer, ServerFinalizer
<1>2. ASSUME NEW d \in Dos, DoCall(d) \/ Do(d) PROVE Flags'
  <2>1. CASE DoCall(d) \/ DoSnapshot(d) \/ DoWrite(d) \/ DoRead(d)
    BY <2>1, Zenon DEF DoCall, DoSnapshot, DoWrite, DoRead
  <2>2. CASE DoWriteFail(d) \/ DoReadUndecodable(d) \/ DoReadFail(d)
    BY <2>2, Zenon DEF DoWriteFail, DoReadUndecodable, DoReadFail, Fail
  <2> QED BY <1>2, <2>1, <2>2 DEF Do
<1>3. ASSUME NEW x \in Closers, CloseCall(x) \/ Close(x) PROVE Flags'
  BY <1>3, Zenon DEF CloseCall, Close, CloseSwap, CloseConn
<1>4. CASE AcceptConn \/ Expire \/ Cancel \/ GC
  BY <1>4, Zenon DEF AcceptConn, Expire, Cancel, GC
<1>5. CASE Serve
  <2>1. CASE NegotiateOK \/ SetSession \/ ReadRequest \/ ReadPanic \/ Panic \/ StreamPush
    BY <2>1, Zenon DEF NegotiateOK, SetSession, ReadRequest, ReadPanic, Panic, Crash, StreamPush
  <2>2. CASE NegotiateFail \/ ReadRequestFail \/ RespondFail
    BY <2>2, Zenon DEF NegotiateFail, ReadRequestFail, RespondFail, Return
  <2>3. CASE Refuse \/ Respond \/ StreamReturn
    BY <2>3, Zenon DEF Refuse, Respond, StreamReturn, Continue
  <2>4. CASE LoopTop
    BY <2>4, Zenon DEF LoopTop, Return
  <2> QED BY <1>5, <2>1, <2>2, <2>3, <2>4 DEF Serve
<1>6. CASE UNCHANGED vars
  BY <1>6, Zenon DEF vars
<1> QED BY <1>1, <1>2, <1>3, <1>4, <1>5, <1>6 DEF Next

LEMMA ShapesPreserved == Shapes /\ [Next]_vars => Shapes'
<1> SUFFICES ASSUME Shapes, [Next]_vars PROVE Shapes'
  OBVIOUS
<1>f. /\ Hello \in Frames
      /\ \A d \in Dos \cup {NoOne}, st \in Statuses : [seq |-> d, status |-> st] \in Frames
  BY DEF Frames, Hello, Statuses
<1> USE TcpAssumption DEF Shapes, client, timeouts, server
<1>t. s2c # <<>> => Tail(s2c) \in Seq(Frames)
  OBVIOUS
<1>u. c2s # <<>> => Tail(c2s) \in Seq(Dos)
  OBVIOUS
<1>1. CASE DialOK \/ DialFail \/ ClientFinalizer \/ ServerFinalizer
  <2>1. s2c' \in Seq(Frames)
    BY <1>1, <1>t DEF DialOK, DialFail, ClientFinalizer, ServerFinalizer
  <2> QED BY <1>1, <2>1 DEF DialOK, DialFail, ClientFinalizer, ServerFinalizer
<1>2. ASSUME NEW d \in Dos, DoCall(d) \/ Do(d) PROVE Shapes'
  <2>1. CASE DoCall(d) \/ DoSnapshot(d) \/ DoWriteFail(d)
    BY <2>1 DEF DoCall, DoSnapshot, DoWriteFail, Fail
  <2>2. CASE DoWrite(d)
    BY <2>2 DEF DoWrite, WriteRequest
  <2>3. CASE DoRead(d)
    <3>1. Head(s2c) \in Frames /\ Tail(s2c) \in Seq(Frames)
      BY <2>3 DEF DoRead
    <3> QED BY <2>3, <3>1 DEF DoRead
  <2>4. CASE DoReadUndecodable(d) \/ DoReadFail(d)
    <3>1. s2c' \in Seq(Frames)
      <4>1. <<>> \in Seq(Frames)
        OBVIOUS
      <4>2. s2c' = <<>> \/ (s2c # <<>> /\ s2c' = Tail(s2c))
        BY <2>4, Zenon DEF DoReadUndecodable, DoReadFail
      <4> QED BY <4>1, <4>2, <1>t
    <3> QED BY <2>4, <3>1 DEF DoReadUndecodable, DoReadFail, Fail
  <2> QED BY <1>2, <2>1, <2>2, <2>3, <2>4 DEF Do
<1>3. ASSUME NEW x \in Closers, CloseCall(x) \/ Close(x) PROVE Shapes'
  BY <1>3 DEF CloseCall, Close, CloseSwap, CloseConn
<1>4. CASE AcceptConn \/ Expire \/ Cancel \/ GC
  BY <1>4 DEF AcceptConn, Expire, Cancel, GC
<1>5. CASE Serve
  <2>1. CASE NegotiateOK
    <3>1. s2c' \in Seq(Frames)
      BY <2>1, <1>f, SendType DEF NegotiateOK
    <3> QED BY <2>1, <3>1 DEF NegotiateOK
  <2>2. CASE NegotiateFail \/ SetSession \/ RespondFail \/ Panic \/ StreamReturn
    BY <2>2 DEF NegotiateFail, SetSession, RespondFail, Panic, Crash, StreamReturn, Return, Continue
  <2>6. CASE ReadRequestFail \/ ReadPanic
    <3>1. c2s' \in Seq(Dos)
      <4>1. c2s' = c2s \/ (c2s # <<>> /\ c2s' = Tail(c2s))
        BY <2>6, Zenon DEF ReadRequestFail, ReadPanic
      <4> QED BY <4>1, <1>u
    <3> QED BY <2>6, <3>1 DEF ReadRequestFail, ReadPanic, Return, Crash
  <2>3. CASE LoopTop
    <3>1. s2c' \in Seq(Frames)
      BY <2>3, <1>f, SendType DEF LoopTop, Statuses
    <3> QED BY <2>3, <3>1 DEF LoopTop, Return
  <2>4. CASE ReadRequest
    BY <2>4 DEF ReadRequest
  <2>5. CASE Refuse \/ Respond \/ StreamPush
    <3>1. s2c' \in Seq(Frames)
      BY <2>5, <1>f, SendType DEF Refuse, Respond, StreamPush, Statuses
    <3> QED BY <2>5, <3>1 DEF Refuse, Respond, StreamPush, Continue
  <2> QED BY <1>5, <2>1, <2>2, <2>3, <2>4, <2>5, <2>6 DEF Serve
<1>6. CASE UNCHANGED vars
  BY <1>6 DEF vars
<1> QED BY <1>1, <1>2, <1>3, <1>4, <1>5, <1>6 DEF Next

\* Every reachable state has the shape TypeOK gives it.
THEOREM TcpTypeCorrect == Spec => []TypeOK
<1>1. Init => Flags /\ Shapes
  <2> SUFFICES ASSUME Init PROVE Flags /\ Shapes
    OBVIOUS
  <2>1. Flags
    BY Zenon DEF Init, Flags
  <2>2. Shapes
    BY TcpAssumption DEF Init, Shapes
  <2> QED BY <2>1, <2>2
<1>2. TypeOK <=> Flags /\ Shapes
  BY Zenon DEF TypeOK, Flags, Shapes
<1> QED BY <1>1, <1>2, FlagsPreserved, ShapesPreserved, PTL DEF Spec

(***************************************************************************)
(* Whose response is on the wire.  OwnResponse is not inductive: at most   *)
(* one request is under way, that of the call holding the mutex, whether   *)
(* it is still to be read, being served or answered.                       *)
(***************************************************************************)
MuInv ==
    /\ \A d \in Dos : dpc[d] = "reading" <=> mu = d
    /\ \A d \in Dos : dpc[d] # "none" => HasClient
    /\ HasClient => srv \notin {"listen", "negotiate"}
    /\ srvClosed => srv = "done"
    /\ srv \in {"listen", "negotiate"} => s2c = <<>>

IsAnswer(f) == f.status # "SessionExpired"

\* Before Dial returns there is nothing but the negotiation's answer.
Dialing ==
    ~HasClient =>
        /\ c2s = <<>> /\ srv # "handle"
        /\ \A i \in 1..Len(s2c) : IsAnswer(s2c[i]) => i = 1

\* The one request under way, in each place where it can be.
UnderWay ==
    HasClient =>
        /\ srv # "done" => c2s = <<>> \/ (mu \in Dos /\ c2s = <<mu>>)
        /\ srv = "handle" => mu \in Dos /\ cur = mu /\ c2s = <<>> /\ s2c = <<>>
        /\ \A i \in 1..Len(s2c) : IsAnswer(s2c[i]) =>
            /\ i = 1 /\ mu \in Dos /\ s2c[i].seq = mu
            /\ srv # "done" => c2s = <<>>

Wire ==
    /\ srv # "stream"
    /\ srv # "done" => \A i \in 1..Len(s2c) : IsAnswer(s2c[i])
    /\ Dialing
    /\ UnderWay

\* Once the client has closed its end nothing on the wire is read any more.
WireInv == Unary /\ ~cliClosed => Wire

LEMMA QuietSteps ==
    ASSUME [Next]_vars
    PROVE  \/ UNCHANGED <<dialed, clpc>>
           \/ DialOK
           \/ \E x \in Closers : CloseCall(x) \/ CloseSwap(x) \/ CloseConn(x)
<1> USE DEF client, timeouts, server
<1>1. ASSUME NEW d \in Dos, DoCall(d) \/ Do(d) PROVE UNCHANGED <<dialed, clpc>>
  BY <1>1, Zenon DEF DoCall, Do, DoSnapshot, DoWrite, DoWriteFail, DoRead, DoReadUndecodable,
      DoReadFail, Fail
<1>2. CASE Serve
  BY <1>2, Zenon DEF Serve, NegotiateOK, NegotiateFail, SetSession, LoopTop, ReadRequest,
      ReadRequestFail, Refuse, Respond, RespondFail, ReadPanic, Panic, Crash, StreamPush, StreamReturn
<1>3. CASE DialFail \/ AcceptConn \/ Expire \/ Cancel \/ GC \/ ClientFinalizer \/ ServerFinalizer \/ UNCHANGED vars
  BY <1>3, Zenon DEF DialFail, AcceptConn, Expire, Cancel, GC, ClientFinalizer, ServerFinalizer, vars
<1> QED BY <1>1, <1>2, <1>3, Zenon DEF Next, Close

\* Dial returns the client once, and it stays with the application.
LEMMA ClientStays ==
    ASSUME Shapes, [Next]_vars
    PROVE  (HasClient => HasClient') /\ (HasClient' => HasClient \/ DialOK)
<1>1. CASE DialOK
  BY <1>1, Zenon DEF DialOK, HasClient
<1>2. CASE UNCHANGED <<dialed, clpc>>
  BY <1>2, Zenon DEF HasClient
<1>3. ASSUME NEW x \in Closers, CloseCall(x) \/ CloseSwap(x) \/ CloseConn(x)
      PROVE  HasClient /\ HasClient'
  <2>1. clpc'[x] # "none"
    BY <1>3 DEF CloseCall, CloseSwap, CloseConn, Shapes
  <2>2. HasClient'
    BY <2>1, Zenon DEF HasClient
  <2>3. HasClient
    BY <1>3 DEF CloseCall, CloseSwap, CloseConn, HasClient
  <2> QED BY <2>2, <2>3
<1> QED BY <1>1, <1>2, <1>3, QuietSteps, Zenon

LEMMA MuPreserved ==
    ASSUME Shapes, MuInv, [Next]_vars
    PROVE  MuInv'
<1> USE TcpAssumption DEF Shapes, MuInv, client, timeouts, server
<1>h. (HasClient => HasClient') /\ (HasClient' => HasClient \/ DialOK)
  BY ClientStays
<1>1. CASE DialOK
  BY <1>1, <1>h DEF DialOK
<1>2. CASE ~DialOK /\ UNCHANGED <<mu, dpc, srv, srvClosed, s2c>>
  BY <1>2, <1>h
<1>3. ASSUME NEW d \in Dos, DoCall(d) \/ DoSnapshot(d) PROVE MuInv'
  <2>1. HasClient
    BY <1>3 DEF DoCall, DoSnapshot
  <2> QED BY <1>3, <1>h, <2>1 DEF DoCall, DoSnapshot
<1>4. ASSUME NEW d \in Dos, DoWrite(d) PROVE MuInv'
  <2>1. HasClient
    BY <1>4 DEF DoWrite
  <2> QED BY <1>4, <1>h, <2>1 DEF DoWrite
<1>5. ASSUME NEW d \in Dos, DoRead(d) PROVE MuInv'
  <2>1. HasClient
    BY <1>5 DEF DoRead
  <2> QED BY <1>5, <1>h, <2>1 DEF DoRead
<1>6. ASSUME NEW d \in Dos, DoWriteFail(d) \/ DoReadUndecodable(d) \/ DoReadFail(d) PROVE MuInv'
  <2>1. HasClient
    BY <1>6 DEF DoWriteFail, DoReadUndecodable, DoReadFail
  <2>2. srv \notin {"listen", "negotiate"} /\ UNCHANGED <<srv, srvClosed>>
    BY <1>6, <2>1 DEF DoWriteFail, DoReadUndecodable, DoReadFail, Fail
  <2>3. dpc' = [dpc EXCEPT ![d] = "returned"] /\ mu' = NoOne /\ (mu = NoOne \/ mu = d)
    BY <1>6 DEF DoWriteFail, DoReadUndecodable, DoReadFail, Fail
  <2> QED BY <1>h, <2>1, <2>2, <2>3
<1>7. CASE Serve
  <2>1. UNCHANGED <<mu, dpc>> /\ srv' \notin {"listen", "negotiate"} /\ (srvClosed' => srv' = "done")
    BY <1>7 DEF Serve, NegotiateOK, NegotiateFail, SetSession, LoopTop, ReadRequest,
        ReadRequestFail, Refuse, Respond, RespondFail, ReadPanic, Panic, Crash, StreamPush, StreamReturn,
        Return, Continue
  <2> QED BY <1>h, <2>1
<1>8. CASE ServerFinalizer
  BY <1>8, <1>h DEF ServerFinalizer
<1>10. CASE AcceptConn
  BY <1>10, <1>h DEF AcceptConn, DialOK
<1>9. CASE DialFail \/ Expire \/ Cancel \/ GC \/ ClientFinalizer \/ UNCHANGED vars
            \/ \E x \in Closers : CloseCall(x) \/ Close(x)
  <2>1. UNCHANGED <<mu, dpc, srv, srvClosed, s2c>>
    BY <1>9, Zenon DEF DialFail, Expire, Cancel, GC, ClientFinalizer, vars, CloseCall, Close,
        CloseSwap, CloseConn
  <2> QED BY <1>1, <1>2, <2>1
<1> QED BY <1>1, <1>3, <1>4, <1>5, <1>6, <1>7, <1>8, <1>9, <1>10 DEF Next, Do

\* The kinds are fixed, and a socket once closed stays so.
LEMMA UnaryStays ==
    ASSUME [Next]_vars
    PROVE  kind' = kind /\ (cliClosed' = cliClosed \/ cliClosed' = TRUE)
<1> USE DEF client, timeouts, server
<1>1. ASSUME NEW d \in Dos, DoCall(d) \/ Do(d) PROVE kind' = kind /\ cliClosed' = cliClosed
  BY <1>1, Zenon DEF DoCall, Do, DoSnapshot, DoWrite, DoWriteFail, DoRead, DoReadUndecodable,
      DoReadFail, Fail
<1>2. ASSUME Serve PROVE kind' = kind /\ cliClosed' = cliClosed
  BY <1>2, Zenon DEF Serve, NegotiateOK, NegotiateFail, SetSession, LoopTop, ReadRequest,
      ReadRequestFail, Refuse, Respond, RespondFail, ReadPanic, Panic, Crash, StreamPush, StreamReturn
<1>3. ASSUME DialOK \/ AcceptConn \/ Expire \/ Cancel \/ GC \/ ServerFinalizer \/ UNCHANGED vars
      PROVE  kind' = kind /\ cliClosed' = cliClosed
  BY <1>3, Zenon DEF DialOK, AcceptConn, Expire, Cancel, GC, ServerFinalizer, vars
<1>4. ASSUME NEW x \in Closers, CloseCall(x) \/ CloseSwap(x)
      PROVE  kind' = kind /\ cliClosed' = cliClosed
  BY <1>4, Zenon DEF CloseCall, CloseSwap
<1>5. ASSUME DialFail \/ ClientFinalizer \/ \E x \in Closers : CloseConn(x)
      PROVE  kind' = kind /\ cliClosed' = TRUE
  BY <1>5, Zenon DEF DialFail, ClientFinalizer, CloseConn
<1> QED BY <1>1, <1>2, <1>3, <1>4, <1>5, Zenon DEF Next, Close

LEMMA WirePreserved ==
    ASSUME Shapes, MuInv, Wire, Unary, ~cliClosed, ~cliClosed', [Next]_vars
    PROVE  Wire'
<1> USE TcpAssumption DEF Shapes, MuInv, client, timeouts, server
<1>h. (HasClient => HasClient') /\ (HasClient' => HasClient \/ DialOK)
  BY ClientStays
<1>n. Len(s2c) \in Nat
  OBVIOUS
<1>1. CASE DialOK
  <2>1. ~HasClient /\ c2s' = <<>> /\ UNCHANGED <<srv, cur, mu>> /\ s2c # <<>> /\ s2c' = Tail(s2c)
    BY <1>1 DEF DialOK, Wire, Dialing
  <2>2. HasClient' /\ srv # "handle" /\ srv # "stream"
    BY <1>1, <2>1 DEF DialOK, HasClient, Wire, Dialing
  <2>3. \A i \in 1..Len(s2c') : s2c'[i] = s2c[i + 1] /\ i + 1 \in 1..Len(s2c)
    BY <2>1
  <2>4. \A i \in 1..Len(s2c') : ~IsAnswer(s2c'[i])
    BY <2>1, <2>3 DEF Wire, Dialing
  <2>5. srv # "done" => \A i \in 1..Len(s2c') : IsAnswer(s2c'[i])
    BY <2>3 DEF Wire
  <2> QED BY <2>1, <2>2, <2>4, <2>5 DEF Wire, Dialing, UnderWay
<1>2. CASE ~DialOK /\ UNCHANGED <<mu, srv, cur, c2s, s2c>>
  BY <1>2, <1>h DEF Wire, Dialing, UnderWay
<1>3. ASSUME NEW d \in Dos, DoWrite(d) PROVE Wire'
  <2>1. HasClient /\ HasClient' /\ mu = NoOne /\ mu' = d /\ UNCHANGED <<srv, cur, s2c>>
    BY <1>3, <1>h DEF DoWrite
  <2>2. srv # "handle" /\ \A i \in 1..Len(s2c) : ~IsAnswer(s2c[i])
    BY <2>1 DEF Wire, UnderWay
  <2>3. srv # "done" => c2s' = <<d>>
    <3>1. srv # "done" => ~srvClosed /\ c2s = <<>>
      BY <2>1 DEF Wire, UnderWay
    <3> QED BY <1>3, <3>1 DEF DoWrite, WriteRequest
  <2> QED BY <2>1, <2>2, <2>3 DEF Wire, Dialing, UnderWay
<1>4. ASSUME NEW d \in Dos, DoRead(d) \/ DoReadUndecodable(d) PROVE Wire'
  <2>1. /\ HasClient /\ HasClient' /\ mu = d /\ mu' = NoOne
        /\ UNCHANGED <<srv, cur, c2s>> /\ s2c # <<>> /\ s2c' = Tail(s2c)
    BY <1>4, <1>h DEF DoRead, DoReadUndecodable, Fail
  <2>2. \A i \in 1..Len(s2c') : s2c'[i] = s2c[i + 1] /\ i + 1 \in 1..Len(s2c)
    BY <2>1
  <2>3. 1 \in 1..Len(s2c)
    BY <2>1
  <2>4. \A i \in 1..Len(s2c') : ~IsAnswer(s2c'[i])
    BY <2>1, <2>2 DEF Wire, UnderWay
  <2>5. srv # "done" => \A i \in 1..Len(s2c') : IsAnswer(s2c'[i])
    BY <2>2 DEF Wire
  <2>6. srv # "done" => c2s = <<>> /\ srv # "handle"
    BY <2>1, <2>3 DEF Wire, UnderWay
  <2>7. srv # "handle" /\ srv # "stream"
    BY <2>6 DEF Wire
  <2> QED BY <2>1, <2>4, <2>5, <2>6, <2>7 DEF Wire, Dialing, UnderWay
<1>5. ASSUME NEW d \in Dos, DoWriteFail(d) PROVE Wire'
  <2>1. mu' = mu /\ UNCHANGED <<srv, cur, c2s, s2c>> /\ HasClient /\ HasClient'
    BY <1>5, <1>h DEF DoWriteFail, Fail
  <2> QED BY <2>1 DEF Wire, Dialing, UnderWay
<1>6. ASSUME NEW d \in Dos, DoReadFail(d) PROVE Wire'
  <2>1. HasClient /\ HasClient' /\ srvClosed /\ s2c' = <<>> /\ srv' = srv
    BY <1>6, <1>h DEF DoReadFail, Fail
  <2>2. srv = "done"
    BY <2>1
  <2> QED BY <2>1, <2>2 DEF Wire, Dialing, UnderWay
<1>7. CASE NegotiateOK
  <2>1. ~HasClient /\ ~HasClient'
    BY <1>7, <1>h DEF NegotiateOK, DialOK
  <2>2. s2c = <<>> /\ s2c' = <<Hello>> /\ c2s' = c2s /\ srv' = "negotiated"
    BY <1>7 DEF NegotiateOK, Send
  <2>3. IsAnswer(Hello)
    BY DEF IsAnswer, Hello
  <2> QED BY <2>1, <2>2, <2>3 DEF Wire, Dialing, UnderWay
<1>d. ~DialOK => (HasClient' <=> HasClient)
  BY <1>h
<1>8. CASE SetSession \/ (LoopTop /\ srv' = "read")
  <2>1. ~DialOK /\ UNCHANGED <<mu, c2s, s2c, cur>> /\ srv \in {"negotiated", "top"} /\ srv' \in {"top", "read"}
    BY <1>8 DEF SetSession, LoopTop, DialOK, Return
  <2> QED BY <1>d, <2>1 DEF Wire, Dialing, UnderWay
<1>9. CASE NegotiateFail \/ ReadRequestFail \/ RespondFail \/ ReadPanic \/ Panic
  <2>1. UNCHANGED <<mu, s2c>> /\ srv' = "done" /\ (HasClient' <=> HasClient)
    BY <1>9, <1>d DEF NegotiateFail, ReadRequestFail, RespondFail, ReadPanic, Panic, Crash, Return, DialOK
  <2>2. ~HasClient => c2s' = <<>>
    BY <1>9 DEF NegotiateFail, ReadRequestFail, RespondFail, ReadPanic, Panic, Crash, Wire, Dialing
  <2> QED BY <2>1, <2>2 DEF Wire, Dialing, UnderWay
<1>10. CASE LoopTop /\ srv' = "done"
  <2>1. UNCHANGED <<mu, c2s>> /\ (HasClient' <=> HasClient) /\ srv = "top"
    BY <1>10, <1>d DEF LoopTop, DialOK, Return
  <2>2. \/ s2c' = s2c
        \/ \E f : ~IsAnswer(f) /\ f \in Frames /\ s2c' = Append(s2c, f)
    <3>1. [seq |-> NoOne, status |-> "SessionExpired"] \in Frames
          /\ ~IsAnswer([seq |-> NoOne, status |-> "SessionExpired"])
      BY DEF Frames, Statuses, IsAnswer
    <3> QED BY <1>10, <3>1 DEF LoopTop, Send, Return
  <2>3. \A i \in 1..Len(s2c') : IsAnswer(s2c'[i]) => i \in 1..Len(s2c) /\ s2c'[i] = s2c[i]
    BY <2>2
  <2> QED BY <1>10, <2>1, <2>3 DEF Wire, Dialing, UnderWay
<1>11. CASE ReadRequest
  <2>1. srv = "read" /\ c2s # <<>> /\ HasClient /\ HasClient'
    BY <1>11, <1>h DEF ReadRequest, Wire, Dialing
  <2>2. mu \in Dos /\ c2s = <<mu>> /\ \A i \in 1..Len(s2c) : ~IsAnswer(s2c[i])
    BY <2>1 DEF Wire, UnderWay
  <2>3. s2c = <<>>
    BY <2>1, <2>2 DEF Wire
  <2>4. cur' = mu /\ c2s' = <<>> /\ UNCHANGED <<mu, s2c>>
    BY <1>11, <2>2 DEF ReadRequest
  <2>5. srv' = "handle"
    BY <1>11, <2>2, <2>4 DEF ReadRequest, Unary
  <2> QED BY <2>1, <2>2, <2>3, <2>4, <2>5 DEF Wire, Dialing, UnderWay
<1>12. CASE Refuse \/ Respond
  <2>1. srv = "handle" /\ HasClient /\ HasClient'
    BY <1>12, <1>h DEF Refuse, Respond, Wire, Dialing
  <2>2. mu \in Dos /\ cur = mu /\ c2s = <<>> /\ s2c = <<>>
    BY <2>1 DEF Wire, UnderWay
  <2>3. PICK f : f.seq = cur /\ IsAnswer(f) /\ s2c' = <<f>>
    BY <1>12, <2>2 DEF Refuse, Respond, Send, IsAnswer
  <2>4. srv' = "top" /\ UNCHANGED <<mu, c2s>>
    BY <1>12 DEF Refuse, Respond, Continue
  <2> QED BY <2>1, <2>2, <2>3, <2>4 DEF Wire, Dialing, UnderWay
<1>13. CASE StreamPush \/ StreamReturn
  BY <1>13 DEF StreamPush, StreamReturn, Wire
<1>14. CASE DialFail \/ Expire \/ Cancel \/ GC \/ ClientFinalizer \/ ServerFinalizer \/ UNCHANGED vars
            \/ (\E x \in Closers : CloseCall(x) \/ Close(x))
            \/ \E d \in Dos : DoCall(d) \/ DoSnapshot(d)
  <2>1. UNCHANGED <<mu, srv, cur, c2s, s2c>>
    BY <1>14, Zenon DEF DialFail, Expire, Cancel, GC, ClientFinalizer, ServerFinalizer, vars,
        CloseCall, Close, CloseSwap, CloseConn, DoCall, DoSnapshot
  <2> QED BY <1>1, <1>2, <2>1
<1>16. CASE AcceptConn
  <2>1. ~DialOK /\ UNCHANGED <<mu, c2s, s2c, cur>> /\ srv = "listen" /\ srv' = "negotiate"
    BY <1>16 DEF AcceptConn, DialOK
  <2> QED BY <1>d, <2>1 DEF Wire, Dialing, UnderWay
<1>15. CASE LoopTop
  <2>1. srv' = "read" \/ srv' = "done"
    BY <1>15 DEF LoopTop, Return
  <2> QED BY <1>8, <1>10, <1>15, <2>1
<1> QED BY <1>1, <1>3, <1>4, <1>5, <1>6, <1>7, <1>8, <1>9, <1>11, <1>12, <1>13, <1>14, <1>15, <1>16
        DEF Next, Do, Serve

(***************************************************************************)
(* The server keeps the session as long as its loop runs and no longer.    *)
(***************************************************************************)
\* The session is in the store only while the loop that deletes it runs: no return,
\* no refused request and no panic leaves it behind.  The safety half of
\* SessionReclaimed, with stream handlers too.
StoredWhileServed == stored => srv \in {"top", "read", "handle", "stream"}

\* Whatever ends handleTCPConnection, its session is gone from the store with it.
THEOREM SessionEndsWithLoop == Spec => []StoredWhileServed
<1>1. Init => StoredWhileServed
  BY Zenon DEF Init, StoredWhileServed
<1>2. StoredWhileServed /\ [Next]_vars => StoredWhileServed'
  <2> SUFFICES ASSUME StoredWhileServed, [Next]_vars, stored'
               PROVE  srv' \in {"top", "read", "handle", "stream"}
    BY Zenon DEF StoredWhileServed
  <2>1. CASE Serve
    <3>1. \/ srv' \in {"top", "read", "handle", "stream"}
          \/ stored' = FALSE
          \/ srv = "negotiate" /\ stored' = stored
          \/ srv' = srv /\ stored' = stored
      BY <2>1 DEF Serve, NegotiateOK, NegotiateFail, SetSession, LoopTop, ReadRequest,
          ReadRequestFail, Refuse, Respond, RespondFail, ReadPanic, Panic, Crash, StreamPush, StreamReturn,
          Return, Continue
    <3> QED BY <3>1 DEF StoredWhileServed
  <2>2. CASE AcceptConn
    BY <2>2 DEF AcceptConn, StoredWhileServed
  <2>3. CASE GC
    BY <2>3 DEF GC
  <2>4. ASSUME ~Serve, ~AcceptConn, ~GC PROVE UNCHANGED <<srv, stored>>
    BY <2>4, Zenon DEF Next, vars, client, timeouts, server, DialOK, DialFail, DoCall, Do, DoSnapshot,
        DoWrite, DoWriteFail, DoRead, DoReadUndecodable, DoReadFail, Fail, CloseCall, Close,
        CloseSwap, CloseConn, Expire, Cancel, ClientFinalizer, ServerFinalizer
  <2> QED BY <2>1, <2>2, <2>3, <2>4 DEF StoredWhileServed
<1> QED BY <1>1, <1>2, PTL DEF Spec

(***************************************************************************)
(* The safety half of DoReturns: whoever holds the mutex waits for         *)
(* something that is under way.                                            *)
(***************************************************************************)
Pending ==
    HasClient /\ mu \in Dos /\ srv # "done" => c2s = <<mu>> \/ srv = "handle" \/ s2c # <<>>

PendingInv == Unary /\ ~cliClosed => Pending

LEMMA PendingPreserved ==
    ASSUME Shapes, MuInv, Wire, Pending, Unary, ~cliClosed, ~cliClosed', [Next]_vars
    PROVE  Pending'
<1> USE TcpAssumption DEF Shapes, MuInv, client, timeouts, server
<1>h. HasClient' => HasClient \/ DialOK
  BY ClientStays
<1>1. CASE DialOK
  BY <1>1 DEF DialOK, Pending
<1>2. CASE ~DialOK /\ UNCHANGED <<mu, c2s, s2c>> /\ (srv' = srv \/ srv \notin {"handle", "done"})
  BY <1>2, <1>h DEF Pending
<1>3. ASSUME NEW d \in Dos, DoWrite(d) PROVE Pending'
  <2>1. HasClient /\ mu = NoOne /\ mu' = d /\ srv' = srv
    BY <1>3 DEF DoWrite
  <2>2. srv # "done" => ~srvClosed /\ c2s = <<>>
    BY <2>1 DEF Wire, UnderWay
  <2> QED BY <1>3, <2>1, <2>2 DEF DoWrite, WriteRequest, Pending
<1>4. ASSUME NEW d \in Dos, DoWriteFail(d) \/ DoRead(d) \/ DoReadUndecodable(d) \/ DoReadFail(d)
      PROVE  Pending'
  <2>1. mu' = NoOne
    BY <1>4 DEF DoWriteFail, DoRead, DoReadUndecodable, DoReadFail, Fail
  <2> QED BY <2>1 DEF Pending
<1>5. CASE NegotiateOK
  <2>1. ~HasClient /\ ~DialOK
    BY <1>5 DEF NegotiateOK, DialOK
  <2> QED BY <2>1, <1>h DEF Pending
<1>6. CASE NegotiateFail \/ ReadRequestFail \/ RespondFail \/ ReadPanic \/ Panic
  BY <1>6 DEF NegotiateFail, ReadRequestFail, RespondFail, ReadPanic, Panic, Crash, Return, Pending
<1>7. CASE LoopTop
  <2>1. srv' = "done" \/ UNCHANGED <<mu, c2s, s2c>>
    BY <1>7 DEF LoopTop, Return
  <2>2. srv = "top" /\ UNCHANGED client
    BY <1>7 DEF LoopTop
  <2>3. ~DialOK
    BY <2>2, Zenon DEF DialOK, HasClient
  <2> QED BY <1>2, <2>1, <2>2, <2>3 DEF Pending
<1>8. CASE ReadRequest
  <2>2. c2s # <<>> /\ srv = "read" /\ Head(c2s) \in Dos
    BY <1>8 DEF ReadRequest
  <2>3. srv' = "handle"
    BY <1>8, <2>2 DEF ReadRequest, Unary
  <2> QED BY <2>3 DEF Pending
<1>9. CASE Refuse \/ Respond
  <2>1. s2c' # <<>>
    BY <1>9 DEF Refuse, Respond, Send
  <2> QED BY <2>1 DEF Pending
<1>10. CASE StreamPush \/ StreamReturn
  BY <1>10 DEF StreamPush, StreamReturn, Wire
<1>11. CASE SetSession \/ AcceptConn
  BY <1>2, <1>11 DEF SetSession, AcceptConn, DialOK
<1>12. CASE DialFail \/ Expire \/ Cancel \/ GC \/ ClientFinalizer \/ ServerFinalizer \/ UNCHANGED vars
            \/ (\E x \in Closers : CloseCall(x) \/ Close(x))
            \/ \E d \in Dos : DoCall(d) \/ DoSnapshot(d)
  <2>1. UNCHANGED <<mu, srv, c2s, s2c>>
    BY <1>12, Zenon DEF DialFail, Expire, Cancel, GC, ClientFinalizer, ServerFinalizer, vars,
        CloseCall, Close, CloseSwap, CloseConn, DoCall, DoSnapshot
  <2> QED BY <1>1, <1>2, <2>1
<1> QED BY <1>1, <1>3, <1>4, <1>5, <1>6, <1>7, <1>8, <1>9, <1>10, <1>11, <1>12 DEF Next, Do, Serve

\* What MuInv, the wire and what is pending are together.
SessionInv == MuInv /\ WireInv /\ PendingInv

LEMMA SessionInvariant == Spec => []SessionInv
<1>1. Init => SessionInv
  BY TcpAssumption DEF Init, SessionInv, MuInv, WireInv, Wire, Dialing, UnderWay, HasClient,
      PendingInv, Pending
<1>2. TypeOK => Shapes
  BY Zenon DEF TypeOK, Shapes
<1>3. Shapes /\ SessionInv /\ [Next]_vars => SessionInv'
  <2> SUFFICES ASSUME Shapes, SessionInv, [Next]_vars PROVE SessionInv'
    OBVIOUS
  <2>1. MuInv'
    BY MuPreserved DEF SessionInv
  <2>2. kind' = kind /\ (cliClosed' = cliClosed \/ cliClosed' = TRUE)
    BY UnaryStays
  <2>3. Unary' = Unary
    BY <2>2 DEF Unary
  <2>4. WireInv'
    BY <2>2, <2>3, WirePreserved DEF SessionInv, WireInv
  <2>5. PendingInv'
    BY <2>2, <2>3, PendingPreserved DEF SessionInv, WireInv, PendingInv
  <2> QED BY <2>1, <2>4, <2>5 DEF SessionInv
<1> QED BY <1>1, <1>2, <1>3, TcpTypeCorrect, PTL DEF Spec

\* A Do call that waits for its response, with the mutex that every other Do and
\* Close queues for, waits for a frame on the wire, for its own request on the
\* wire or in the handler, or for an end that is closed or will be: the client's
\* own, or that of a server which has returned.
WaitsForSomething ==
    /\ mu # NoOne => dpc[mu] = "reading"
    /\ Unary => \A d \in Dos : dpc[d] = "reading" =>
        \/ s2c # <<>>
        \/ c2s = <<d>> /\ srv \in {"negotiated", "top", "read"}
        \/ cur = d /\ srv = "handle"
        \/ cliClosed \/ srv = "done"

\* Nobody waits in vain on a TCP session without stream handlers: the premise of
\* DoReturns and CloseReturns that needs no fairness, for any number of calls.
THEOREM NobodyWaitsInVain == Spec => []WaitsForSomething
<1>1. TypeOK /\ SessionInv => WaitsForSomething
  <2> SUFFICES ASSUME TypeOK, SessionInv PROVE WaitsForSomething
    OBVIOUS
  <2>1. Shapes
    BY Zenon DEF TypeOK, Shapes
  <2>2. mu # NoOne => dpc[mu] = "reading"
    BY <2>1 DEF Shapes, SessionInv, MuInv
  <2>3. ASSUME Unary, NEW d \in Dos, dpc[d] = "reading", s2c = <<>>, ~cliClosed, srv # "done"
        PROVE  (c2s = <<d>> /\ srv \in {"negotiated", "top", "read"}) \/ (cur = d /\ srv = "handle")
    <3>1. mu = d /\ HasClient /\ srv \notin {"listen", "negotiate"}
      BY <2>3 DEF SessionInv, MuInv
    <3>2. Wire /\ Pending
      BY <2>3 DEF SessionInv, WireInv, PendingInv
    <3>3. CASE srv = "handle"
      BY <3>1, <3>2, <3>3 DEF Wire, UnderWay
    <3>4. CASE srv # "handle"
      <4>1. c2s = <<d>>
        BY <2>3, <3>1, <3>2, <3>4 DEF Pending
      <4>2. srv \in {"negotiated", "top", "read"}
        BY <2>1, <2>3, <3>1, <3>2, <3>4 DEF Wire, Shapes
      <4> QED BY <4>1, <4>2
    <3> QED BY <3>3, <3>4
  <2> QED BY <2>2, <2>3 DEF WaitsForSomething
<1> QED BY <1>1, TcpTypeCorrect, SessionInvariant, PTL

\* A Do call over TCP returns the answer to its own request.
THEOREM ResponsesAreOwn == Spec => []OwnResponse
<1>1. Init => OwnResponse
  BY DEF Init, OwnResponse, NoFrame
<1>2. TypeOK => Shapes
  BY Zenon DEF TypeOK, Shapes
<1>3. Shapes /\ SessionInv /\ OwnResponse /\ [Next]_vars => OwnResponse'
  <2> SUFFICES ASSUME Shapes, SessionInv, OwnResponse, [Next]_vars PROVE OwnResponse'
    OBVIOUS
  <2>k. kind' = kind
    BY UnaryStays
  <2>u. Unary' = Unary
    BY <2>k DEF Unary
  <2>1. CASE res' = res
    BY <2>u, <2>1 DEF OwnResponse
  <2>2. ASSUME NEW d \in Dos, DoRead(d) PROVE OwnResponse'
    <3> SUFFICES ASSUME Unary PROVE OwnResponse'
      BY <2>u DEF OwnResponse
    <3>1. HasClient /\ mu = d /\ s2c # <<>> /\ 1 \in 1..Len(s2c) /\ Head(s2c) = s2c[1]
      BY <2>2 DEF DoRead, SessionInv, MuInv, Shapes
    <3>2. Wire
      BY <2>2 DEF DoRead, SessionInv, WireInv
    <3>3. Head(s2c).status = "SessionExpired" \/ Head(s2c).seq = d
      BY <3>1, <3>2 DEF Wire, UnderWay, IsAnswer
    <3>4. res' = [res EXCEPT ![d] = Head(s2c)]
      BY <2>2 DEF DoRead
    <3> QED BY <3>3, <3>4 DEF OwnResponse, Shapes
  <2>3. res' = res \/ \E d \in Dos : DoRead(d)
      BY Zenon DEF Next, vars, client, timeouts, server, DialOK, DialFail, DoCall, Do, DoSnapshot,
          DoWrite, DoWriteFail, DoReadUndecodable, DoReadFail, Fail, CloseCall, Close, CloseSwap,
          CloseConn, AcceptConn, Expire, Cancel, GC, Serve, NegotiateOK, NegotiateFail, SetSession, LoopTop,
          ReadRequest, ReadRequestFail, Refuse, Respond, RespondFail, ReadPanic, Panic, Crash, StreamPush,
          StreamReturn, ClientFinalizer, ServerFinalizer
  <2> QED BY <2>1, <2>2, <2>3
<1> QED BY <1>1, <1>2, <1>3, TcpTypeCorrect, SessionInvariant, PTL DEF Spec
=============================================================================
