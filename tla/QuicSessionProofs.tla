------------------------- MODULE QuicSessionProofs -------------------------
(***************************************************************************)
(* Proofs about QuicSession and the handshake it rests on, for every key   *)
(* store, every set of client keys and any number of Do and Close calls.   *)
(***************************************************************************)
EXTENDS QuicSession, FiniteSets, FiniteSetTheorems, TLAPS

(***************************************************************************)
(* The handshake alone.                                                    *)
(***************************************************************************)
\* The two ends derive one key exactly if the ID fits its length field and the
\* client holds the secret the server has for it; then they agree on the ID.
LEMMA KeysAgree ==
    ASSUME NEW k \in ClientKeys, Known(ClientInit(k)), NEW i, NEW j
    PROVE  LET c == ClientSession(k, i)
               s == ServerSession(ClientInit(k), j)
           IN  /\ c.key = s.key <=> Fits(k) /\ RightSecret(k)
               /\ c.key = s.key => c.apiKeyID = s.apiKeyID
               /\ c.id = i /\ s.id = j
<1> DEFINE c == ClientSession(k, i)
           m == ClientInit(k)
           s == ServerSession(m, j)
<1>1. /\ c.key = <<{Client, Server}, ClientSecret(k)>>
      /\ c.id = i /\ c.apiKeyID = k.id
  BY DEF ClientSession, NewSession, DeriveSessionKey, SharedSecret
<1>2. /\ s.key = <<{Server, m.pub}, IF m.len = 0 THEN AnonSecret ELSE KeyStore[m.id]>>
      /\ s.id = j /\ s.apiKeyID = IF m.len = 0 THEN NoID ELSE m.id
  BY DEF ServerSession, NewSession, DeriveSessionKey, SharedSecret
<1>3. k.len \in Nat /\ (k.len = 0 <=> k.id = NoID)
  BY HandshakeAssumption
<1>4. CASE Fits(k)
  <2>1. m.pub = Client /\ m.id = k.id /\ m.len = k.len
    BY <1>3, <1>4 DEF ClientInit, Fits, LenRange
  <2>2. {Client, Server} = {Server, m.pub}
    BY <2>1
  <2>3. CASE k.id = NoID
    BY <1>1, <1>2, <1>3, <1>4, <2>1, <2>2, <2>3 DEF ClientSecret, RightSecret
  <2>4. CASE k.id # NoID
    <3>1. k.id \in DOMAIN KeyStore /\ m.len # 0
      BY <1>3, <2>1, <2>4 DEF Known
    <3>2. c.key = s.key <=> k.secret = KeyStore[k.id]
      BY <1>1, <1>2, <2>1, <2>2, <2>4, <3>1 DEF ClientSecret
    <3> QED BY <1>1, <1>2, <1>4, <2>1, <2>4, <3>1, <3>2 DEF RightSecret
  <2> QED BY <2>3, <2>4
<1>5. CASE ~Fits(k)
  <2>1. m.pub = Garbage
    BY <1>5 DEF ClientInit
  <2>2. {Client, Server} # {Server, m.pub}
    BY <2>1, HandshakeAssumption
  <2>3. c.key # s.key
    BY <1>1, <1>2, <2>2
  <2> QED BY <1>1, <1>2, <1>5, <2>3
<1> QED BY <1>4, <1>5

\* No established session is the nil session: its number is not 0.
LEMMA SessionsAreReal ==
    ASSUME NEW k, NEW m, NEW i \in SessionIDs
    PROVE  ClientSession(k, i) # NoSession /\ ServerSession(m, i) # NoSession
BY QuicAssumption DEF ClientSession, ServerSession, NoSession, NewSession

\* Every reachable state has the shape TypeOK gives it; OpenStreamSync hands out no
\* stream beyond the credit.
THEOREM QuicTypeCorrect == Spec => []TypeOK
<1>1. Init => TypeOK
  BY QuicAssumption DEF Init, TypeOK
<1>2. TypeOK /\ [Next]_vars => TypeOK'
  <2> SUFFICES ASSUME TypeOK, [Next]_vars PROVE TypeOK'
    OBVIOUS
  <2> USE DEF TypeOK, dial, stream, calls
  <2>1. CASE ConnLost
    BY <2>1 DEF ConnLost
  <2>2. CASE DialSend \/ Serve \/ DialFail
    BY <2>2 DEF DialSend, Serve, DialFail
  <2>9. CASE NegotiateRefuse
    <3>1. srv' = "gone" /\ connUp' = FALSE
          /\ UNCHANGED <<key, cpc, csess, ssess, credit, dialed, calls, stream>>
      BY <2>9 DEF NegotiateRefuse
    <3>2. connUp' \in BOOLEAN /\ srv' \in {"wait", "answered", "serving", "gone"}
      BY <3>1
    <3> QED BY <3>1, <3>2
  <2>3. ASSUME NEW i \in SessionIDs, NegotiateServer(i) PROVE TypeOK'
    BY <2>3 DEF NegotiateServer
  <2>4. CASE NegotiateClient
    <3>1. \E i \in SessionIDs : ssess.id = i
      BY <2>4 DEF NegotiateClient, ServerSession, NewSession
    <3> QED BY <2>4, <3>1 DEF NegotiateClient
  <2>5. ASSUME NEW d \in Dos, DoCall(d) \/ CtxDone(d) \/ Do(d) PROVE TypeOK'
    <3> USE DEF Statuses
    <3>1. CASE DoCall(d) \/ CtxDone(d) \/ DoSnapshot(d) \/ OpenStream(d) \/ OpenStreamFail(d)
      BY <3>1 DEF DoCall, CtxDone, DoSnapshot, OpenStream, OpenStreamFail
    <3>2. CASE WriteRequest(d)
      BY <3>2 DEF WriteRequest
    <3>3. CASE WriteFail(d) \/ ReadResponse(d) \/ ReadFail(d)
      BY <3>3 DEF WriteFail, ReadResponse, ReadFail, Leave
    <3> QED BY <2>5, <3>1, <3>2, <3>3 DEF Do
  <2>6. ASSUME NEW d \in Dos, HandleStream(d) PROVE TypeOK'
    <3> USE DEF Statuses, Finish, Proceed
    <3>1. CASE AcceptStream(d) \/ ReadUnknown(d) \/ ReadRequest(d)
      BY <3>1 DEF AcceptStream, ReadUnknown, ReadRequest
    <3>2. CASE ReadBad(d)
      BY <3>2 DEF ReadBad
    <3>3. CASE HandlerReturn(d)
      BY <3>3 DEF HandlerReturn
    <3>4. CASE StreamPush(d) \/ StreamHandlerReturn(d) \/ Panic(d)
      BY <3>4 DEF StreamPush, StreamHandlerReturn, Panic
    <3> QED BY <2>6, <3>1, <3>2, <3>3, <3>4 DEF HandleStream
  <2>7. ASSUME NEW x \in Closers, CloseSwap(x) \/ CloseConn(x) PROVE TypeOK'
    BY <2>7 DEF CloseSwap, CloseConn
  <2>8. CASE UNCHANGED vars
    BY <2>8 DEF vars
  <2> QED BY <2>1, <2>2, <2>3, <2>4, <2>5, <2>6, <2>7, <2>8, <2>9 DEF Next
<1> QED BY <1>1, <1>2, PTL DEF Spec

(***************************************************************************)
(* The inductive invariant: the client's session was made from the         *)
(* server's answer; streams exist only in a session; and what passed a     *)
(* decryption on either side shows that the keys are equal.                *)
(***************************************************************************)
DialInv ==
    /\ cpc = "up" <=> csess # NoSession
    /\ srv \in {"answered", "serving"} => ssess # NoSession
    /\ srv = "wait" => ssess = NoSession
    /\ csess # NoSession => ssess # NoSession /\ csess = ClientSession(key, ssess.id)

StreamInv ==
    \A d \in Dos :
        /\ dpc[d] # "none" => cpc = "up"
        /\ d \in sent \cup fin \/ res[d] # "none" => dpc[d] # "none"
        /\ spc[d] # "none" => srv = "serving" /\ d \in sent \cup fin
        /\ spc[d] \in {"handler", "stream"} \/ res[d] # "none" => csess.key = ssess.key

Inv == DialInv /\ StreamInv

LEMMA QuicInvariant == Spec => []Inv
<1>1. Init => Inv
  BY DEF Init, Inv, DialInv, StreamInv
<1>2. TypeOK /\ Inv /\ [Next]_vars => Inv'
  <2> SUFFICES ASSUME TypeOK, Inv, [Next]_vars PROVE Inv'
    OBVIOUS
  <2> USE DEF TypeOK, Inv, dial, stream, calls
  <2>1. CASE ConnLost
    BY <2>1 DEF ConnLost, DialInv, StreamInv
  <2>2. CASE DialSend \/ DialFail
    BY <2>2 DEF DialSend, DialFail, DialInv, StreamInv
  <2>10. CASE Serve
    BY <2>10 DEF Serve, DialInv, StreamInv
  <2>3. CASE NegotiateRefuse
    <3>1. srv = "wait" /\ srv' = "gone"
          /\ UNCHANGED <<key, cpc, csess, ssess, credit, dialed, calls, stream>>
      BY <2>3 DEF NegotiateRefuse
    <3> QED BY <3>1 DEF DialInv, StreamInv
  <2>4. ASSUME NEW i \in SessionIDs, NegotiateServer(i) PROVE Inv'
    <3>1. ssess' # NoSession /\ csess = NoSession /\ cpc = "sent" /\ srv = "wait"
      BY <2>4, SessionsAreReal DEF NegotiateServer, DialInv
    <3>2. UNCHANGED <<key, cpc, csess, connUp, credit, dialed, calls, stream>> /\ srv' = "answered"
      BY <2>4 DEF NegotiateServer
    <3> QED BY <3>1, <3>2 DEF DialInv, StreamInv
  <2>5. CASE NegotiateClient
    <3>1. ssess # NoSession /\ csess' = ClientSession(key, ssess.id) /\ cpc = "sent" /\ cpc' = "up"
          /\ UNCHANGED <<key, srv, ssess, connUp, credit, calls, stream>>
      BY <2>5 DEF NegotiateClient
    <3>2. csess' # NoSession
      <4>1. \E i \in SessionIDs : ssess.id = i
        BY <3>1 DEF ServerSession, NewSession
      <4> QED BY <3>1, <4>1, SessionsAreReal
    <3> QED BY <3>1, <3>2 DEF DialInv, StreamInv
  <2>6. ASSUME NEW d \in Dos, DoCall(d) \/ CtxDone(d) \/ Do(d) PROVE Inv'
    <3>1. CASE DoCall(d) \/ CtxDone(d) \/ DoSnapshot(d) \/ OpenStream(d) \/ OpenStreamFail(d)
      BY <3>1 DEF DoCall, CtxDone, DoSnapshot, OpenStream, OpenStreamFail, DialInv, StreamInv
    <3>2. CASE WriteRequest(d)
      BY <3>2 DEF WriteRequest, DialInv, StreamInv
    <3>3. CASE WriteFail(d) \/ ReadFail(d)
      BY <3>3 DEF WriteFail, ReadFail, Leave, DialInv, StreamInv
    <3>4. CASE ReadResponse(d)
      BY <3>4 DEF ReadResponse, Readable, Decrypts, Leave, DialInv, StreamInv
    <3> QED BY <2>6, <3>1, <3>2, <3>3, <3>4 DEF Do
  <2>7. ASSUME NEW d \in Dos, HandleStream(d) PROVE Inv'
    <3> USE DEF Finish, Proceed, DialInv, StreamInv
    <3>1. CASE AcceptStream(d)
      BY <3>1 DEF AcceptStream
    <3>2. CASE ReadBad(d) \/ ReadUnknown(d)
      BY <3>2 DEF ReadBad, ReadUnknown
    <3>3. CASE ReadRequest(d)
      BY <3>3 DEF ReadRequest, Authentic, Decrypts
    <3>4. CASE HandlerReturn(d) \/ StreamPush(d) \/ StreamHandlerReturn(d) \/ Panic(d)
      BY <3>4 DEF HandlerReturn, StreamPush, StreamHandlerReturn, Panic
    <3> QED BY <2>7, <3>1, <3>2, <3>3, <3>4 DEF HandleStream
  <2>8. ASSUME NEW x \in Closers, CloseSwap(x) \/ CloseConn(x) PROVE Inv'
    BY <2>8 DEF CloseSwap, CloseConn, DialInv, StreamInv
  <2>9. CASE UNCHANGED vars
    BY <2>9 DEF vars, DialInv, StreamInv
  <2> QED BY <2>1, <2>2, <2>3, <2>4, <2>5, <2>6, <2>7, <2>8, <2>9, <2>10 DEF Next
<1> QED BY <1>1, <1>2, QuicTypeCorrect, PTL DEF Spec

\* NegotiateClient and NegotiateServer agree on the session, its key and its
\* identity exactly when they should, for every key store and key.
THEOREM HandshakeAgrees == Spec => []KeyAgreement
<1>1. TypeOK /\ Inv => KeyAgreement
  <2> SUFFICES ASSUME TypeOK, Inv, csess # NoSession, ssess # NoSession
               PROVE  /\ csess.id = ssess.id
                      /\ csess.key = ssess.key <=> Fits(key) /\ RightSecret(key)
                      /\ csess.key = ssess.key => csess.apiKeyID = ssess.apiKeyID
    BY DEF KeyAgreement, Decrypts
  <2>1. PICK i \in SessionIDs : ssess = ServerSession(ClientInit(key), i)
    BY DEF TypeOK
  <2>2. Known(ClientInit(key)) /\ key \in ClientKeys /\ csess = ClientSession(key, ssess.id)
    BY DEF TypeOK, Inv, DialInv
  <2> QED BY <2>1, <2>2, KeysAgree
<1> QED BY <1>1, QuicTypeCorrect, QuicInvariant, PTL

\* No request is handled, and no response returned, under a key ID whose secret
\* the client does not hold.
THEOREM HandlersSeeAuthenticKeys == Spec => []HandlerAuthentic
<1>1. TypeOK /\ Inv /\ KeyAgreement => HandlerAuthentic
  <2> SUFFICES ASSUME TypeOK, Inv, KeyAgreement, NEW d \in Dos,
                      spc[d] \in {"handler", "stream"} \/ res[d] # "none"
               PROVE  key.id = ssess.apiKeyID /\ RightSecret(key)
    BY DEF HandlerAuthentic
  <2>1. csess # NoSession /\ ssess # NoSession /\ csess.key = ssess.key
    BY DEF Inv, DialInv, StreamInv
  <2>2. csess.apiKeyID = key.id
    BY <2>1 DEF Inv, DialInv, ClientSession, NewSession
  <2> QED BY <2>1, <2>2 DEF KeyAgreement, Decrypts
<1> QED BY <1>1, QuicTypeCorrect, QuicInvariant, HandshakeAgrees, PTL

(***************************************************************************)
(* What the client sees of its streams is StreamContract, the same that    *)
(* SessionServer implements with its store and its timeouts: a request     *)
(* the server cannot open, or has no handler for, is refused; a handler's  *)
(* frame, or its silence, is followed by the end of the stream.            *)
(***************************************************************************)
Phase == [d \in Dos |-> IF spc[d] = "read" THEN "open" ELSE spc[d]]
Written == {d \in Dos : answer[d] # "none"}

Contract == INSTANCE StreamContract WITH Streams <- Dos, phase <- Phase, written <- Written

\* Only a stream handler writes before handleStream ends, nobody closes before, and
\* a handleStream that ended has done one or the other.
AnswerInv ==
    \A d \in Dos :
        /\ spc[d] \in {"none", "read", "handler"} => answer[d] = "none"
        /\ d \in closed => spc[d] = "done"
        /\ spc[d] = "done" => answer[d] # "none" \/ d \in closed

\* handleStream alone writes to a stream, or moves it on, on the server's side.
LEMMA OthersLeaveStreams ==
    ASSUME [Next]_vars, ~\E d \in Dos : HandleStream(d)
    PROVE  UNCHANGED <<spc, answer, closed>>
<1> USE DEF stream, calls
<1>1. CASE ConnLost \/ DialSend \/ NegotiateRefuse \/ Serve \/ NegotiateClient \/ DialFail
  BY <1>1 DEF ConnLost, DialSend, NegotiateRefuse, Serve, NegotiateClient, DialFail
<1>2. ASSUME NEW i \in SessionIDs, NegotiateServer(i) PROVE UNCHANGED <<spc, answer, closed>>
  BY <1>2 DEF NegotiateServer
<1>3. ASSUME NEW d \in Dos, DoCall(d) \/ CtxDone(d) \/ Do(d) PROVE UNCHANGED <<spc, answer, closed>>
  BY <1>3 DEF DoCall, CtxDone, Do, DoSnapshot, OpenStream, OpenStreamFail, WriteRequest, WriteFail,
      ReadResponse, ReadFail, Leave
<1>4. ASSUME NEW x \in Closers, CloseSwap(x) \/ CloseConn(x) PROVE UNCHANGED <<spc, answer, closed>>
  BY <1>4 DEF CloseSwap, CloseConn
<1>5. CASE UNCHANGED vars
  BY <1>5 DEF vars
<1> QED BY <1>1, <1>2, <1>3, <1>4, <1>5 DEF Next

LEMMA AnswerInvariant == Spec => []AnswerInv
<1>1. Init => AnswerInv
  BY DEF Init, AnswerInv
<1>2. TypeOK /\ AnswerInv /\ [Next]_vars => AnswerInv'
  <2> SUFFICES ASSUME TypeOK, AnswerInv, [Next]_vars PROVE AnswerInv'
    OBVIOUS
  <2> USE DEF TypeOK, AnswerInv, dial, stream, calls
  <2>1. CASE UNCHANGED <<spc, answer, closed>>
    BY <2>1
  <2>2. ASSUME NEW d \in Dos, HandleStream(d) PROVE AnswerInv'
    <3> USE DEF Finish, Proceed
    <3>1. CASE AcceptStream(d)
      <4>1. CASE Proceed(d, "read")
        BY <3>1, <4>1 DEF AcceptStream
      <4>2. CASE Finish(d, "SessionExpired", TRUE)
        BY <3>1, <4>2 DEF AcceptStream
      <4> QED BY <3>1, <4>1, <4>2 DEF AcceptStream
    <3>2. CASE ReadBad(d) \/ ReadUnknown(d)
      BY <3>2 DEF ReadBad, ReadUnknown
    <3>3. CASE ReadRequest(d)
      BY <3>3 DEF ReadRequest
    <3>4. CASE HandlerReturn(d)
      BY <3>4 DEF HandlerReturn
    <3>5. CASE StreamPush(d)
      BY <3>5 DEF StreamPush
    <3>6. CASE StreamHandlerReturn(d)
      BY <3>6 DEF StreamHandlerReturn
    <3>7. CASE Panic(d)
      BY <3>7 DEF Panic
    <3> QED BY <2>2, <3>1, <3>2, <3>3, <3>4, <3>5, <3>6, <3>7 DEF HandleStream
  <2>3. CASE ~\E d \in Dos : HandleStream(d)
    BY <2>1, <2>3, OthersLeaveStreams
  <2> QED BY <2>2, <2>3
<1> QED BY <1>1, <1>2, QuicTypeCorrect, PTL DEF Spec

\* What the two ways of moving a stream mean to the contract.
LEMMA FinishIsMove ==
    ASSUME TypeOK, NEW d \in Dos, NEW status, NEW close \in BOOLEAN,
           answer[d] # "none" => status # "none", Finish(d, status, close)
    PROVE  /\ Phase' = [Phase EXCEPT ![d] = "done"]
           /\ Written' = IF status = "none" THEN Written ELSE Written \cup {d}
           /\ closed' = IF close THEN closed \cup {d} ELSE closed
<1> USE DEF TypeOK, Finish
<1>1. Phase' = [Phase EXCEPT ![d] = "done"]
  BY DEF Phase
<1>2. Written' = IF status = "none" THEN Written ELSE Written \cup {d}
  BY DEF Written
<1> QED BY <1>1, <1>2

LEMMA ProceedIsMove ==
    ASSUME TypeOK, NEW d \in Dos, NEW to, Proceed(d, to)
    PROVE  /\ Phase' = [Phase EXCEPT ![d] = IF to = "read" THEN "open" ELSE to]
           /\ Written' = Written /\ closed' = closed
BY DEF TypeOK, Proceed, Phase, Written

LEMMA HandleIsContractStep ==
    ASSUME TypeOK, AnswerInv, NEW d \in Dos, HandleStream(d)
    PROVE  Contract!Step(d)
<1> USE DEF Contract!Step, Contract!Move
<1>p. Phase[d] = IF spc[d] = "read" THEN "open" ELSE spc[d]
  BY DEF Phase
<1>a. spc[d] \in {"none", "read", "handler"} => answer[d] = "none"
  BY DEF AnswerInv
<1>r. ASSUME NEW status \in Statuses, spc[d] \in {"none", "read"}, Finish(d, status, TRUE)
      PROVE Contract!Refuse(d)
  <2>1. answer[d] = "none" /\ status # "none" /\ TRUE \in BOOLEAN
    BY <1>r, <1>a DEF Statuses
  <2>2. /\ Phase' = [Phase EXCEPT ![d] = "done"]
        /\ Written' = Written \cup {d} /\ closed' = closed \cup {d}
    BY <1>r, <2>1, FinishIsMove
  <2> QED BY <1>p, <1>r, <2>2 DEF Contract!Refuse
<1>1. CASE AcceptStream(d)
  <2>1. CASE Proceed(d, "read")
    <3>1. Phase[d] = "none" /\ Phase' = [Phase EXCEPT ![d] = "open"] /\ Written' = Written /\ closed' = closed
      BY <1>1, <1>p, <2>1, ProceedIsMove DEF AcceptStream
    <3> QED BY <3>1 DEF Contract!Accept
  <2>2. CASE Finish(d, "SessionExpired", TRUE)
    BY <1>1, <1>r, <2>2 DEF AcceptStream, Statuses
  <2> QED BY <1>1, <2>1, <2>2 DEF AcceptStream
<1>2. CASE ReadBad(d) \/ ReadUnknown(d)
  BY <1>2, <1>r DEF ReadBad, ReadUnknown, Statuses
<1>3. CASE ReadRequest(d)
  <2>1. PICK h \in {"handler", "stream"} : Proceed(d, h)
    BY <1>3 DEF ReadRequest
  <2>2. Phase[d] = "open" /\ Phase' = [Phase EXCEPT ![d] = h] /\ Written' = Written /\ closed' = closed
    BY <1>3, <1>p, <2>1, ProceedIsMove DEF ReadRequest
  <2> QED BY <2>2 DEF Contract!Handle
<1>4. CASE HandlerReturn(d)
  <2>1. PICK r \in {"Response", "InternalError", "undecodable", "none"} : Finish(d, r, TRUE)
    BY <1>4 DEF HandlerReturn
  <2>2. spc[d] = "handler" /\ answer[d] = "none" /\ Phase[d] = "handler"
    BY <1>4, <1>p, <1>a DEF HandlerReturn
  <2>3. /\ Phase' = [Phase EXCEPT ![d] = "done"]
        /\ Written' \in {Written, Written \cup {d}} /\ closed' = closed \cup {d}
    BY <2>1, <2>2, FinishIsMove
  <2> QED BY <2>2, <2>3 DEF Contract!Return
<1>5. CASE StreamPush(d)
  <2>1. Phase[d] = "stream" /\ Phase' = Phase /\ closed' = closed
    BY <1>5, <1>p DEF StreamPush, Phase
  <2>2. Written' = Written \cup {d}
    BY <1>5 DEF StreamPush, Written, TypeOK
  <2> QED BY <2>1, <2>2 DEF Contract!Push
<1>6. CASE StreamHandlerReturn(d)
  <2>1. Phase[d] = "stream" /\ Finish(d, answer[d], TRUE)
    BY <1>6, <1>p DEF StreamHandlerReturn
  <2>2. /\ Phase' = [Phase EXCEPT ![d] = "done"] /\ closed' = closed \cup {d}
        /\ Written' = IF answer[d] = "none" THEN Written ELSE Written \cup {d}
    BY <2>1, FinishIsMove
  <2>3. Written' = Written
    BY <2>2 DEF Written
  <2> QED BY <2>1, <2>2, <2>3 DEF Contract!StreamReturn
<1>7. CASE Panic(d)
  <2> DEFINE st == IF answer[d] = "none" THEN "InternalError" ELSE answer[d]
  <2>1. Phase[d] \in {"open", "handler", "stream"} /\ Finish(d, st, FALSE)
    BY <1>7, <1>p DEF Panic
  <2>2. st # "none"
    OBVIOUS
  <2> HIDE DEF st
  <2>3. /\ Phase' = [Phase EXCEPT ![d] = "done"]
        /\ Written' = IF st = "none" THEN Written ELSE Written \cup {d}
        /\ closed' = IF FALSE THEN closed \cup {d} ELSE closed
    BY <2>1, <2>2, FinishIsMove, Zenon
  <2> QED BY <2>1, <2>2, <2>3 DEF Contract!Recover
<1> QED BY <1>1, <1>2, <1>3, <1>4, <1>5, <1>6, <1>7 DEF HandleStream

\* handleStream keeps the contract towards this client whatever keys the two ends
\* hold, and with Close and lost connections around it.
THEOREM QuicStreamsKeepContract == Spec => Contract!Spec
<1>1. Init => Contract!Init
  BY DEF Init, Contract!Init, Phase, Written
<1>2. TypeOK /\ AnswerInv /\ [Next]_vars =>
        [Contract!Next]_<<Phase, Written, closed>>
  <2> SUFFICES ASSUME TypeOK, AnswerInv, [Next]_vars
               PROVE  Contract!Next \/ UNCHANGED <<Phase, Written, closed>>
    OBVIOUS
  <2>1. CASE \E d \in Dos : HandleStream(d)
    BY <2>1, HandleIsContractStep DEF Contract!Next
  <2>2. CASE ~\E d \in Dos : HandleStream(d)
    <3>1. UNCHANGED <<spc, answer, closed>>
      BY <2>2, OthersLeaveStreams
    <3> QED BY <3>1 DEF Phase, Written
  <2> QED BY <2>1, <2>2
<1> QED BY <1>1, <1>2, QuicTypeCorrect, AnswerInvariant, PTL DEF Spec, Contract!Spec

(***************************************************************************)
(* The half of DoReturns that is safety: a Do that waits for its response  *)
(* on an open connection waits for a goroutine of the server that is still *)
(* on its way, never for one that is gone.                                 *)
(***************************************************************************)
\* A Do in ReadResponse on an open connection has its request on the stream and a
\* handleConnection that has not returned; a handleStream that is over has left it
\* something to read.
WaitsForServer ==
    \A d \in Dos : dpc[d] = "read" /\ connUp =>
        /\ d \in sent /\ srv \in {"answered", "serving"}
        /\ spc[d] = "done" => answer[d] # "none" \/ d \in closed

\* Once negotiated, handleConnection leaves only with the connection.
WaitInv ==
    /\ connUp /\ ssess # NoSession => srv \in {"answered", "serving"}
    /\ \A d \in Dos : dpc[d] = "read" => d \in sent

LEMMA WaitInvariant == Spec => []WaitInv
<1>1. Init => WaitInv
  BY DEF Init, WaitInv
<1>2. TypeOK /\ Inv /\ WaitInv /\ [Next]_vars => WaitInv'
  <2> SUFFICES ASSUME TypeOK, Inv, WaitInv, [Next]_vars PROVE WaitInv'
    OBVIOUS
  <2> USE DEF TypeOK, WaitInv, dial, stream, calls
  <2>1. CASE ConnLost \/ DialSend \/ DialFail \/ Serve \/ NegotiateClient
    BY <2>1 DEF ConnLost, DialSend, DialFail, Serve, NegotiateClient
  <2>2. CASE NegotiateRefuse
    BY <2>2 DEF NegotiateRefuse
  <2>3. ASSUME NEW i \in SessionIDs, NegotiateServer(i) PROVE WaitInv'
    BY <2>3 DEF NegotiateServer
  <2>4. ASSUME NEW d \in Dos, DoCall(d) \/ CtxDone(d) \/ Do(d) PROVE WaitInv'
    BY <2>4 DEF DoCall, CtxDone, Do, DoSnapshot, OpenStream, OpenStreamFail, WriteRequest, WriteFail,
        ReadResponse, ReadFail, Leave
  <2>5. ASSUME NEW d \in Dos, HandleStream(d) PROVE WaitInv'
    BY <2>5 DEF HandleStream, AcceptStream, ReadBad, ReadUnknown, ReadRequest, HandlerReturn,
        StreamPush, StreamHandlerReturn, Panic, Finish, Proceed
  <2>6. ASSUME NEW x \in Closers, CloseSwap(x) \/ CloseConn(x) PROVE WaitInv'
    BY <2>6 DEF CloseSwap, CloseConn
  <2>7. CASE UNCHANGED vars
    BY <2>7 DEF vars
  <2> QED BY <2>1, <2>2, <2>3, <2>4, <2>5, <2>6, <2>7 DEF Next
<1> QED BY <1>1, <1>2, QuicTypeCorrect, QuicInvariant, PTL DEF Spec

\* No Do waits for a response nobody will send: while the connection is open its
\* request is on the stream, handleConnection has not returned, and a handleStream
\* that is over has left a frame or the end of the stream.
THEOREM NoDoWaitsInVain == Spec => []WaitsForServer
<1>1. TypeOK /\ Inv /\ AnswerInv /\ WaitInv => WaitsForServer
  BY DEF TypeOK, Inv, DialInv, StreamInv, AnswerInv, WaitInv, WaitsForServer
<1> QED BY <1>1, QuicTypeCorrect, QuicInvariant, AnswerInvariant, WaitInvariant, PTL

(***************************************************************************)
(* How many streams a session has at a time.  handleConnection starts a    *)
(* goroutine for every stream it accepts and has no limit of its own; what *)
(* bounds them is the credit quic-go hands out, of which the handshake's   *)
(* stream keeps a share for good.                                          *)
(***************************************************************************)
\* However many goroutines of the client call Do, and however often a stream's
\* credit comes back, fewer than MaxStreams goroutines of handleStream run for a
\* session at any time, and by as many fewer as the client may still open.
StreamsBounded ==
    cpc = "up" =>
        Cardinality({d \in Dos : spc[d] \in {"read", "handler", "stream"}}) + credit < MaxStreams

\* The streams whose credit the server cannot have given back: about to be written
\* to, or with a request or an end that handleStream is not done with.
Held == {d \in Dos : dpc[d] = "write" \/ (d \in sent \cup fin /\ spc[d] # "done")}

HandshakeStream == IF cpc \in {"sent", "up"} THEN 1 ELSE 0

\* A request is written by a Do that then reads, a stream closed by one that returns.
CallsInOrder ==
    \A d \in Dos :
        /\ d \in fin => dpc[d] = "returned"
        /\ d \in sent => dpc[d] \in {"read", "returned"}

CreditInv ==
    /\ CallsInOrder
    /\ IsFiniteSet(Held)
    /\ Cardinality(Held) + credit + HandshakeStream <= MaxStreams

\* What a step that holds no further stream, and gains no credit, keeps.
LEMMA FewerHeld ==
    ASSUME TypeOK, TypeOK', CreditInv, Held' \subseteq Held, credit' = credit,
           HandshakeStream' <= HandshakeStream
    PROVE  /\ IsFiniteSet(Held')
           /\ Cardinality(Held') + credit' + HandshakeStream' <= MaxStreams
<1>1. IsFiniteSet(Held') /\ Cardinality(Held') <= Cardinality(Held)
  BY FS_Subset DEF CreditInv
<1>2. Cardinality(Held') \in Nat /\ Cardinality(Held) \in Nat
  BY <1>1, FS_CardinalityType DEF CreditInv
<1>3. HandshakeStream \in Nat /\ HandshakeStream' \in Nat /\ credit \in Nat
  BY DEF HandshakeStream, TypeOK
<1> QED BY <1>1, <1>2, <1>3, QuicAssumption DEF CreditInv

LEMMA CreditInvariant == Spec => []CreditInv
<1>1. Init => CreditInv
  <2> SUFFICES ASSUME Init PROVE CreditInv
    OBVIOUS
  <2>1. Held = {}
    BY DEF Init, Held
  <2>2. CallsInOrder /\ HandshakeStream = 0 /\ credit = MaxStreams
    BY DEF Init, CallsInOrder, HandshakeStream
  <2> QED BY <2>1, <2>2, FS_EmptySet, QuicAssumption DEF CreditInv
<1>2. TypeOK /\ TypeOK' /\ Inv /\ WaitInv /\ CreditInv /\ [Next]_vars => CreditInv'
  <2> SUFFICES ASSUME TypeOK, TypeOK', Inv, WaitInv, CreditInv, [Next]_vars PROVE CreditInv'
    OBVIOUS
  <2>q. Cardinality(Held) \in Nat /\ credit \in Nat /\ MaxStreams \in Nat
    BY FS_CardinalityType, QuicAssumption DEF CreditInv, TypeOK
  <2> USE DEF dial, stream, calls
  <2>1. CASE UNCHANGED <<credit, cpc, dpc, sent, fin, spc>>
    <3>1. CallsInOrder' /\ Held' = Held /\ HandshakeStream' = HandshakeStream
      BY <2>1 DEF CreditInv, CallsInOrder, Held, HandshakeStream
    <3> QED BY <2>1, <3>1 DEF CreditInv
  <2>2. CASE DialSend
    <3>1. CallsInOrder' /\ Held' = Held
      BY <2>2 DEF DialSend, CreditInv, CallsInOrder, Held
    <3>2. HandshakeStream = 0 /\ HandshakeStream' = 1 /\ credit' = credit - 1
      BY <2>2 DEF DialSend, HandshakeStream
    <3> QED BY <2>q, <3>1, <3>2 DEF CreditInv
  <2>3. CASE NegotiateClient \/ DialFail
    <3>1. CallsInOrder' /\ Held' = Held
      BY <2>3 DEF NegotiateClient, DialFail, CreditInv, CallsInOrder, Held
    <3>2. HandshakeStream' <= HandshakeStream /\ credit' = credit
      BY <2>3 DEF NegotiateClient, DialFail, HandshakeStream
    <3> QED BY <3>1, <3>2, FewerHeld DEF CreditInv
  <2>4. ASSUME NEW d \in Dos, DoCall(d) \/ DoSnapshot(d) \/ OpenStreamFail(d) \/ CtxDone(d) PROVE CreditInv'
    <3>1. CallsInOrder' /\ Held' \subseteq Held
      BY <2>4 DEF DoCall, DoSnapshot, OpenStreamFail, CtxDone, CreditInv, CallsInOrder, Held, TypeOK
    <3>2. HandshakeStream' <= HandshakeStream /\ credit' = credit
      BY <2>4 DEF DoCall, DoSnapshot, OpenStreamFail, CtxDone, HandshakeStream
    <3> QED BY <3>1, <3>2, FewerHeld DEF CreditInv
  <2>5. ASSUME NEW d \in Dos, OpenStream(d) PROVE CreditInv'
    <3>1. CallsInOrder' /\ Held' = Held \cup {d} /\ d \notin Held
      BY <2>5 DEF OpenStream, CreditInv, CallsInOrder, Held, TypeOK
    <3>2. HandshakeStream' = HandshakeStream /\ HandshakeStream \in Nat /\ credit' = credit - 1
      BY <2>5 DEF OpenStream, HandshakeStream
    <3>3. IsFiniteSet(Held') /\ Cardinality(Held') = Cardinality(Held) + 1
      BY <3>1, FS_AddElement DEF CreditInv
    <3> QED BY <2>q, <3>1, <3>2, <3>3 DEF CreditInv
  <2>6. ASSUME NEW d \in Dos, WriteRequest(d) \/ WriteFail(d) \/ ReadResponse(d) \/ ReadFail(d) PROVE CreditInv'
    <3>1. CASE WriteRequest(d)
      <4>1. CallsInOrder' /\ Held' \subseteq Held
        BY <3>1 DEF WriteRequest, CreditInv, CallsInOrder, Held, TypeOK
      <4>2. HandshakeStream' <= HandshakeStream /\ credit' = credit
        BY <3>1 DEF WriteRequest, HandshakeStream
      <4> QED BY <4>1, <4>2, FewerHeld DEF CreditInv
    <3>2. CASE WriteFail(d)
      <4>1. CallsInOrder' /\ Held' \subseteq Held
        BY <3>2 DEF WriteFail, Leave, CreditInv, CallsInOrder, Held, TypeOK
      <4>2. HandshakeStream' <= HandshakeStream /\ credit' = credit
        BY <3>2 DEF WriteFail, Leave, HandshakeStream
      <4> QED BY <4>1, <4>2, FewerHeld DEF CreditInv
    <3>3. CASE ReadResponse(d) \/ ReadFail(d)
      <4>1. d \in sent /\ dpc[d] = "read" /\ dpc' = [dpc EXCEPT ![d] = "returned"]
            /\ fin' = fin \cup {d} /\ UNCHANGED <<cpc, credit, sent, spc>>
        BY <3>3 DEF ReadResponse, ReadFail, Leave, WaitInv
      <4>2. CallsInOrder' /\ Held' \subseteq Held
        BY <4>1 DEF CreditInv, CallsInOrder, Held, TypeOK
      <4>3. HandshakeStream' <= HandshakeStream /\ credit' = credit
        BY <4>1 DEF HandshakeStream
      <4> QED BY <4>2, <4>3, FewerHeld DEF CreditInv
    <3> QED BY <2>6, <3>1, <3>2, <3>3
  <2>7. ASSUME NEW d \in Dos, ReadBad(d) \/ StreamHandlerReturn(d) PROVE CreditInv'
    <3>1. /\ spc[d] \in {"read", "stream"} /\ spc' = [spc EXCEPT ![d] = "done"]
          /\ UNCHANGED <<cpc, dpc, sent, fin>>
      BY <2>7 DEF ReadBad, StreamHandlerReturn, Finish
    <3>2. CallsInOrder' /\ HandshakeStream' = HandshakeStream /\ HandshakeStream \in Nat
      BY <3>1 DEF CreditInv, CallsInOrder, HandshakeStream
    <3>3. CASE credit' = credit
      <4>1. Held' \subseteq Held
        BY <3>1 DEF Held, TypeOK
      <4> QED BY <3>2, <3>3, <4>1, FewerHeld DEF CreditInv
    <3>4. CASE d \in fin /\ credit' = credit + 1
      <4>1. dpc[d] = "returned"
        BY <3>4 DEF CreditInv, CallsInOrder
      <4>2. Held' = Held \ {d} /\ d \in Held
        BY <3>1, <3>4, <4>1 DEF Held, TypeOK
      <4>3. IsFiniteSet(Held') /\ Cardinality(Held') = Cardinality(Held) - 1
        BY <4>2, FS_RemoveElement DEF CreditInv
      <4> QED BY <2>q, <3>2, <3>4, <4>3 DEF CreditInv
    <3>5. credit' = credit \/ (d \in fin /\ credit' = credit + 1)
      <4>1. d \in sent \cup fin
        BY <3>1 DEF Inv, StreamInv
      <4> QED BY <2>7, <4>1 DEF ReadBad, StreamHandlerReturn
    <3> QED BY <3>3, <3>4, <3>5
  <2>8. ASSUME NEW d \in Dos, HandleStream(d), ~ReadBad(d), ~StreamHandlerReturn(d) PROVE CreditInv'
    <3>1. UNCHANGED <<credit, cpc, dpc, sent, fin>>
      BY <2>8 DEF HandleStream, AcceptStream, ReadUnknown, ReadRequest, HandlerReturn, StreamPush,
          Panic, Finish, Proceed
    <3>2. \A e \in Dos : spc'[e] # "done" => spc[e] # "done"
      BY <2>8 DEF HandleStream, AcceptStream, ReadUnknown, ReadRequest, HandlerReturn, StreamPush,
          Panic, Finish, Proceed, TypeOK
    <3>3. CallsInOrder' /\ Held' \subseteq Held
      BY <3>1, <3>2 DEF CreditInv, CallsInOrder, Held
    <3>4. HandshakeStream' <= HandshakeStream
      BY <3>1 DEF HandshakeStream
    <3> QED BY <3>1, <3>3, <3>4, FewerHeld DEF CreditInv
  <2>9. CASE ConnLost \/ NegotiateRefuse \/ Serve \/ (\E i \in SessionIDs : NegotiateServer(i))
             \/ (\E x \in Closers : CloseSwap(x) \/ CloseConn(x)) \/ UNCHANGED vars
    BY <2>1, <2>9 DEF ConnLost, NegotiateRefuse, Serve, NegotiateServer, CloseSwap, CloseConn, vars
  <2> QED BY <2>2, <2>3, <2>4, <2>5, <2>6, <2>7, <2>8, <2>9 DEF Next, Do
<1> QED BY <1>1, <1>2, QuicTypeCorrect, QuicInvariant, WaitInvariant, PTL DEF Spec

\* The goroutines handleConnection starts for a session stay within quic-go's limit
\* together with the credit still out: no credit is given back before handleStream
\* is done with its stream, or twice.
THEOREM HandlersWithinLimit == Spec => []StreamsBounded
<1>1. TypeOK /\ Inv /\ CreditInv => StreamsBounded
  <2> DEFINE Running == {d \in Dos : spc[d] \in {"read", "handler", "stream"}}
  <2> SUFFICES ASSUME TypeOK, Inv, CreditInv, cpc = "up" PROVE Cardinality(Running) + credit < MaxStreams
    BY DEF StreamsBounded
  <2>1. Running \in SUBSET Held
    BY DEF Held, Inv, StreamInv
  <2>2. IsFiniteSet(Running) /\ Cardinality(Running) <= Cardinality(Held)
    BY <2>1, FS_Subset DEF CreditInv
  <2>3. Cardinality(Running) \in Nat /\ Cardinality(Held) \in Nat /\ HandshakeStream = 1 /\ credit \in Nat
    BY <2>2, FS_CardinalityType DEF CreditInv, HandshakeStream, TypeOK
  <2> QED BY <2>2, <2>3, QuicAssumption DEF CreditInv
<1> QED BY <1>1, QuicTypeCorrect, QuicInvariant, CreditInvariant, PTL

(***************************************************************************)
(* Whose answer a Do returns.                                              *)
(***************************************************************************)
\* What the server has written first on a stream stays what the client reads first.
FirstFrameStays == [][\A d \in Dos : answer[d] # "none" => answer'[d] = answer[d]]_vars

LEMMA FirstFrameIsFinal == Spec => FirstFrameStays
<1>1. TypeOK /\ AnswerInv /\ [Next]_vars => [\A d \in Dos : answer[d] # "none" => answer'[d] = answer[d]]_vars
  <2> SUFFICES ASSUME TypeOK, AnswerInv, [Next]_vars, NEW d \in Dos, answer[d] # "none"
               PROVE  answer'[d] = answer[d]
    OBVIOUS
  <2>1. ASSUME NEW e \in Dos, HandleStream(e) PROVE answer'[d] = answer[d]
    BY <2>1 DEF HandleStream, AcceptStream, ReadBad, ReadUnknown, ReadRequest, HandlerReturn,
        StreamPush, StreamHandlerReturn, Panic, Finish, Proceed, AnswerInv, TypeOK
  <2> QED BY <2>1, OthersLeaveStreams
<1> QED BY <1>1, QuicTypeCorrect, AnswerInvariant, PTL DEF Spec, FirstFrameStays

\* A Do that returned a response returned the first frame of the stream it wrote its
\* own request on, in whatever order the streams of the session are answered.
ResultIsOwnAnswer == \A d \in Dos : res[d] # "none" => d \in sent /\ res[d] = answer[d]

\* Concurrent Do calls over QUIC never get each other's responses.
THEOREM QuicResponsesAreOwn == Spec => []ResultIsOwnAnswer
<1>1. Init => ResultIsOwnAnswer
  BY DEF Init, ResultIsOwnAnswer
<1>2. TypeOK /\ WaitInv /\ ResultIsOwnAnswer /\ [Next]_vars
        /\ [\A d \in Dos : answer[d] # "none" => answer'[d] = answer[d]]_vars => ResultIsOwnAnswer'
  <2> SUFFICES ASSUME TypeOK, WaitInv, ResultIsOwnAnswer, [Next]_vars,
                      [\A d \in Dos : answer[d] # "none" => answer'[d] = answer[d]]_vars
               PROVE  ResultIsOwnAnswer'
    OBVIOUS
  <2>a. \A d \in Dos : answer[d] # "none" => answer'[d] = answer[d]
    BY DEF vars, stream
  <2> USE DEF dial, stream, calls
  <2>1. CASE UNCHANGED <<res, sent>>
    BY <2>1, <2>a DEF ResultIsOwnAnswer
  <2>2. ASSUME NEW d \in Dos, ReadResponse(d) PROVE ResultIsOwnAnswer'
    <3>1. /\ d \in sent /\ answer[d] # "none" /\ res' = [res EXCEPT ![d] = answer[d]]
          /\ UNCHANGED <<sent, answer>>
      BY <2>2 DEF ReadResponse, Readable, Leave, WaitInv
    <3> QED BY <3>1 DEF ResultIsOwnAnswer, TypeOK
  <2>3. ASSUME NEW d \in Dos, WriteFail(d) \/ ReadFail(d) PROVE ResultIsOwnAnswer'
    BY <2>3 DEF WriteFail, ReadFail, Leave, ResultIsOwnAnswer, TypeOK
  <2>4. ASSUME NEW d \in Dos, WriteRequest(d) PROVE ResultIsOwnAnswer'
    BY <2>4 DEF WriteRequest, ResultIsOwnAnswer
  <2>5. ASSUME NEW d \in Dos, DoCall(d) \/ CtxDone(d) \/ DoSnapshot(d) \/ OpenStream(d) \/ OpenStreamFail(d)
        PROVE  UNCHANGED <<res, sent>>
    BY <2>5 DEF DoCall, CtxDone, DoSnapshot, OpenStream, OpenStreamFail
  <2>6. ASSUME NEW d \in Dos, HandleStream(d) PROVE UNCHANGED <<res, sent>>
    BY <2>6 DEF HandleStream, AcceptStream, ReadBad, ReadUnknown, ReadRequest, HandlerReturn,
        StreamPush, StreamHandlerReturn, Panic, Finish, Proceed
  <2>7. ASSUME ConnLost \/ DialSend \/ NegotiateRefuse \/ Serve \/ NegotiateClient \/ DialFail
               \/ (\E i \in SessionIDs : NegotiateServer(i))
               \/ (\E x \in Closers : CloseSwap(x) \/ CloseConn(x)) \/ UNCHANGED vars
        PROVE  UNCHANGED <<res, sent>>
    BY <2>7 DEF ConnLost, DialSend, NegotiateRefuse, Serve, NegotiateClient, DialFail, NegotiateServer,
        CloseSwap, CloseConn, vars
  <2> QED BY <2>1, <2>2, <2>3, <2>4, <2>5, <2>6, <2>7 DEF Next, Do
<1> QED BY <1>1, <1>2, QuicTypeCorrect, WaitInvariant, FirstFrameIsFinal, PTL DEF Spec, FirstFrameStays
=============================================================================
