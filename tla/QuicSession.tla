---------------------------- MODULE QuicSession ----------------------------
(***************************************************************************)
(* One session over QUIC, both ends: client.Dial (dialQUIC), any number of *)
(* goroutines in Client.Do (doQUIC) and Client.Close on one Client, each   *)
(* Do on a stream of its own, and the server's handleConnection and        *)
(* handleStream as far as the client can see them.  SessionServer has the  *)
(* server with many connections; here the frames carry keys.               *)
(*                                                                         *)
(* The connection is quic-go's (external).  Both ends use its default      *)
(* configuration, so the client may have MaxStreams streams open; it gets  *)
(* one back when the server has closed its side and has read the end of    *)
(* the client's.  A connection that closes takes what was not read yet     *)
(* with it.                                                                *)
(***************************************************************************)
EXTENDS Handshake

CONSTANTS
    Dos,          \* calls of Client.Do
    Closers,      \* calls of Client.Close
    SessionIDs,   \* numbers the server may draw
    MaxStreams    \* quic-go's MaxIncomingStreams

ASSUME QuicAssumption ==
    /\ MaxStreams \in Nat
    /\ SessionIDs \subseteq Nat \ {0}

VARIABLES
    key,        \* Client.apiKey
    connUp,     \* the QUIC connection is open
    credit,     \* streams the client may still open
    cpc,        \* where Dial is: dial, sent, up, failed
    dialed,     \* Client.dialed, and Client.conn is not nil
    csess,      \* Client.sess
    srv,        \* where handleConnection is: wait, answered, serving, gone
    ssess,      \* the server's Session
    dpc,        \* where each Do is: none, called, open, write, read, returned
    res,        \* what it returned: a status, or none for an error
    clpc,       \* where each Close is: none, closing, returned
    sent,       \* the streams with a request on them
    fin,        \* those the client has closed
    spc,        \* where handleStream is: none, read, handler, stream, done
    answer,     \* the status of the frame the server wrote on the stream, or none
    closed      \* the streams the server has closed

dial == <<key, cpc, csess, srv, ssess>>
stream == <<sent, fin, spc, answer, closed>>
calls == <<dpc, res, clpc>>
vars == <<dial, connUp, credit, dialed, calls, stream>>

NoSession == NewSession(0, NoID, <<>>)

Statuses == {"SessionExpired", "BadRequest", "NotFound", "InternalError", "Response", "undecodable"}

Init ==
    /\ key \in ClientKeys
    /\ connUp = TRUE /\ credit = MaxStreams
    /\ cpc = "dial" /\ dialed = FALSE /\ csess = NoSession
    /\ srv = "wait" /\ ssess = NoSession
    /\ dpc = [d \in Dos |-> "none"] /\ res = [d \in Dos |-> "none"]
    /\ clpc = [x \in Closers |-> "none"]
    /\ sent = {} /\ fin = {} /\ closed = {}
    /\ spc = [d \in Dos |-> "none"] /\ answer = [d \in Dos |-> "none"]

\* The other end or the network gives up, or the server shuts down.
ConnLost ==
    /\ connUp /\ connUp' = FALSE
    /\ UNCHANGED <<dial, credit, dialed, calls, stream>>

(***************************************************************************)
(* dialQUIC and the server's side of it.                                   *)
(***************************************************************************)
\* The first stream takes its share of the credit, and keeps it: the server
\* reads the handshake from it and not the end that follows.
DialSend ==
    /\ cpc = "dial" /\ connUp /\ credit > 0
    /\ credit' = credit - 1
    /\ cpc' = "sent"
    /\ UNCHANGED <<key, csess, srv, ssess, connUp, dialed, calls, stream>>

\* The server draws a number and answers with it, then creates the session.
NegotiateServer(i) ==
    /\ srv = "wait" /\ cpc = "sent" /\ connUp
    /\ Known(ClientInit(key))
    /\ ssess' = ServerSession(ClientInit(key), i)
    /\ srv' = "answered"
    /\ UNCHANGED <<key, cpc, csess, connUp, credit, dialed, calls, stream>>

\* An ID too long or unknown, a public key the curve rejects, an error of the
\* stream: handleConnection returns and closes the connection.
NegotiateRefuse ==
    /\ srv = "wait"
    /\ ~connUp \/ (cpc = "sent" /\ (~Known(ClientInit(key)) \/ ClientInit(key).pub = Garbage))
    /\ srv' = "gone" /\ connUp' = FALSE
    /\ UNCHANGED <<key, cpc, csess, ssess, credit, dialed, calls, stream>>

Serve ==
    /\ srv = "answered"
    /\ srv' = "serving"
    /\ UNCHANGED <<key, cpc, csess, ssess, connUp, credit, dialed, calls, stream>>

NegotiateClient ==
    /\ cpc = "sent" /\ connUp /\ ssess # NoSession
    /\ csess' = ClientSession(key, ssess.id)
    /\ cpc' = "up" /\ dialed' = TRUE
    /\ UNCHANGED <<key, srv, ssess, connUp, credit, calls, stream>>

\* NegotiateClient does not look at its context: only the connection's end, or
\* the context while it waits for credit, makes Dial fail.
DialFail ==
    /\ cpc \in {"dial", "sent"} /\ ~connUp
    /\ cpc' = "failed"
    /\ UNCHANGED <<key, csess, srv, ssess, connUp, credit, dialed, calls, stream>>

(***************************************************************************)
(* doQUIC.                                                                 *)
(***************************************************************************)
DoCall(d) ==
    /\ cpc = "up" /\ dpc[d] = "none"
    /\ dpc' = [dpc EXCEPT ![d] = "called"]
    /\ UNCHANGED <<dial, connUp, credit, dialed, res, clpc, stream>>

\* The connection and the session are copied under the mutex; Close may run as
\* soon as it is released.
DoSnapshot(d) ==
    /\ dpc[d] = "called"
    /\ dpc' = [dpc EXCEPT ![d] = IF dialed THEN "open" ELSE "returned"]
    /\ UNCHANGED <<dial, connUp, credit, dialed, res, clpc, stream>>

MutOpenStream(d) ==
    /\ dpc[d] = "open" /\ connUp
    /\ credit' = credit - 1
    /\ dpc' = [dpc EXCEPT ![d] = "write"]
    /\ UNCHANGED <<dial, connUp, dialed, res, clpc, stream>>

\* OpenStreamSync waits for credit as long as the context allows.
OpenStream(d) ==
    /\ dpc[d] = "open" /\ connUp /\ credit > 0
    /\ credit' = credit - 1
    /\ dpc' = [dpc EXCEPT ![d] = "write"]
    /\ UNCHANGED <<dial, connUp, dialed, res, clpc, stream>>

OpenStreamFail(d) ==
    /\ dpc[d] = "open" /\ ~connUp
    /\ dpc' = [dpc EXCEPT ![d] = "returned"]
    /\ UNCHANGED <<dial, connUp, credit, dialed, res, clpc, stream>>

\* The context of the call ends while it waits for credit.
CtxDone(d) ==
    /\ dpc[d] = "open"
    /\ dpc' = [dpc EXCEPT ![d] = "returned"]
    /\ UNCHANGED <<dial, connUp, credit, dialed, res, clpc, stream>>

WriteRequest(d) ==
    /\ dpc[d] = "write" /\ connUp
    /\ sent' = sent \cup {d}
    /\ dpc' = [dpc EXCEPT ![d] = "read"]
    /\ UNCHANGED <<dial, connUp, credit, dialed, res, clpc, fin, spc, answer, closed>>

\* Every way out of Do runs the deferred Close of the stream.
Leave(d, status) ==
    /\ dpc' = [dpc EXCEPT ![d] = "returned"]
    /\ res' = [res EXCEPT ![d] = status]
    /\ fin' = fin \cup {d}
    /\ UNCHANGED <<dial, connUp, credit, dialed, clpc, sent, spc, answer, closed>>

\* The request is larger than a frame, or the connection is closed.
WriteFail(d) == dpc[d] = "write" /\ Leave(d, "none")

Readable(d) ==
    /\ answer[d] \notin {"none", "undecodable"}
    /\ Decrypts(csess.key, ssess.key)

\* The first frame on the stream is the response.
ReadResponse(d) == dpc[d] = "read" /\ connUp /\ Readable(d) /\ Leave(d, answer[d])

\* The end of the stream with no frame before it, or one the client cannot
\* decrypt or decode, or the connection's end.
ReadFail(d) ==
    /\ dpc[d] = "read"
    /\ ~connUp \/ (answer[d] # "none" /\ ~Readable(d)) \/ (answer[d] = "none" /\ d \in closed)
    /\ Leave(d, "none")

(***************************************************************************)
(* Close.                                                                  *)
(***************************************************************************)
CloseSwap(x) ==
    /\ cpc = "up" /\ clpc[x] = "none"
    /\ clpc' = [clpc EXCEPT ![x] = IF dialed THEN "closing" ELSE "returned"]
    /\ dialed' = FALSE
    /\ UNCHANGED <<dial, connUp, credit, dpc, res, stream>>

CloseConn(x) ==
    /\ clpc[x] = "closing"
    /\ clpc' = [clpc EXCEPT ![x] = "returned"]
    /\ connUp' = FALSE
    /\ UNCHANGED <<dial, credit, dialed, dpc, res, stream>>

(***************************************************************************)
(* handleStream.  A stream reaches the server with its first bytes or its  *)
(* end, never before.                                                      *)
(***************************************************************************)
\* The server writes at most one frame and, unless it recovers from a panic,
\* closes the stream.
Finish(d, status, close) ==
    /\ spc' = [spc EXCEPT ![d] = "done"]
    /\ answer' = [answer EXCEPT ![d] = status]
    /\ closed' = IF close THEN closed \cup {d} ELSE closed
    /\ UNCHANGED <<dial, connUp, dialed, calls, sent, fin>>

Proceed(d, to) ==
    /\ spc' = [spc EXCEPT ![d] = to]
    /\ UNCHANGED <<dial, connUp, credit, dialed, calls, sent, fin, answer, closed>>

AcceptStream(d) ==
    /\ srv = "serving" /\ connUp /\ spc[d] = "none" /\ d \in sent \cup fin
    /\ \/ Proceed(d, "read")
       \/ Finish(d, "SessionExpired", TRUE) /\ UNCHANGED credit

\* The server's key opens the request, and the request decodes.
Authentic(d) == d \in sent /\ Decrypts(ssess.key, csess.key)

\* ReadRequest meets the end of the client's side only when the client closed the
\* stream without a request: that stream's credit comes back.
ReadBad(d) ==
    /\ spc[d] = "read"
    /\ Finish(d, "BadRequest", TRUE)
    /\ credit' = IF d \notin sent /\ connUp THEN credit + 1 ELSE credit

ReadUnknown(d) ==
    /\ spc[d] = "read" /\ Authentic(d)
    /\ Finish(d, "NotFound", TRUE) /\ UNCHANGED credit

ReadRequest(d) ==
    /\ spc[d] = "read" /\ Authentic(d)
    /\ \E h \in {"handler", "stream"} : Proceed(d, h)

\* The handler's response, one the client cannot decode, or none if it is too
\* large for a frame.
HandlerReturn(d) ==
    /\ spc[d] = "handler"
    /\ \E r \in {"Response", "InternalError", "undecodable", "none"} : Finish(d, r, TRUE)
    /\ UNCHANGED credit

\* A stream handler writes what it likes, or nothing; the server writes nothing.  It
\* may read the stream to its end, and then that stream's credit comes back.
StreamPush(d) ==
    /\ spc[d] = "stream" /\ answer[d] = "none"
    /\ answer' = [answer EXCEPT ![d] = "Response"]
    /\ UNCHANGED <<dial, connUp, credit, dialed, calls, sent, fin, spc, closed>>

MutStreamHandlerReturn(d) ==
    /\ spc[d] = "stream" /\ Finish(d, answer[d], FALSE) /\ UNCHANGED credit

StreamHandlerReturn(d) ==
    /\ spc[d] = "stream" /\ Finish(d, answer[d], TRUE)
    /\ credit' = credit \/ (d \in fin /\ connUp /\ credit' = credit + 1)

\* The recover writes a frame after those of a stream handler.  ReadRequest itself
\* panics on a length that wraps, as another implementation of the client that
\* holds the key may write it.
Panic(d) ==
    /\ spc[d] \in {"handler", "stream"} \/ (spc[d] = "read" /\ Authentic(d))
    /\ Finish(d, IF answer[d] = "none" THEN "InternalError" ELSE answer[d], FALSE)
    /\ UNCHANGED credit

HandleStream(d) ==
    \/ AcceptStream(d) \/ ReadBad(d) \/ ReadUnknown(d) \/ ReadRequest(d)
    \/ HandlerReturn(d) \/ StreamPush(d) \/ StreamHandlerReturn(d) \/ Panic(d)

Do(d) ==
    \/ DoSnapshot(d) \/ OpenStream(d) \/ OpenStreamFail(d)
    \/ WriteRequest(d) \/ WriteFail(d) \/ ReadResponse(d) \/ ReadFail(d)

Next ==
    \/ ConnLost
    \/ DialSend \/ NegotiateRefuse \/ Serve \/ NegotiateClient \/ DialFail
    \/ \E i \in SessionIDs : NegotiateServer(i)
    \/ \E d \in Dos : DoCall(d) \/ CtxDone(d) \/ Do(d) \/ HandleStream(d)
    \/ \E x \in Closers : CloseSwap(x) \/ CloseConn(x)

\* Goroutines of both ends that can run do run, and handlers return.  No context
\* need ever end.
Fairness ==
    /\ WF_vars(Serve)
    /\ \A d \in Dos : WF_vars(Do(d)) /\ WF_vars(HandleStream(d))

Spec == Init /\ [][Next]_vars
FairSpec == Spec /\ Fairness

(***************************************************************************)
(* Properties.                                                             *)
(***************************************************************************)
\* Every variable keeps the shape of the state it stands for, and no stream is
\* opened without credit.
TypeOK ==
    /\ key \in ClientKeys /\ connUp \in BOOLEAN /\ dialed \in BOOLEAN /\ credit \in Nat
    /\ cpc \in {"dial", "sent", "up", "failed"}
    /\ srv \in {"wait", "answered", "serving", "gone"}
    /\ csess = NoSession \/ \E i \in SessionIDs : csess = ClientSession(key, i)
    /\ \/ ssess = NoSession
       \/ Known(ClientInit(key)) /\ \E i \in SessionIDs : ssess = ServerSession(ClientInit(key), i)
    /\ dpc \in [Dos -> {"none", "called", "open", "write", "read", "returned"}]
    /\ res \in [Dos -> Statuses \cup {"none"}]
    /\ clpc \in [Closers -> {"none", "closing", "returned"}]
    /\ sent \subseteq Dos /\ fin \subseteq Dos /\ closed \subseteq Dos
    /\ spc \in [Dos -> {"none", "read", "handler", "stream", "done"}]
    /\ answer \in [Dos -> Statuses \cup {"none"}]

\* When both ends have a session they mean the same one, and they can read each
\* other's frames exactly if the client holds the secret the server knows under
\* the client's ID; the two then agree on that ID.  An ID too long for its length
\* field never gets that far, whatever key its first bytes name.
KeyAgreement ==
    csess # NoSession /\ ssess # NoSession =>
        /\ csess.id = ssess.id
        /\ Decrypts(csess.key, ssess.key) <=> Fits(key) /\ RightSecret(key)
        /\ Decrypts(csess.key, ssess.key) => csess.apiKeyID = ssess.apiKeyID

\* A request reaches a handler, and a response the caller, only in a session whose
\* client holds the secret of the key ID the handler is told (Request.APIKeyID),
\* although the handshake itself proves nothing: a client with a wrong secret
\* completes it too.
HandlerAuthentic ==
    \A d \in Dos : spc[d] \in {"handler", "stream"} \/ res[d] # "none" =>
        key.id = ssess.apiKeyID /\ RightSecret(key)

\* A Do call returns, with Close, lost connections, undecodable frames, panics and
\* silent stream handlers around it; the one place where it may wait for ever is
\* OpenStreamSync with no credit left and a context that does not end.
DoReturns ==
    \A d \in Dos : dpc[d] = "called" ~>
        dpc[d] = "returned" \/ (dpc[d] = "open" /\ credit = 0)
=============================================================================
