----------------------------- MODULE TcpSession -----------------------------
(***************************************************************************)
(* One session over TLS-over-TCP, both ends: client.DialTCP, any number of *)
(* goroutines in Client.Do (doTCP) and Client.Close on one Client, and the *)
(* server's handleTCPConnection, which serves the requests of the          *)
(* connection one after the other.                                         *)
(*                                                                         *)
(* A step is one critical section of the client's mutex, one frame written *)
(* or read, or one decision of the server loop.  doTCP takes the mutex     *)
(* twice: to copy the connection pointer, and again, for as long as the    *)
(* call takes, around writing the request and waiting for the response.    *)
(* The sequence number of a request is the identity of its Do call, which  *)
(* the atomic counter makes unique; the server echoes it and nobody        *)
(* compares it.                                                            *)
(*                                                                         *)
(* A connection nobody refers to any more is closed by the runtime's       *)
(* finalizer on the socket (external), some time after the last reference. *)
(***************************************************************************)
EXTENDS Integers, Sequences

CONSTANTS
    Dos,        \* calls of Client.Do
    Closers,    \* calls of Client.Close
    Kinds,      \* what may happen to a request, see AllKinds
    MaxPush,    \* bound: frames a stream handler writes
    NoOne       \* not a Do call

AllKinds == {
    "ok",           \* the handler returns a response
    "unknown",      \* no handler for the opcode
    "err",          \* the handler returns an error
    "toolarge",     \* the request exceeds MaxFrameSize: frame.Write refuses it
    "undecodable",  \* nested deeper than MaxDecodeDepth: the server cannot decode it
    "bigresp",      \* the handler's response exceeds MaxFrameSize
    "badresp",      \* the handler's response is nested too deep for the client
    "stream",       \* the opcode has a StreamHandler
    "panic",        \* the handler panics, or returns no response or an unencodable one
    "wrapped"}      \* a length whose end wraps, as another client implementation may
                    \* write it: DecodeBytes panics on it within ReadRequest

ASSUME TcpAssumption == Kinds \subseteq AllKinds /\ MaxPush \in Nat /\ NoOne \notin Dos

NoFrame == [seq |-> NoOne, status |-> "none"]

VARIABLES
    dialed,     \* Client.dialed
    tcpConn,    \* Client.tcpConn is not nil
    mu,         \* the Do call that holds Client.mu across its round trip
    dpc,        \* where each Do call is
    kind,       \* the request of each Do call
    res,        \* what each Do call returned: a frame, or NoFrame for an error
    clpc,       \* where each Close call is
    cliClosed,  \* the client's end of the socket is closed
    c2s,        \* requests on their way to the server
    s2c,        \* responses on their way to the client
    srvClosed,  \* the server's end of the socket is closed
    srv,        \* where handleTCPConnection is
    cur,        \* the request it serves
    pushed,     \* frames the stream handler has written for cur
    stored,     \* the session is in the store
    dead,       \* IsExpired or IsIdleDead holds of the session
    ctxDone,    \* the server's context is cancelled
    crashed     \* a panic ended the server process

client == <<dialed, tcpConn, mu, dpc, kind, res, clpc, cliClosed>>
timeouts == <<dead, ctxDone>>
server == <<srvClosed, srv, cur, pushed, stored, crashed>>
vars == <<client, c2s, s2c, server, timeouts>>

Statuses == {"SessionExpired", "NotFound", "InternalError", "Response", "undecodable"}
Frames == [seq : Dos \cup {NoOne}, status : Statuses]
Hello == [seq |-> NoOne, status |-> "Response"]

Init ==
    /\ dialed = FALSE /\ tcpConn = FALSE /\ mu = NoOne /\ cliClosed = FALSE
    /\ dpc = [d \in Dos |-> "none"]
    /\ kind \in [Dos -> Kinds]
    /\ res = [d \in Dos |-> NoFrame]
    /\ clpc = [x \in Closers |-> "none"]
    /\ c2s = <<>> /\ s2c = <<>>
    /\ srvClosed = FALSE /\ srv = "listen" /\ cur = NoOne /\ pushed = 0
    /\ stored = FALSE /\ crashed = FALSE
    /\ dead = FALSE /\ ctxDone = FALSE

(***************************************************************************)
(* Client.dialTCP: negotiate on the connection, then publish it.           *)
(***************************************************************************)
\* The application has a client to call once Dial returned it.
HasClient == dialed \/ \E x \in Closers : clpc[x] # "none"

DialOK ==
    /\ ~HasClient /\ ~cliClosed /\ s2c # <<>>
    /\ s2c' = Tail(s2c)
    /\ dialed' = TRUE /\ tcpConn' = TRUE
    /\ UNCHANGED <<mu, dpc, kind, res, clpc, cliClosed, c2s, server, timeouts>>

DialFail ==
    /\ ~HasClient /\ ~cliClosed /\ srvClosed
    /\ cliClosed' = TRUE
    /\ UNCHANGED <<dialed, tcpConn, mu, dpc, kind, res, clpc, c2s, s2c, server, timeouts>>

(***************************************************************************)
(* Client.doTCP.                                                           *)
(***************************************************************************)
DoCall(d) ==
    /\ HasClient /\ dpc[d] = "none"
    /\ dpc' = [dpc EXCEPT ![d] = "called"]
    /\ UNCHANGED <<dialed, tcpConn, mu, kind, res, clpc, cliClosed, c2s, s2c, server, timeouts>>

\* The first critical section copies the pointer; without one Do fails at once.
DoSnapshot(d) ==
    /\ dpc[d] = "called" /\ mu = NoOne
    /\ dpc' = [dpc EXCEPT ![d] = IF dialed /\ tcpConn THEN "ready" ELSE "returned"]
    /\ UNCHANGED <<dialed, tcpConn, mu, kind, res, clpc, cliClosed, c2s, s2c, server, timeouts>>

MutFail(d) ==
    /\ tcpConn' = FALSE
    /\ dpc' = [dpc EXCEPT ![d] = "returned"]
    /\ mu' = d
    /\ UNCHANGED <<dialed, kind, res, clpc, cliClosed, server, timeouts>>

\* A failed round trip forgets the connection without closing it.
Fail(d) ==
    /\ tcpConn' = FALSE
    /\ dpc' = [dpc EXCEPT ![d] = "returned"]
    /\ mu' = NoOne
    /\ UNCHANGED <<dialed, kind, res, clpc, cliClosed, server, timeouts>>

\* The second critical section begins.  The pointer is not looked at again: the
\* connection may have failed or been closed since.
DoWriteFail(d) ==
    /\ dpc[d] = "ready" /\ mu = NoOne
    /\ kind[d] = "toolarge" \/ cliClosed \/ srvClosed
    /\ Fail(d)
    /\ UNCHANGED <<c2s, s2c>>

\* What is written to a peer that has closed is lost without an error at first.
WriteRequest(d) == c2s' = IF srvClosed THEN c2s ELSE Append(c2s, d)

MutDoWrite(d) ==
    /\ dpc[d] = "ready" /\ mu = NoOne
    /\ kind[d] # "toolarge" /\ ~cliClosed
    /\ dpc' = [dpc EXCEPT ![d] = "reading"]
    /\ WriteRequest(d)
    /\ UNCHANGED <<dialed, tcpConn, mu, kind, res, clpc, cliClosed, s2c, server, timeouts>>

DoWrite(d) ==
    /\ dpc[d] = "ready" /\ mu = NoOne
    /\ kind[d] # "toolarge" /\ ~cliClosed
    /\ mu' = d
    /\ dpc' = [dpc EXCEPT ![d] = "reading"]
    /\ WriteRequest(d)
    /\ UNCHANGED <<dialed, tcpConn, kind, res, clpc, cliClosed, s2c, server, timeouts>>

\* The next frame is the response, whatever its sequence number.
DoRead(d) ==
    /\ dpc[d] = "reading" /\ ~cliClosed /\ s2c # <<>>
    /\ Head(s2c).status # "undecodable"
    /\ res' = [res EXCEPT ![d] = Head(s2c)]
    /\ dpc' = [dpc EXCEPT ![d] = "returned"]
    /\ mu' = NoOne
    /\ s2c' = Tail(s2c)
    /\ UNCHANGED <<dialed, tcpConn, kind, clpc, cliClosed, c2s, server, timeouts>>

DoReadUndecodable(d) ==
    /\ dpc[d] = "reading" /\ ~cliClosed /\ s2c # <<>>
    /\ Head(s2c).status = "undecodable"
    /\ s2c' = Tail(s2c)
    /\ Fail(d)
    /\ UNCHANGED c2s

\* Either end is closed.  A reset discards the frames not read yet.
DoReadFail(d) ==
    /\ dpc[d] = "reading" /\ (cliClosed \/ srvClosed)
    /\ s2c' = <<>>
    /\ Fail(d)
    /\ UNCHANGED c2s

(***************************************************************************)
(* Client.Close: forget the connection under the mutex, close it after.    *)
(***************************************************************************)
CloseCall(x) ==
    /\ HasClient /\ clpc[x] = "none"
    /\ clpc' = [clpc EXCEPT ![x] = "called"]
    /\ UNCHANGED <<dialed, tcpConn, mu, dpc, kind, res, cliClosed, c2s, s2c, server, timeouts>>

CloseSwap(x) ==
    /\ clpc[x] = "called" /\ mu = NoOne
    /\ clpc' = [clpc EXCEPT ![x] = IF tcpConn THEN "closing" ELSE "returned"]
    /\ tcpConn' = FALSE /\ dialed' = FALSE
    /\ UNCHANGED <<mu, dpc, kind, res, cliClosed, c2s, s2c, server, timeouts>>

CloseConn(x) ==
    /\ clpc[x] = "closing"
    /\ clpc' = [clpc EXCEPT ![x] = "returned"]
    /\ cliClosed' = TRUE
    /\ UNCHANGED <<dialed, tcpConn, mu, dpc, kind, res, c2s, s2c, server, timeouts>>

\* External: the finalizer closes a socket no goroutine of the client can reach.
ClientFinalizer ==
    /\ HasClient /\ ~tcpConn /\ ~cliClosed
    /\ \A d \in Dos : dpc[d] \notin {"ready", "reading"}
    /\ \A x \in Closers : clpc[x] # "closing"
    /\ cliClosed' = TRUE
    /\ UNCHANGED <<dialed, tcpConn, mu, dpc, kind, res, clpc, c2s, s2c, server, timeouts>>

(***************************************************************************)
(* The clock and the application's context, as long as the server loop     *)
(* looks at them.                                                          *)
(***************************************************************************)
Running == srv \notin {"listen", "negotiate", "done"}

\* The lifetime or, with no Touch since, the idle timeout passes.  It is not
\* undone: the loop calls Touch only after it has found the session alive.
Expire ==
    /\ Running /\ ~dead /\ dead' = TRUE
    /\ UNCHANGED <<ctxDone, client, c2s, s2c, server>>

Cancel ==
    /\ srv # "done" /\ ~ctxDone /\ ctxDone' = TRUE
    /\ UNCHANGED <<dead, client, c2s, s2c, server>>

\* gcLoop evicts a session past its lifetime (dead may mean no more than idle, and
\* then this step is not taken), also while its connection serves.
GC ==
    /\ stored /\ dead
    /\ stored' = FALSE
    /\ UNCHANGED <<client, c2s, s2c, srvClosed, srv, cur, pushed, crashed, timeouts>>

(***************************************************************************)
(* Server.handleTCPConnection.                                             *)
(***************************************************************************)
Send(f) == s2c' = IF cliClosed THEN s2c ELSE Append(s2c, f)

\* Returning runs the deferred Delete; only some paths close the connection.
MutReturn(close) ==
    /\ srv' = "done" /\ cur' = NoOne /\ srvClosed' = close
    /\ UNCHANGED <<pushed, stored, crashed>>

Return(close) ==
    /\ srv' = "done" /\ cur' = NoOne /\ srvClosed' = close
    /\ stored' = FALSE
    /\ UNCHANGED <<pushed, crashed>>

Continue ==
    /\ srv' = "top" /\ cur' = NoOne /\ pushed' = 0
    /\ UNCHANGED <<srvClosed, stored, crashed>>

\* ListenAndServeTCP starts handleTCPConnection.  Its Accept does not watch the
\* context: a connection is taken after the cancellation too.
AcceptConn ==
    /\ srv = "listen"
    /\ srv' = "negotiate"
    /\ UNCHANGED <<client, c2s, s2c, srvClosed, cur, pushed, stored, crashed, timeouts>>

\* NegotiateServer answers before the session is created and stored.
NegotiateOK ==
    /\ srv = "negotiate"
    /\ Send(Hello)
    /\ srv' = "negotiated"
    /\ UNCHANGED <<client, c2s, srvClosed, cur, pushed, stored, crashed, timeouts>>

NegotiateFail ==
    /\ srv = "negotiate"
    /\ Return(TRUE)
    /\ UNCHANGED <<client, c2s, s2c, timeouts>>

SetSession ==
    /\ srv = "negotiated"
    /\ srv' = "top" /\ stored' = TRUE
    /\ UNCHANGED <<client, c2s, s2c, srvClosed, cur, pushed, crashed, timeouts>>

\* The loop looks at the context and the timeouts only here, then blocks in
\* ReadRequest without a deadline.
LoopTop ==
    /\ srv = "top"
    /\ \/ ctxDone /\ Return(FALSE) /\ UNCHANGED s2c
       \/ /\ ~ctxDone /\ dead
          /\ Send([seq |-> NoOne, status |-> "SessionExpired"])
          /\ Return(TRUE)
       \/ /\ ~ctxDone /\ ~dead
          /\ srv' = "read"
          /\ UNCHANGED <<s2c, srvClosed, cur, pushed, stored, crashed>>
    /\ UNCHANGED <<client, c2s, timeouts>>

ReadRequest ==
    /\ srv = "read" /\ c2s # <<>> /\ kind[Head(c2s)] \notin {"undecodable", "wrapped"}
    /\ cur' = Head(c2s) /\ c2s' = Tail(c2s)
    /\ srv' = IF kind[cur'] = "stream" THEN "stream" ELSE "handle"
    /\ UNCHANGED <<client, s2c, srvClosed, pushed, stored, crashed, timeouts>>

\* Not only a disconnected client ends the loop here, and the connection stays open.
ReadRequestFail ==
    /\ srv = "read"
    /\ \/ c2s # <<>> /\ kind[Head(c2s)] = "undecodable" /\ c2s' = Tail(c2s)
       \/ cliClosed /\ c2s' = c2s
    /\ Return(FALSE)
    /\ UNCHANGED <<client, s2c, timeouts>>

MutRefuse ==
    /\ srv = "handle" /\ kind[cur] \in {"unknown", "err"}
    /\ Send(NoFrame)
    /\ Continue
    /\ UNCHANGED <<client, c2s, timeouts>>

\* The responses the loop writes itself; a failure to write them is ignored.
Refuse ==
    /\ srv = "handle" /\ kind[cur] \in {"unknown", "err"}
    /\ Send([seq |-> cur, status |-> IF kind[cur] = "unknown" THEN "NotFound" ELSE "InternalError"])
    /\ Continue
    /\ UNCHANGED <<client, c2s, timeouts>>

Respond ==
    /\ srv = "handle" /\ kind[cur] \in {"ok", "badresp"}
    /\ Send([seq |-> cur, status |-> IF kind[cur] = "ok" THEN "Response" ELSE "undecodable"])
    /\ Continue
    /\ UNCHANGED <<client, c2s, timeouts>>

RespondFail ==
    /\ srv = "handle"
    /\ kind[cur] = "bigresp" \/ (kind[cur] \in {"ok", "badresp"} /\ cliClosed)
    /\ Return(FALSE)
    /\ UNCHANGED <<client, c2s, s2c, timeouts>>

\* No recover on this path: the goroutine's panic ends the process.
Crash ==
    /\ crashed' = TRUE /\ srv' = "done" /\ cur' = NoOne
    /\ srvClosed' = TRUE /\ stored' = FALSE
    /\ UNCHANGED <<client, s2c, pushed, timeouts>>

ReadPanic ==
    /\ srv = "read" /\ c2s # <<>> /\ kind[Head(c2s)] = "wrapped"
    /\ c2s' = Tail(c2s)
    /\ Crash

\* In a handler or on its response, or at any point of a stream handler.
Panic ==
    /\ (srv = "handle" /\ kind[cur] = "panic") \/ srv = "stream"
    /\ Crash
    /\ UNCHANGED c2s

\* A stream handler writes what it likes before it returns, or nothing at all.
StreamPush ==
    /\ srv = "stream" /\ pushed < MaxPush
    /\ Send([seq |-> cur, status |-> "Response"])
    /\ pushed' = pushed + 1
    /\ UNCHANGED <<client, c2s, srvClosed, srv, cur, stored, crashed, timeouts>>

StreamReturn ==
    /\ srv = "stream"
    /\ Continue
    /\ UNCHANGED <<client, c2s, s2c, timeouts>>

\* External: as ClientFinalizer, once handleTCPConnection has returned.
ServerFinalizer ==
    /\ srv = "done" /\ ~srvClosed
    /\ srvClosed' = TRUE
    /\ UNCHANGED <<client, c2s, s2c, srv, cur, pushed, stored, crashed, timeouts>>

Serve ==
    \/ NegotiateOK \/ NegotiateFail \/ SetSession \/ LoopTop
    \/ ReadRequest \/ ReadRequestFail \/ Refuse \/ Respond \/ RespondFail
    \/ ReadPanic \/ Panic \/ StreamPush \/ StreamReturn

Do(d) ==
    \/ DoSnapshot(d) \/ DoWrite(d) \/ DoWriteFail(d)
    \/ DoRead(d) \/ DoReadUndecodable(d) \/ DoReadFail(d)

Close(x) == CloseSwap(x) \/ CloseConn(x)

Next ==
    \/ DialOK \/ DialFail
    \/ \E d \in Dos : DoCall(d) \/ Do(d)
    \/ \E x \in Closers : CloseCall(x) \/ Close(x)
    \/ Expire \/ Cancel \/ GC
    \/ AcceptConn \/ Serve
    \/ ClientFinalizer \/ ServerFinalizer

\* Goroutines that can run do run (the server's handlers return), the mutex is
\* not withheld for ever from a waiter, and the garbage collector runs.
Fairness ==
    /\ WF_vars(Serve)
    /\ WF_vars(ClientFinalizer) /\ WF_vars(ServerFinalizer)
    /\ \A d \in Dos : WF_vars(Do(d))
    /\ \A x \in Closers : WF_vars(Close(x))

Spec == Init /\ [][Next]_vars
FairSpec == Spec /\ Fairness

(***************************************************************************)
(* Properties.                                                             *)
(***************************************************************************)
\* Every variable keeps the shape of the state it stands for.
TypeOK ==
    /\ dialed \in BOOLEAN /\ tcpConn \in BOOLEAN /\ cliClosed \in BOOLEAN
    /\ srvClosed \in BOOLEAN /\ stored \in BOOLEAN /\ crashed \in BOOLEAN
    /\ dead \in BOOLEAN /\ ctxDone \in BOOLEAN
    /\ mu \in Dos \cup {NoOne} /\ cur \in Dos \cup {NoOne}
    /\ dpc \in [Dos -> {"none", "called", "ready", "reading", "returned"}]
    /\ kind \in [Dos -> Kinds]
    /\ res \in [Dos -> Frames \cup {NoFrame}]
    /\ clpc \in [Closers -> {"none", "called", "closing", "returned"}]
    /\ c2s \in Seq(Dos) /\ s2c \in Seq(Frames)
    /\ srv \in {"listen", "negotiate", "negotiated", "top", "read", "handle", "stream", "done"}
    /\ pushed \in 0..MaxPush

\* No request of this client goes to a stream handler.
Unary == \A d \in Dos : kind[d] # "stream"

\* The frame a Do call returns answers its own request, or tells it that the
\* session expired, with other calls failing, being closed under or reusing the
\* same connection.  (A stream handler may leave frames behind: see DoAnswered.)
OwnResponse ==
    Unary => \A d \in Dos :
        res[d] # NoFrame => res[d].seq = d \/ res[d].status = "SessionExpired"

\* A Do call returns: no mixture of closed ends, lost frames, a crashed server and
\* calls queued on the mutex leaves it waiting.
DoReturns == \A d \in Dos : Unary /\ dpc[d] = "called" ~> dpc[d] = "returned"

\* Close returns, though it waits for the mutex a Do call holds while it waits
\* for its response.
CloseReturns == \A x \in Closers : Unary /\ clpc[x] = "called" ~> clpc[x] = "returned"

\* The server does not keep the session of a client that called Close, nor store
\* it later: Close may come before the server has stored it (SetSession).
SessionReclaimed == \A x \in Closers : Unary /\ clpc[x] = "called" ~> []~stored

\* "Do sends a request and returns the response" (client.go): so it does for an
\* opcode with a stream handler.
DoAnswered == \A d \in Dos : dpc[d] = "called" ~> dpc[d] = "returned"

\* "It handles session negotiation, request routing, and panic recovery"
\* (server.go): a panic while a request is served does not end the server.
PanicRecovered == ~crashed
=============================================================================
