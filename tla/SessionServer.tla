--------------------------- MODULE SessionServer ---------------------------
(***************************************************************************)
(* The QUIC serve path of package server with the session store of package *)
(* session: ListenAndServe accepts connections, handleConnection           *)
(* negotiates a session on each and registers it, handleStream serves one  *)
(* request per stream in a goroutine of its own, gcLoop evicts sessions    *)
(* past their lifetime.                                                    *)
(*                                                                         *)
(* Every goroutine interleaves with every other at each point where it     *)
(* takes a lock, blocks, or reads or writes Session.LastUsed, which no     *)
(* lock protects.  LastUsed is a time.Time of several words, but           *)
(* time.Since compares its monotonic word alone, so a racing read yields   *)
(* one of the values written and never a mixture.                          *)
(***************************************************************************)
EXTENDS Integers, FiniteSets

CONSTANTS
    Conns,                \* connections a client may open
    Streams,              \* request streams clients may open on them
    CfgIdleTimeout,       \* SessionConfig.IdleTimeout as the application set it
    CfgMaxLifetime,       \* SessionConfig.MaxLifetime as the application set it
    DefaultIdleTimeout,
    DefaultMaxLifetime,
    MaxTime,              \* bound: the clock stops here
    MaxID                 \* bound: the last session number drawn

ASSUME ConfigAssumption ==
    /\ CfgIdleTimeout \in Int /\ CfgMaxLifetime \in Int
    /\ DefaultIdleTimeout \in Nat \ {0} /\ DefaultMaxLifetime \in Nat \ {0}
    /\ MaxTime \in Nat /\ MaxID \in Nat

VARIABLES
    now,        \* the clock, in ticks
    ctxDone,    \* the context given to ListenAndServe is cancelled
    loops,      \* which of the goroutines "accept" and "gc" still run
    nextID,     \* Server.nextID
    cpc,        \* where handleConnection is, per connection
    connUp,     \* the QUIC connection is open
    id,         \* Session.ID of the connection's session, 0 before there is one
    created,    \* Session.CreatedAt
    lastUsed,   \* Session.LastUsed
    sessions,   \* SessionStore.sessions: the connections whose session it holds
    spc,        \* where handleStream is, per stream
    sconn,      \* the connection (and so the session) the stream belongs to
    stamp,      \* the time Touch has read and is about to store, else 0
    answer,     \* the response the server itself wrote on the stream
    closed      \* the server called stream.Close

time == <<now, ctxDone, loops>>
conn == <<nextID, cpc, connUp, id, created>>
stream == <<sconn, answer, closed>>
vars == <<time, conn, lastUsed, sessions, spc, stamp, stream>>

ConnStates == {"none", "accepted", "negotiating", "numbered", "created", "serving", "closed",
               "failed"}
StreamStates == {"none", "expiry", "idle", "touch", "store", "read", "handler", "stream", "done"}
Answers == {"none", "SessionExpired", "BadRequest", "NotFound", "InternalError", "Response"}

(***************************************************************************)
(* Configuration and the two timeouts of the store.                        *)
(***************************************************************************)
fillDefaults(d, default) == IF d <= 0 THEN default ELSE d

IdleTimeout == fillDefaults(CfgIdleTimeout, DefaultIdleTimeout)
MaxLifetime == fillDefaults(CfgMaxLifetime, DefaultMaxLifetime)

MutIsExpiredByUse(c) == now - lastUsed[c] > MaxLifetime
IsExpired(c) == now - created[c] > MaxLifetime

IsIdleDead(c) == now - lastUsed[c] > IdleTimeout

(***************************************************************************)
(* The store is a map keyed by the session ID.                             *)
(***************************************************************************)
Without(c) == {d \in sessions : id[d] # id[c]}

Set(c) == sessions' = Without(c) \cup {c}

MutDelete(c) == sessions' = sessions
Delete(c) == sessions' = Without(c)

Init ==
    /\ now = 0 /\ ctxDone = FALSE /\ loops = {"accept", "gc"}
    /\ nextID = 0
    /\ cpc = [c \in Conns |-> "none"]
    /\ connUp = [c \in Conns |-> FALSE]
    /\ id = [c \in Conns |-> 0]
    /\ created = [c \in Conns |-> 0]
    /\ lastUsed = [c \in Conns |-> 0]
    /\ sessions = {}
    /\ spc = [s \in Streams |-> "none"]
    /\ sconn \in [Streams -> Conns]
    /\ stamp = [s \in Streams |-> 0]
    /\ answer = [s \in Streams |-> "none"]
    /\ closed = [s \in Streams |-> FALSE]

(***************************************************************************)
(* The environment: the clock, the application's context, the peer.        *)
(***************************************************************************)
Tick ==
    /\ now < MaxTime
    /\ now' = now + 1
    /\ UNCHANGED <<ctxDone, loops, conn, lastUsed, sessions, spc, stamp, stream>>

Cancel ==
    /\ ~ctxDone
    /\ ctxDone' = TRUE
    /\ UNCHANGED <<now, loops, conn, lastUsed, sessions, spc, stamp, stream>>

PeerGone(c) ==
    /\ connUp[c]
    /\ connUp' = [connUp EXCEPT ![c] = FALSE]
    /\ UNCHANGED <<time, nextID, cpc, id, created, lastUsed, sessions, spc, stamp, stream>>

(***************************************************************************)
(* ListenAndServe.  A connection already queued may still be accepted      *)
(* after the context is cancelled and before the loop notices it.          *)
(***************************************************************************)
AcceptConn(c) ==
    /\ "accept" \in loops
    /\ cpc[c] = "none"
    /\ cpc' = [cpc EXCEPT ![c] = "accepted"]
    /\ connUp' = [connUp EXCEPT ![c] = TRUE]
    /\ UNCHANGED <<time, nextID, id, created, lastUsed, sessions, spc, stamp, stream>>

\* Both loops return once they see ctx.Done.
LoopExit(l) ==
    /\ ctxDone
    /\ l \in loops
    /\ loops' = loops \ {l}
    /\ UNCHANGED <<now, ctxDone, conn, lastUsed, sessions, spc, stamp, stream>>

(***************************************************************************)
(* gcLoop: one tick of the ticker runs SessionStore.GC under its lock.     *)
(***************************************************************************)
MutGCOnlyGone ==
    /\ "gc" \in loops
    /\ sessions' = {c \in sessions : ~(IsExpired(c) /\ ~connUp[c])}
    /\ UNCHANGED <<time, conn, lastUsed, spc, stamp, stream>>

MutGCIdle ==
    /\ "gc" \in loops
    /\ sessions' = {c \in sessions : ~IsExpired(c) /\ ~IsIdleDead(c)}
    /\ UNCHANGED <<time, conn, lastUsed, spc, stamp, stream>>

GC ==
    /\ "gc" \in loops
    /\ sessions' = {c \in sessions : ~IsExpired(c)}
    /\ UNCHANGED <<time, conn, lastUsed, spc, stamp, stream>>

(***************************************************************************)
(* handleConnection: the handshake.  NegotiateServer does not look at the  *)
(* context; a stalled peer holds it until the connection drops.            *)
(***************************************************************************)
\* Leaving handleConnection, with or without a session to its name, runs the
\* deferred CloseWithError.
Leave(c, as) ==
    /\ cpc' = [cpc EXCEPT ![c] = as]
    /\ connUp' = [connUp EXCEPT ![c] = FALSE]

AcceptHandshake(c) ==
    /\ cpc[c] = "accepted"
    /\ connUp[c]
    /\ cpc' = [cpc EXCEPT ![c] = "negotiating"]
    /\ UNCHANGED <<time, nextID, connUp, id, created, lastUsed, sessions, spc, stamp, stream>>

HandshakeAbort(c) ==
    /\ cpc[c] = "accepted"
    /\ ctxDone \/ ~connUp[c]
    /\ Leave(c, "failed")
    /\ UNCHANGED <<time, nextID, id, created, lastUsed, sessions, spc, stamp, stream>>

\* A read error, an overlong or unknown key ID, a bad public key; and, with the
\* session number already drawn, a failed key agreement or response write.
NegotiateFail(c) ==
    /\ cpc[c] \in {"negotiating", "numbered"}
    /\ Leave(c, "failed")
    /\ UNCHANGED <<time, nextID, id, created, lastUsed, sessions, spc, stamp, stream>>

MutAssignID(c) ==
    /\ cpc[c] = "negotiating" /\ nextID < MaxID
    /\ nextID' = IF \E d \in Conns : cpc[d] = "numbered" THEN nextID ELSE nextID + 1
    /\ id' = [id EXCEPT ![c] = nextID']
    /\ cpc' = [cpc EXCEPT ![c] = "numbered"]
    /\ UNCHANGED <<time, connUp, created, lastUsed, sessions, spc, stamp, stream>>

\* nextSessionID(), an atomic add.
AssignID(c) ==
    /\ cpc[c] = "negotiating" /\ nextID < MaxID
    /\ nextID' = nextID + 1
    /\ id' = [id EXCEPT ![c] = nextID']
    /\ cpc' = [cpc EXCEPT ![c] = "numbered"]
    /\ UNCHANGED <<time, connUp, created, lastUsed, sessions, spc, stamp, stream>>

\* The response is on the wire, so the client may already send requests.
NewSession(c) ==
    /\ cpc[c] = "numbered"
    /\ created' = [created EXCEPT ![c] = now]
    /\ lastUsed' = [lastUsed EXCEPT ![c] = now]
    /\ cpc' = [cpc EXCEPT ![c] = "created"]
    /\ UNCHANGED <<time, nextID, connUp, id, sessions, spc, stamp, stream>>

Register(c) ==
    /\ cpc[c] = "created"
    /\ Set(c)
    /\ cpc' = [cpc EXCEPT ![c] = "serving"]
    /\ UNCHANGED <<time, nextID, connUp, id, created, lastUsed, spc, stamp, stream>>

MutServeExit(c) ==
    /\ cpc[c] = "serving"
    /\ ~connUp[c]
    /\ Delete(c)
    /\ Leave(c, "closed")
    /\ UNCHANGED <<time, nextID, id, created, lastUsed, spc, stamp, stream>>

\* AcceptStream fails: the loop returns and the deferred Delete runs.
ServeExit(c) ==
    /\ cpc[c] = "serving"
    /\ ctxDone \/ ~connUp[c]
    /\ Delete(c)
    /\ Leave(c, "closed")
    /\ UNCHANGED <<time, nextID, id, created, lastUsed, spc, stamp, stream>>

(***************************************************************************)
(* handleStream.  Its goroutine outlives the connection and the context.   *)
(***************************************************************************)
AcceptStream(s) ==
    /\ spc[s] = "none"
    /\ cpc[sconn[s]] = "serving"
    /\ connUp[sconn[s]]
    /\ spc' = [spc EXCEPT ![s] = "expiry"]
    /\ UNCHANGED <<time, conn, lastUsed, sessions, stamp, stream>>

\* The server writes its answer and, unless it recovers from a panic, closes.
Finish(s, status, close) ==
    /\ spc' = [spc EXCEPT ![s] = "done"]
    /\ answer' = [answer EXCEPT ![s] = status]
    /\ closed' = [closed EXCEPT ![s] = close]
    /\ UNCHANGED <<time, conn, lastUsed, sessions, stamp, sconn>>

Proceed(s, to) ==
    /\ spc' = [spc EXCEPT ![s] = to]
    /\ UNCHANGED <<time, conn, lastUsed, sessions, stamp, stream>>

MutCheckExpired(s) ==
    /\ spc[s] = "expiry"
    /\ IF MutIsExpiredByUse(sconn[s])
       THEN Finish(s, "SessionExpired", TRUE)
       ELSE Proceed(s, "idle")

CheckExpired(s) ==
    /\ spc[s] = "expiry"
    /\ IF IsExpired(sconn[s])
       THEN Finish(s, "SessionExpired", TRUE)
       ELSE Proceed(s, "idle")

MutCheckIdle(s) ==
    /\ spc[s] = "idle"
    /\ Proceed(s, "touch")

CheckIdle(s) ==
    /\ spc[s] = "idle"
    /\ IF IsIdleDead(sconn[s])
       THEN Finish(s, "SessionExpired", TRUE)
       ELSE Proceed(s, "touch")

MutTouchRead(s) ==
    /\ spc[s] = "touch"
    /\ stamp' = [stamp EXCEPT ![s] = now + IdleTimeout]
    /\ spc' = [spc EXCEPT ![s] = "store"]
    /\ UNCHANGED <<time, conn, lastUsed, sessions, stream>>

\* Touch reads the clock and then stores it, without a lock.
TouchRead(s) ==
    /\ spc[s] = "touch"
    /\ stamp' = [stamp EXCEPT ![s] = now]
    /\ spc' = [spc EXCEPT ![s] = "store"]
    /\ UNCHANGED <<time, conn, lastUsed, sessions, stream>>

TouchStore(s) ==
    /\ spc[s] = "store"
    /\ lastUsed' = [lastUsed EXCEPT ![sconn[s]] = stamp[s]]
    /\ stamp' = [stamp EXCEPT ![s] = 0]
    /\ spc' = [spc EXCEPT ![s] = "read"]
    /\ UNCHANGED <<time, conn, sessions, stream>>

\* ReadRequest blocks until the client sends a frame, however long that takes.
ReadBad(s) == spc[s] = "read" /\ Finish(s, "BadRequest", TRUE)

ReadUnknown(s) == spc[s] = "read" /\ Finish(s, "NotFound", TRUE)

ReadRequest(s) == spc[s] = "read" /\ \E h \in {"handler", "stream"} : Proceed(s, h)

\* The handler's response, or none if it is too large for a frame.
HandlerReturn(s) ==
    spc[s] = "handler" /\ \E r \in {"Response", "none", "InternalError"} : Finish(s, r, TRUE)

MutStreamHandlerReturn(s) == spc[s] = "stream" /\ Finish(s, "none", FALSE)

\* The server itself writes nothing after a stream handler, failed or not.
StreamHandlerReturn(s) == spc[s] = "stream" /\ Finish(s, "none", TRUE)

\* A panic below handleStream: in a handler, on its nil or unencodable response, or
\* in ReadRequest, whose DecodeBytes slices past its buffer on a length that wraps.
\* The recover answers and returns without closing the stream.
Panic(s) ==
    spc[s] \in {"read", "handler", "stream"} /\ Finish(s, "InternalError", FALSE)

ConnStep(c) ==
    \/ AcceptConn(c) \/ PeerGone(c)
    \/ AcceptHandshake(c) \/ HandshakeAbort(c) \/ NegotiateFail(c)
    \/ AssignID(c) \/ NewSession(c) \/ Register(c) \/ ServeExit(c)

StreamStep(s) ==
    \/ AcceptStream(s) \/ CheckExpired(s) \/ CheckIdle(s)
    \/ TouchRead(s) \/ TouchStore(s)
    \/ ReadBad(s) \/ ReadUnknown(s) \/ ReadRequest(s)
    \/ HandlerReturn(s) \/ StreamHandlerReturn(s) \/ Panic(s)

Next ==
    \/ Tick \/ Cancel \/ GC
    \/ \E l \in {"accept", "gc"} : LoopExit(l)
    \/ \E c \in Conns : ConnStep(c)
    \/ \E s \in Streams : StreamStep(s)

(***************************************************************************)
(* Fairness: runnable goroutines are scheduled, the ticker of gcLoop keeps *)
(* firing, and AcceptStream returns an error on a cancelled context or a   *)
(* closed connection.  Nothing is assumed of clients or handlers.          *)
(***************************************************************************)
Fairness ==
    /\ WF_vars(GC)
    /\ \A l \in {"accept", "gc"} : WF_vars(LoopExit(l))
    /\ \A c \in Conns :
        /\ WF_vars(HandshakeAbort(c)) /\ WF_vars(NewSession(c))
        /\ WF_vars(Register(c)) /\ WF_vars(ServeExit(c))
    /\ \A s \in Streams :
        /\ WF_vars(CheckExpired(s)) /\ WF_vars(CheckIdle(s))
        /\ WF_vars(TouchRead(s)) /\ WF_vars(TouchStore(s))

Spec == Init /\ [][Next]_vars
FairSpec == Spec /\ Fairness

(***************************************************************************)
(* Properties.                                                             *)
(***************************************************************************)
\* Every variable keeps the shape of the Go state it stands for.
TypeOK ==
    /\ now \in 0..MaxTime /\ ctxDone \in BOOLEAN /\ loops \subseteq {"accept", "gc"}
    /\ nextID \in Nat
    /\ cpc \in [Conns -> ConnStates] /\ connUp \in [Conns -> BOOLEAN]
    /\ id \in [Conns -> Nat] /\ created \in [Conns -> 0..MaxTime]
    /\ lastUsed \in [Conns -> 0..MaxTime] /\ sessions \subseteq Conns
    /\ spc \in [Streams -> StreamStates] /\ sconn \in [Streams -> Conns]
    /\ stamp \in [Streams -> 0..MaxTime]
    /\ answer \in [Streams -> Answers] /\ closed \in [Streams -> BOOLEAN]

\* Seen by session ID the store is a SessionRegistry: concurrent handshakes, the
\* late Set, GC and the deferred Delete never put an ID into it a second time and
\* never bring a session back that has left it.
Registry == INSTANCE SessionRegistry WITH
    IDs <- 1..MaxID,
    opened <- {id[c] : c \in {d \in Conns : cpc[d] \in {"serving", "closed"}}},
    live <- {id[c] : c \in sessions}

ImplementsRegistry == Registry!Spec

OnlyServed == \A c \in sessions : cpc[c] = "serving"

\* The store never holds a session whose handleConnection has ended, and when one
\* ends its deferred Delete takes no other connection's session along: an entry
\* leaves with its own connection, or by GC past its lifetime while none ends.
StoreOwned ==
    [][/\ OnlyServed'
       /\ \A c \in sessions \ sessions' :
            \/ cpc' = [cpc EXCEPT ![c] = "closed"]
            \/ cpc' = cpc /\ IsExpired(c)]_vars

\* Between Set and the deferred Delete a session is only ever missing from the
\* store because GC found it past MaxLifetime; idleness does not evict it.
OnlyExpiredEvicted ==
    \A c \in Conns : cpc[c] = "serving" /\ c \notin sessions => IsExpired(c)

\* handleStream's lifetime check and gcLoop agree although they run apart: a
\* stream that passes the check belongs to a session still in the store, unless
\* its connection has ended meanwhile.
AdmittedIsStored ==
    [][\A s \in Streams :
        spc[s] = "expiry" /\ spc'[s] = "idle" =>
            sconn[s] \in sessions \/ cpc[sconn[s]] = "closed"]_vars

\* An idle-dead session no stream of which has passed the idle check yet.
Dormant(c) ==
    /\ cpc[c] \in {"created", "serving", "closed"}
    /\ IsIdleDead(c)
    /\ \A s \in Streams : sconn[s] = c => spc[s] \notin {"touch", "store"}

\* Once a session is idle-dead and no Touch is in flight, no later stream can
\* revive it: the check comes before the Touch in every handleStream.
DormantForever == [][\A c \in Conns : Dormant(c) => Dormant(c)']_vars

\* A handleStream that ended has answered or closed its stream, so the client's
\* ReadResponse always returns: also after a panic of a handler or of ReadRequest
\* itself, and after a stream handler that failed without writing anything.
NoSilentStream ==
    \A s \in Streams : spc[s] = "done" => answer[s] # "none" \/ closed[s]

\* After the context is cancelled the store empties for good, also when a
\* handshake completes after the cancellation.
ShutdownDrains == ctxDone ~> [](sessions = {})

\* A session past its lifetime leaves the store although its connection stays
\* up: gcLoop evicts it, or after the cancellation handleConnection does.
ExpiredReclaimed ==
    \A c \in Conns : (c \in sessions /\ IsExpired(c)) ~> (c \notin sessions)
=============================================================================
