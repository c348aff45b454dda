------------------------------ MODULE Dispatch ------------------------------
(***************************************************************************)
(* Registration and dispatch: Server.Use, UseStream, Handle and            *)
(* HandleStream, called from any goroutines while requests are served, and *)
(* the way of a request through the layers around its handler, with the    *)
(* built-in middleware.                                                    *)
(*                                                                         *)
(* A layer decides on its own: Logging and Context let a request through,  *)
(* RequireAPIKeyID looks at the key ID of the session, a rate limit asks   *)
(* one limiter.  MultiRateLimitMiddleware is as many layers as it has      *)
(* limiters, all asked for the session.  Handlers, and the                 *)
(* StreamMiddleware, for which there is no built-in one, are the           *)
(* program's.  A limiter is what SlidingWindowLimiter is shown to be: a    *)
(* count, for each key, of the admissions the window still holds.  The     *)
(* reading of requests, and its panics, are SessionServer's and            *)
(* TcpSession's.                                                           *)
(*                                                                         *)
(* Handle reads s.middlewares without the mutex.  When Use is appending    *)
(* at that moment, it sees the slice before, or after, or grown but with   *)
(* the new element still nil: calling that one ends the process.           *)
(***************************************************************************)
EXTENDS Integers, Sequences

CONSTANTS
    Calls,      \* calls of Use, UseStream, Handle and HandleStream
    CallOf,     \* their arguments
    NoCall,
    Sessions, KeyOf, AddrOf,    \* sessions, their API key IDs and remote addresses
    Tcp,        \* the sessions over TCP, which serve one request at a time
    Requests, SessionOf, OpcodeOf,
    Opcodes, KeyIDs, NoID,
    Limiters, Limit,
    Bys         \* what the rate limits go by

Layers == [kind : {"pass", "recover", "require", "limit"},
           allowed : SUBSET KeyIDs, by : Bys, limiter : Limiters]

ASSUME DispatchAssumption ==
    /\ CallOf \in [Calls -> [op : {"Use", "UseStream", "Handle", "HandleStream"},
                             layers : Seq(Layers),             \* of Use, UseStream
                             opcode : Opcodes,                 \* of Handle, HandleStream
                             fn : {"handler", "stream"}]]      \* what the handler is
    /\ NoCall \notin Calls
    /\ KeyOf \in [Sessions -> KeyIDs] /\ NoID \in KeyIDs
    /\ Tcp \subseteq Sessions
    /\ SessionOf \in [Requests -> Sessions] /\ OpcodeOf \in [Requests -> Opcodes]
    /\ Limit \in [Limiters -> Nat]
    /\ Bys \subseteq {"session", "key", "addr"}

\* The string a rate limit asks its limiter for.
LimitKey(by, s) ==
    CASE by = "session" -> <<"session", s>>
      [] by = "key" -> <<"key", IF KeyOf[s] = NoID THEN "anonymous" ELSE KeyOf[s]>>
      [] by = "addr" -> <<"ip", AddrOf[s]>>

LimitKeys == {LimitKey(by, s) : by \in Bys, s \in Sessions}

VARIABLES
    middlewares,    \* Server.middlewares and streamMiddlewares, by the call that appends
    mu,             \* the call of Use that holds Server.mu
    cpc,            \* where each call is: none, locked, wrapped, done
    inForce,        \* history: the layers whose Use had returned when Handle read the slice
    wrapped,        \* the layers around the handler of each call, outermost first
    handlers,       \* Server.handlers: the call that registered each opcode
    rpc,            \* where each request is: idle, layer, body, bad (response)
    via,            \* the handler looked up for it
    pos,            \* the layer it is at
    charged,        \* the limiters that counted it
    count,          \* of each limiter and key
    crashed         \* the process ended

registry == <<middlewares, mu, cpc, inForce, wrapped, handlers>>
requests == <<rpc, via, pos, charged>>
vars == <<registry, requests, count, crashed>>

Init ==
    /\ middlewares = [op \in {"Use", "UseStream"} |-> <<>>] /\ mu = NoCall
    /\ cpc = [c \in Calls |-> "none"]
    /\ inForce = [c \in Calls |-> <<>>] /\ wrapped = [c \in Calls |-> <<>>]
    /\ handlers = [o \in Opcodes |-> NoCall]
    /\ rpc = [r \in Requests |-> "idle"] /\ via = [r \in Requests |-> NoCall]
    /\ pos = [r \in Requests |-> 1] /\ charged = [r \in Requests |-> {}]
    /\ count = [l \in Limiters |-> [k \in LimitKeys |-> 0]]
    /\ crashed = FALSE

(***************************************************************************)
(* Registration.                                                           *)
(***************************************************************************)
\* The slice a call appends to, or wraps with.
SliceOf(c) == IF CallOf[c].op \in {"Use", "Handle"} THEN "Use" ELSE "UseStream"

UseLock(c) ==
    /\ cpc[c] = "none" /\ CallOf[c].op \in {"Use", "UseStream"} /\ mu = NoCall
    /\ mu' = c /\ cpc' = [cpc EXCEPT ![c] = "locked"]
    /\ UNCHANGED <<middlewares, inForce, wrapped, handlers, requests, count, crashed>>

UseAppend(c) ==
    /\ mu = c
    /\ middlewares' = [middlewares EXCEPT ![SliceOf(c)] = @ \o CallOf[c].layers]
    /\ mu' = NoCall /\ cpc' = [cpc EXCEPT ![c] = "done"]
    /\ UNCHANGED <<inForce, wrapped, handlers, requests, count, crashed>>

MutWrap(mws) == [i \in 1..Len(mws) |-> mws[Len(mws) + 1 - i]]

\* The last layer is put around the handler first, so the first becomes the
\* outermost.
Wrap(mws) == [i \in 1..Len(mws) |-> mws[i]]

\* Use is appending to the slice that c reads.
Racing(c) == mu # NoCall /\ SliceOf(mu) = SliceOf(c)

HandleWrap(c) ==
    /\ cpc[c] = "none" /\ CallOf[c].op \in {"Handle", "HandleStream"}
    /\ inForce' = [inForce EXCEPT ![c] = middlewares[SliceOf(c)]]
    /\ \E mws \in {middlewares[SliceOf(c)]} \cup
                  (IF Racing(c) THEN {middlewares[SliceOf(c)] \o CallOf[mu].layers} ELSE {}) :
           wrapped' = [wrapped EXCEPT ![c] = Wrap(mws)]
    /\ cpc' = [cpc EXCEPT ![c] = "wrapped"]
    /\ UNCHANGED <<middlewares, mu, handlers, requests, count, crashed>>

HandleNil(c) ==
    /\ cpc[c] = "none" /\ CallOf[c].op \in {"Handle", "HandleStream"} /\ Racing(c)
    /\ crashed' = TRUE
    /\ UNCHANGED <<registry, requests, count>>

HandleStore(c) ==
    /\ cpc[c] = "wrapped" /\ mu = NoCall
    /\ handlers' = [handlers EXCEPT ![CallOf[c].opcode] = c]
    /\ cpc' = [cpc EXCEPT ![c] = "done"]
    /\ UNCHANGED <<middlewares, mu, inForce, wrapped, requests, count, crashed>>

Register(c) ==
    UseLock(c) \/ UseAppend(c) \/ HandleWrap(c) \/ HandleNil(c) \/ HandleStore(c)

(***************************************************************************)
(* A request, from its lookup to its answer.  A session over QUIC has as   *)
(* many in flight as it likes.                                             *)
(***************************************************************************)
Layer(r) == wrapped[via[r]][pos[r]]
AtLayer(r, kind) ==
    rpc[r] = "layer" /\ pos[r] <= Len(wrapped[via[r]]) /\ Layer(r).kind = kind

\* A layer that Handle puts around a StreamHandler hides that it is one.
Hidden(c) == CallOf[c].fn = "stream" /\ CallOf[c].op = "Handle" /\ wrapped[c] # <<>>

\* The client is sent a status, and may ask again.
Answer(r) ==
    /\ rpc' = [rpc EXCEPT ![r] = "idle"]
    /\ via' = [via EXCEPT ![r] = NoCall]
    /\ pos' = [pos EXCEPT ![r] = 1]
    /\ charged' = [charged EXCEPT ![r] = {}]
    /\ UNCHANGED <<registry, crashed>>

Proceed(r) ==
    /\ pos' = [pos EXCEPT ![r] = @ + 1]
    /\ UNCHANGED <<registry, rpc, via, crashed>>

Lookup(r) ==
    /\ rpc[r] = "idle" /\ mu = NoCall
    /\ SessionOf[r] \in Tcp => \A q \in Requests : SessionOf[q] = SessionOf[r] => rpc[q] = "idle"
    /\ handlers[OpcodeOf[r]] # NoCall      \* else NotFound
    /\ rpc' = [rpc EXCEPT ![r] = "layer"]
    /\ via' = [via EXCEPT ![r] = handlers[OpcodeOf[r]]]
    /\ UNCHANGED <<registry, pos, charged, count, crashed>>

Pass(r) ==
    /\ AtLayer(r, "pass") \/ AtLayer(r, "recover")
    /\ Proceed(r) /\ UNCHANGED <<charged, count>>

Require(r) ==
    /\ AtLayer(r, "require")
    /\ IF KeyOf[SessionOf[r]] \in Layer(r).allowed
       THEN Proceed(r) /\ UNCHANGED <<charged, count>>
       ELSE Answer(r) /\ UNCHANGED count      \* Unauthenticated

Admitted(r) == count[Layer(r).limiter][LimitKey(Layer(r).by, SessionOf[r])] < Limit[Layer(r).limiter]

\* A denial that is counted as well.
MutAllow(r) ==
    /\ AtLayer(r, "limit")
    /\ count' = [count EXCEPT ![Layer(r).limiter][LimitKey(Layer(r).by, SessionOf[r])] =
                     IF @ <= Limit[Layer(r).limiter] THEN @ + 1 ELSE @]
    /\ IF Admitted(r)
       THEN /\ charged' = [charged EXCEPT ![r] = @ \cup {Layer(r).limiter}]
            /\ Proceed(r)
       ELSE Answer(r)

\* A request that a later limiter denies stays counted by the earlier ones.
Allow(r) ==
    /\ AtLayer(r, "limit")
    /\ IF Admitted(r)
       THEN /\ count' = [count EXCEPT ![Layer(r).limiter][LimitKey(Layer(r).by, SessionOf[r])] = @ + 1]
            /\ charged' = [charged EXCEPT ![r] = @ \cup {Layer(r).limiter}]
            /\ Proceed(r)
       ELSE Answer(r) /\ UNCHANGED count      \* RateLimited

MoveTo(r, to) ==
    /\ rpc' = [rpc EXCEPT ![r] = to]
    /\ UNCHANGED <<registry, via, pos, charged, count, crashed>>

Enter(r) ==
    /\ rpc[r] = "layer" /\ pos[r] > Len(wrapped[via[r]])
    /\ IF Hidden(via[r])
       THEN Answer(r) /\ UNCHANGED count      \* StreamHandlerFunc.HandleHush: InternalError
       ELSE MoveTo(r, "body")

\* A response, an error, neither, or a response that cannot be encoded; what a stream
\* handler returns is not looked at.
Return(r) ==
    /\ rpc[r] = "body"
    /\ \/ Answer(r) /\ UNCHANGED count
       \/ CallOf[via[r]].fn = "handler" /\ MoveTo(r, "bad")

\* handleStream recovers and answers; handleTCPConnection does not recover.
Recover(r) ==
    IF SessionOf[r] \in Tcp
    THEN crashed' = TRUE /\ UNCHANGED <<registry, requests, count>>
    ELSE Answer(r) /\ UNCHANGED count      \* InternalError

\* RecoveryMiddleware stops the panic, and returns neither a response nor an error.
Panic(r) ==
    /\ rpc[r] = "body"
    /\ IF \E i \in 1..Len(wrapped[via[r]]) : wrapped[via[r]][i].kind = "recover"
       THEN MoveTo(r, "bad")
       ELSE Recover(r)

\* Out of reach of every layer the server reads resp.Status to log it, where a nil
\* response panics, and encodes the response, where MustEncodeMap does.
BadResponse(r) == rpc[r] = "bad" /\ Recover(r)

Serve(r) ==
    Pass(r) \/ Require(r) \/ Allow(r) \/ Enter(r) \/ Return(r) \/ Panic(r) \/ BadResponse(r)

\* The window of limiter l lets go of an admission of k.
AgeOut(l, k) ==
    /\ count[l][k] > 0
    /\ count' = [count EXCEPT ![l][k] = @ - 1]
    /\ UNCHANGED <<registry, requests, crashed>>

Next ==
    /\ ~crashed
    /\ \/ \E c \in Calls : Register(c)
       \/ \E r \in Requests : Lookup(r) \/ Serve(r)
       \/ \E l \in Limiters, k \in LimitKeys : AgeOut(l, k)

\* The server's goroutines run, handlers return, clients ask again, and time passes.
Fairness ==
    /\ WF_vars(~crashed /\ \E c \in Calls : UseAppend(c))
    /\ \A r \in Requests : WF_vars(~crashed /\ (Lookup(r) \/ Serve(r)))
    /\ \A l \in Limiters, k \in LimitKeys : WF_vars(~crashed /\ AgeOut(l, k))

Spec == Init /\ [][Next]_vars
FairSpec == Spec /\ Fairness

(***************************************************************************)
(* Properties.                                                             *)
(***************************************************************************)
\* Every variable keeps the shape of the state it stands for; no limiter counts
\* more than its limit, and a request in flight has a handler.
TypeOK ==
    /\ middlewares \in [{"Use", "UseStream"} -> Seq(Layers)]
    /\ mu \in Calls \cup {NoCall}
    /\ cpc \in [Calls -> {"none", "locked", "wrapped", "done"}]
    /\ inForce \in [Calls -> Seq(Layers)] /\ wrapped \in [Calls -> Seq(Layers)]
    /\ handlers \in [Opcodes -> Calls \cup {NoCall}]
    /\ rpc \in [Requests -> {"idle", "layer", "body", "bad"}]
    /\ via \in [Requests -> Calls \cup {NoCall}]
    /\ pos \in [Requests -> Nat \ {0}]
    /\ charged \in [Requests -> SUBSET Limiters]
    /\ count \in [Limiters -> [LimitKeys -> Nat]]
    /\ \A l \in Limiters, k \in LimitKeys : count[l][k] <= Limit[l]
    /\ \A r \in Requests : rpc[r] # "idle" => via[r] \in Calls
    /\ crashed \in BOOLEAN

\* What layer m had to decide for r to be let through.
LetThrough(m, r) ==
    /\ m.kind = "require" => KeyOf[SessionOf[r]] \in m.allowed
    /\ m.kind = "limit" => m.limiter \in charged[r]

\* The handler of r ran, or a limiter counted it that stands only further in than
\* layer i.
Reached(r, i) ==
    LET ms == inForce[via[r]] IN
    \/ rpc[r] \in {"body", "bad"}
    \/ \E l \in charged[r] : \A k \in 1..i : ~(ms[k].kind = "limit" /\ ms[k].limiter = l)

\* A layer whose Use returned before Handle was called protects the handler and
\* every limiter inside it: a request that the layer turns away neither runs the
\* handler nor is counted further in.  Use and Handle may race, and the opcode may
\* be registered again meanwhile.
Guarded ==
    \A r \in Requests : rpc[r] # "idle" =>
        \A i \in 1..Len(inForce[via[r]]) : Reached(r, i) => LetThrough(inForce[via[r]][i], r)

\* Session s has its limiter keys to itself, and its handlers let it through
\* unless a limiter is at its limit, none of which is asked twice.
Alone(s) == \A t \in Sessions \ {s}, by \in Bys : LimitKey(by, s) # LimitKey(by, t)

Welcome(s) ==
    /\ ~crashed
    /\ \A r \in Requests : SessionOf[r] = s =>
           /\ handlers[OpcodeOf[r]] # NoCall /\ ~Hidden(handlers[OpcodeOf[r]])
           /\ LET ms == wrapped[handlers[OpcodeOf[r]]] IN \A i \in 1..Len(ms) :
                  /\ ms[i].kind = "require" => KeyOf[s] \in ms[i].allowed
                  /\ ms[i].kind = "limit" => Limit[ms[i].limiter] > 0
                  /\ \A j \in 1..Len(ms) :
                         ms[i].kind = "limit" /\ ms[j].kind = "limit" /\ ms[i].limiter = ms[j].limiter => i = j

\* A client that keeps asking is served again and again, however many limiters
\* stand in a row: requests that one limiter denies are counted by those before
\* it, but never so that the session is locked out for good.
SessionServed ==
    \A s \in Sessions : Alone(s) /\ (\E r \in Requests : SessionOf[r] = s) /\ <>[]Welcome(s) =>
        []<>(\E r \in Requests : SessionOf[r] = s /\ rpc[r] = "body")
=============================================================================
