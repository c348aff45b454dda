# hush-go: TLA+ models and proofs

hush-go is a Go library for encrypted request/response sessions over QUIC or
TLS-over-TCP, with publish/subscribe streams, rate limiting and media tokens.
This directory models its stateful parts in TLA+, checks them with TLC on
small instances and proves the safety properties with TLAPS for every
instance (of the TLV codec only its maps, see section 5).  Paths below are
relative to the repository root.

## 1. The system

| Part | State | Operations | Meets |
|---|---|---|---|
| Session store (`session/session.go`) | map ID -> session under a mutex; `CreatedAt`, `LastUsed` of each session, under no lock | Set, Get, Delete, GC, IsExpired, IsIdleDead, Touch | both serve paths, gcLoop, media |
| Handshake (`session/negotiate.go`, `session/crypto.go`) | none of its own; draws the session ID from the server's atomic counter | NegotiateServer, NegotiateClient | serve paths, client |
| QUIC serve path (`server/server.go`) | connections, one goroutine per stream | ListenAndServe, handleConnection, handleStream, gcLoop | store, handlers |
| TCP serve path (`server/server.go`) | one goroutine per connection | ListenAndServeTCP, handleTCPConnection | store, handlers, client |
| Client (`client/client.go`) | connection pointer, `dialed`, sequence counter, one mutex | Dial, Do, Close | serve paths |
| Hub (`server/stream.go`) | topic -> subID -> subscriber under a mutex; a buffered and a done channel per subscriber | Subscribe, Unsubscribe, Publish, SubscribeHandler, PublishHandler | stream handlers |
| Rate limiter (`server/ratelimit.go`) | timestamps per key, stop channel, mutex | Allow, gc, CleanupEvery, Stop | middleware |
| Media tokens (`media/media.go`) | tokens under a mutex | Issue, Validate, RevokeBySession, GC | session store, through a callback |
| Handler registry (`server/server.go`, `server/handler.go`) | opcode -> wrapped handler, two slices of middleware, under a mutex that Handle takes too late | Use, UseStream, Handle, HandleStream, lookup | serve paths |
| Middleware (`server/middleware.go`) | none of its own | wraps handlers: logging, recovery, context, rate limits, API keys | registry, limiter |
| TLV codec (`tlv/`) | none | Encode, Decode, DecodeBytes, DecodeAll | frames |
| Frames (`frame/`) | none | pure conversions | both ends |
| Transport, logger, examples | none that others read | I/O | |

What is hard here is concurrency: goroutines per connection, stream,
subscriber and cleaner, with locks released in the middle of operations;
sessions that expire, are collected or lose their connection while requests
use them; a client that holds its mutex across a round trip; channels closed
and sent to from outside the lock.  Nothing is persisted, so there is no crash
recovery; the one crash that matters is a panic that ends the process.
`PROJECT.json` lists these hazards at their lines with the properties that
cover them, and says why some are not covered.

What makes each part correct:

- store and serve path: IDs are unique; the store holds exactly the sessions
  being served, minus the expired; admission agrees with the store; dormant
  sessions stay dormant; every stream is answered or closed; sessions leave
  the store.
- TCP and client: a call gets its own answer and returns; Close returns and
  the server lets go of the session.
- hub: the registry is exact and holds live subscribers only; each subscriber
  gets its topic's events in order, at most once, within its buffer;
  publishers never wait; handlers leave.
- limiter: no window admits too much, no denial is unjustified; stop channels
  are closed once; no cleaner escapes.
- media: a void token is never granted, a good one never refused.
- handshake and QUIC client: both ends share a key exactly if the client holds
  the right secret; a handler is never told a key ID its client does not own; Do
  returns.
- registry and middleware: a layer registered before a handler guards it; no
  chain of limiters locks a client out for good.
- TLV: what was encoded is decoded, also from a stream that breaks off; what is
  decoded is in a normal form.

## 2. Modules

`X` is the specification, `XProofs` its theorems, `MC...` its instance for TLC.

**SessionServer** (QUIC serve path and session store).  A connection's
`cpc` follows handleConnection: `accepted` (waiting for the handshake stream),
`negotiating`, `numbered` (ID drawn), `created` (response written, session
made), `serving` (stored), `closed`.  A stream's `spc` follows handleStream:
`expiry`, `idle`, `touch`, `store`, `read`, `handler` or `stream`, `done`.  The
expiry check, the idle check, the reading of the clock in Touch and its store
are four steps because no lock covers `LastUsed`.  A `time.Time` has several
words, but the comparison uses the monotonic one only, so a racing read yields
a value that was written.  Leaving handleConnection runs its deferred Delete
and CloseWithError in the same step.  A panic answers and does not close; it may
come from a handler, from a response that is nil or cannot be encoded, or from
ReadRequest, since DecodeBytes panics on a length whose end wraps
(`tlv/decode.go:85`).  This library's encoder writes no such length; another
client that holds a key may.

**Hub** (hub and its handlers).  A step is one critical section or one channel
operation.  The Events channel is the log of everything put into it and a
count of what was taken.  Several SubscribeHandler calls may have the same
topic and session, and so the same key.  Unsubscribe removes by key, as in the
code, whether called by a handler's defer or by the application.  `Tcp` are the
sessions over TCP: one runs one handler at a time, and a cancelled context does not
end its writes.

**SlidingWindowLimiter**.  Allow and gc each hold the mutex, so each is one
step; Stop swaps under the lock and closes after it, so it is two.  `hist` and
`denial` are history variables.  An absent and an empty entry of the map are
the same, as they are to Allow.

**SlidingWindow** and **WindowCounter** (what a limiter promises, to its caller and
to a chain of limiters).  SlidingWindow remembers every admission and counts those
less than a window old; it has no pruning and no cleaner, and
SlidingWindowLimiter implements it with `now`, `hist` and `denial` as they are
(ImplementsWindow).  WindowCounter knows only a number per key, which rises by
one below the limit and falls as time passes; SlidingWindowLimiter implements it
with the length of what pruning would leave, and each limiter of Dispatch is one.

**TcpSession** (client and handleTCPConnection on one connection).  doTCP is a
snapshot under the mutex and then a round trip under the mutex, with the write
and the read as steps.  The server loop looks at the context and the timeouts
only at its top.  A request has a kind that says what will happen to it: served, unknown,
failing, too large, nested too deep, streamed, panicking, or with a length that
wraps, as only another client implementation writes it.  Nothing recovers here, so
each of the panics listed for SessionServer ends the process (Crash).  Only some ways out
of handleTCPConnection close the connection; the others leave it to the
runtime's finalizer, which is external, as is the client's.

**SessionRegistry** (what the session store promises).  An ID enters the store
at most once and never returns once it has left.  SessionServer implements it:
`opened` are the IDs of connections that reached `serving`, `live` those in the
store, and ImplementsRegistry is the abstract specification as a property.

**MediaTokens** (token store over ending sessions).  Validate is three steps,
since the session store has a lock of its own: the session may end right after
it was found alive.  The sessions are an instance of SessionRegistry, whose
steps are interleaved with those of the token store; so MediaTokens holds over
any store that keeps the promise, and SessionServer does.

**StreamContract** (what handleStream promises on each stream).  A stream is refused
with a frame and its end, or given to a handler, after which there is a frame or
the end; after a recovered panic, of the handler or of the reading before it, a
frame and no end.  SessionServer and
QuicSession both implement it: the first hides the two checks, Touch and the wait
for the request behind `open`, the second has the keys instead.

**Handshake** (both ends, symbolically; no state).  `ClientInit` is the message,
with the length taken modulo 2^16 as the code does; `Known` is what the server
takes; a session key is the pair of the shared secret and the API secret, so
keys are equal only if both are.  Of an ID too long for its length field the
server reads a prefix, and ID bytes where the public key should be.

**QuicSession** (EXTENDS Handshake; client and server on one QUIC connection).
Dial follows dialQUIC, each Do has a stream of its own, and handleStream
appears as far as the client can see it: SessionServer has its checks in
detail, so here the expired session is a choice.  `credit` is the number of
streams quic-go lets the client open.  It grows only when the server
meets the end of the client's side, which handleStream does not wait for: only
a stream closed without a request gives it back, or one that a stream handler, which
has the whole stream, reads to its end.

**Dispatch** (registry, lookup, middleware).  Use and Handle are calls given as
constants, each made once at any time by any goroutine.  Use holds the mutex for
two steps, so that a Handle, which reads the slice without it, can come in
between: it then sees the slice before, or after, or grown with a nil element,
and the last ends the process.  A response that is nil or cannot be encoded panics
in the server, outside of all layers.  `inForce` remembers the layers whose Use had
returned.  A request walks through `wrapped[via[r]]` from the outside in.  A
limiter is a count per key of what its window holds, up by one when Allow
admits, down by one when time passes: a WindowCounter.

**Tlv** (codec and DecodeAll).  The decoders are functions from byte sequences
to `<<"ok", value, bytes used>>`, `<<"eof">>`, `<<"error">>` or `<<"panic">>`.  A
byte has 2 * Base values and a varint VarintLen digits, so that the carry, the
overlong number and the wrap of a 64-bit sum occur at small sizes.  The state
machine is a stream: values encoded onto it, or chunks somebody else wrote, a
cut, and DecodeAll.  Maps are kept by **TlvMap**, the operators Set and Get on
sequences of entries; **Dictionary** is what a map means, a function that Put
changes at one key.

Fixed abstractions: payloads and ciphertexts are not represented outside of Tlv
and Handshake; what a
handler does is a choice of outcome; a stream handler that closes the stream itself
is taken to do so when it returns; the clock is a counter.  Definitions
called `Mut...` are deliberately wrong variants of the definition after them.
Each is meant to violate one property when put in its place.

## 3. Runs

| Run | Shows | Instance |
|---|---|---|
| `session` | safety of the serve path and the store, which implements SessionRegistry | 2 connections, 2 streams, idle timeout 1 (default), lifetime 2, clock to 3 |
| `session_live` | sessions leave the store | 2 connections, 1 stream, lifetime 1 (default), clock to 2 |
| `hub` | registry, channels, liveness of handlers and publishers | 2 topics, 2 sessions, 2 handlers, 1 publisher of 2 events, capacity 1 |
| `hub_resubscribe` | **violation**: a running subscriber nobody reaches | the same, 1 event |
| `limiter` | window and stop protocol; pruning and cleaning decide as SlidingWindow does | limit 1 + 1, window 2, clock to 7, 2 stoppers, 2 cleaners |
| `tcp` | own answers; Do, Close and the server's session end | 2 Do calls, 1 Close, all kinds |
| `tcp_stream` | **violation**: Do waits for ever | 1 Do |
| `tcp_panic` | **violation**: a panic while a request is served ends the server | 1 Do |
| `media` | no stale grant, no wrong refusal | 2 tokens, 2 sessions, 2 requests, TTL 1, clock to 3 |
| `quic` | key agreement, authentic handlers, Do returns | 2 Do calls, 1 Close, 7 kinds of API key, credit for 1 request |
| `dispatch` | layers guard handlers, nobody is locked out | 2 Use and 2 Handle calls, 2 sessions (QUIC, TCP), 3 requests, 2 limiters of limit 1 |
| `tlv` | round trip, truncation, normal form | bytes of 8 values, varints of 3 digits, payload 10, depth 4; 17 values, streams of 2; foreign streams of 5 chunks |

Why the bounds suffice to meet the interesting cases: every race here is
between two actors (two handshakes, two streams of a session, two handlers of
a key, two stoppers, two Do calls, two validations) and every timeout passes
within the clock's range with at least one tick to spare, so before, at and
after the limit all occur.  A channel of capacity 1 is empty, full and
overfull.  In the limiter the clock spans three windows.  The safety
properties are proved without these bounds (section 5).  The streams of a
QUIC connection share only its credit, so two Do calls meet every case: one gets
the last stream and the other waits.  In `dispatch` a Use with two layers and
another with two more fall before, between and after two Handle calls; a limit of
1 is reached at once.  In `tlv` the values lie on both sides of each limit.  The
first byte of a foreign stream is every type code and two that are none, and
five chunks hold a nested value with a length of two digits.  One key is enough for
the limiter, since keys share only the mutex, and one served connection for
TcpSession, since connections share only the store.

Symmetry is used for runs without liveness only.  Deadlock is not checked: a server all
of whose connections and requests have ended, with the clock at its bound, has
nothing left to do.

## 4. Fairness

- SessionServer: goroutines that can run do; the GC ticker keeps firing;
  AcceptStream returns on a cancelled context or closed connection.  Nothing
  is assumed of peers, of ReadRequest or of handlers, so a stalled handshake or
  handler may stay for ever, and the properties hold all the same.
- Hub: a `select` picks among ready cases at random, so `done` or `ctx.Done`
  is not passed over for ever although events keep arriving (strong fairness
  of Stop).  Over QUIC a write returns once the context is cancelled, since
  handleConnection then closes the connection.  Before that a client may stop
  reading for ever, which is why RemovedLeaves has a premise.  Over TCP nothing
  closes the connection on a cancellation, so no fairness is assumed of those
  writes, and ShutdownEmpties has the premise that no TCP client keeps its handler
  in a write for ever; without it the handler stays registered.
- SlidingWindowLimiter: a cleaner whose channel is closed leaves, and Stop
  runs to its end.
- TcpSession: runnable goroutines run and handlers return; a waiter gets the
  mutex; the garbage collector eventually runs the finalizer on an unreachable
  socket.  The last one is what DoReturns and SessionReclaimed rest on after an
  undecodable request, where the code itself closes nothing.
- MediaTokens, Tlv: none, only safety is claimed.
- QuicSession: goroutines of both ends run and handlers return.  Nothing is
  assumed of contexts, of the network or of Close; a Do without stream credit
  may wait for ever, and DoReturns says so.
- Dispatch: Use finishes its append; requests run, handlers return, and clients
  ask again; the window lets go of what it counts.  Weak fairness is enough for SessionServed.  Its premises leave out what the code
  does not promise: a limiter key shared with another session, a limiter asked
  twice for one request, a limit of zero.

DoReturns, CloseReturns, SessionReclaimed and OwnResponse are restricted to
clients that do not call stream opcodes (`Unary`); `tcp_stream` shows that
without this they fail.  SessionReclaimed says that the session is gone for good:
Close may come before the server has stored it.

## 5. Proofs

Every theorem is about the specification with arbitrary constants under the
module's one ASSUME (timeouts and bounds are numbers of the right sign, the
"no one" value is not a member, constant functions have the types they need).
TLC evaluates the ASSUMEs in every run.

- **SessionServerProofs.**  Type correctness; StoreInv: IDs drawn are between 1
  and nextID, distinct, and the store holds the sessions of serving
  connections unless expired.  StoreOwned is that the store holds only sessions
  being served, and that an entry leaves with its own connection or past its lifetime:
  a deferred Delete takes no other's along.  UniqueIDs (IDs drawn are distinct) alone is not
  inductive, since the next ID must exceed all drawn.  AdmittedIsStored and DormantForever are action
  properties proved from the types, the invariant and that a stream beyond
  `none` belongs to a connection that has a session.  StoreImplementsRegistry:
  Register is an Open (the ID is new because IDs are unique and nobody else who
  reached `serving` has it), GC and the deferred Delete are an End, or nothing
  if they remove nothing, and every other step leaves both sets alone.
  StreamsKeepContract shows each step of a stream to be one of StreamContract or
  none; it needs OneAnswer, that nothing is written or closed before `done`.
  UseFollowsCreation is about LastUsed, which streams write without a lock: two
  Touch calls may overtake each other and set it back, but UseInv (the times in
  flight lie between the creation and now as well) keeps it after the creation,
  since no stream exists before its session.  LongIdleTimeoutIsMoot follows.
  IDsAreFinal needs that a connection without a number has ID 0.
- **HubProofs.**  RegistryInv relates topics, registry and handler positions in one
  induction.  ChannelInv strengthens InOrderOnce: everything in a channel is
  no newer than what its publisher has started, and while a publisher still
  has the channel in `dest` its current event is not in it.
  From RegistryInv follow also HubEmptiesWithHandlers, the part of ShutdownEmpties that
  is safety, RemovalIsFinal, and QuietIsFinal: sends run outside the lock, so
  a removed channel may still get the events of publishers that had it in `dest`, and
  then none.  EventsFollowSubscription is the same at the other end.
- **SlidingWindowLimiterProofs.**  Lemmas say what Prune returns for a sorted
  sequence.  WindowInv: `entries[k]` is a suffix of `hist[k]`, `hist[k]` is
  sorted, and everything not in the suffix is at least a window old.  From this
  RateBound and DeniedOnlyAtLimit follow.  LimiterImplementsWindow rests on
  HeldAreRecent: what pruning leaves of the entries is as many as the admissions
  in the history less than a window old, so the code's comparison with the limit
  is SlidingWindow's, also after the cleaner.  LimiterImplementsCounter adds that
  this number rises by one with an admission (HeldRises) and otherwise falls
  (HeldFalls).  StopInv: every channel made has exactly one owner until it is
  closed.
  LimiterMemoryIsBounded is inductive by itself once PruneShortens says that
  pruning never lengthens what it is given.
- **TcpSessionProofs.**  OwnResponse rests on MuInv (a call is reading exactly
  when it holds the mutex) and WireInv: of requests and responses on the
  wire there is at most one, that of the mutex holder, apart from a
  SessionExpired notice at the end.  PendingInv is the converse: while the mutex
  holder reads there is one, or the server works on it, or an end is gone.  From
  it NobodyWaitsInVain follows, the part of DoReturns and CloseReturns that is
  safety.
  SessionEndsWithLoop is the part of
  SessionReclaimed that is safety; it also holds with stream handlers.
- **MediaTokensProofs.**  The invariant says that void tokens stay void, that a
  token missing from the map although issued is void, and that a request past
  its checks was not called on a void token.
  LossIsFinal is the step form of the first two.  StoreLockIsReleased: the lock is held
  exactly by the request between its checks.
- **QuicSessionProofs.**  KeysAgree is a lemma about Handshake alone: for every
  key store and client key the derived keys are equal exactly if the ID fits its
  length field and the secret is the right one.  KeyAgreement follows once an
  invariant ties the two sessions to one number; HandlerAuthentic needs in
  addition that a stream past `read`, and a response the client could read, imply
  equal keys.  QuicStreamsKeepContract is the refinement of StreamContract, from
  AnswerInv: only a stream handler writes before the end, nobody closes before,
  and a stream that is over has been written to or closed.  With WaitInv (a
  negotiated handleConnection stays while the connection does) this gives
  NoDoWaitsInVain, the safety part of DoReturns.
  HandlersWithinLimit bounds the goroutines of handleStream that run for a session:
  CreditInv says that the credit left, the streams whose credit the server cannot have
  given back yet (Held) and the handshake's own stream never exceed MaxStreams.  It
  needs a call's and its stream's states to fit each other (CallsInOrder).
- **DispatchProofs.**  Guarded speaks of the layers in force when Handle was
  called, the request walks through those Handle saw.  The invariant has three
  parts: Chains (the first are a prefix of the second once Handle has wrapped),
  Settled (a registered handler, and one a request uses, belongs to a call that
  is done, so its layers no longer change) and Behind (a request at layer n was let
  through by the n - 1 before it, and was counted by limiters among those only).
  LimitersAreCounters shows every limiter to be a WindowCounter, so that the
  summary in Dispatch is one SlidingWindowLimiter implements.
  ChainsAreFixed follows from Settled.  RefusalsHaveReasons is an action property:
  every step that turns a request away before its handler shows one of the reasons
  listed; it is the part of SessionServed that is safety.  RegistryLockIsReleased: the lock is held
  exactly by the Use between its lock and its append.
- **TlvMapProofs.**  A map as a state machine: NewMap, then any Sets.  Its keys stay
  unique and in place, and it implements Dictionary.  The lemma GetAfterSet says
  what Set does to every Get, and needs the uniqueness it preserves.

Only model-checked: all liveness properties, since the prover does not handle
fairness or ENABLED (their safety parts are NobodyWaitsInVain, NoDoWaitsInVain,
SessionEndsWithLoop, HubEmptiesWithHandlers and RefusalsHaveReasons);
and DecodesWhatWasWritten and DecodesToNormalForm of Tlv, whose decoders are
recursive: what a recursive definition computes for every input is beyond the
prover.  TlvMapProofs is as far as it goes: the decoder builds its maps with Set,
so its part of the normal form, no key twice, is proved for maps of any size.

## 6. Disagreements with the documentation

The three violation runs and the entries under `findings` in `PROJECT.json`
state the gravest with the quoted lines.  Others met while modelling:

- `server/ratelimit.go:131`: "Zero values disable that level."  Allow denies
  when the limit is reached, so a level of zero without a burst denies everything.
- `client/client.go:274`: "Close closes the client connection."  After a failed
  round trip doTCP has dropped the pointer without closing the connection, and
  Close finds nothing to close; the finalizer does it.
- `CONTRIBUTING.md:59` expects the race detector to pass; Touch and IsIdleDead of
  two streams access LastUsed without a lock, and so do Handle and Use the slice
  of middleware.
- `server/middleware.go:66`: "RecoveryMiddleware catches panics in downstream
  handlers."  It returns neither response nor error, and the server then
  dereferences the response: over QUIC the server's own recover answers, over TCP
  the process ends.
- `server/middleware.go:140`: "per remote IP address".  The address holds the port,
  so each connection has a limit of its own.
- `server/middleware.go:127`: anonymous clients share the limiter key of an API
  key whose ID is "anonymous".
- `server/handler.go:29`: the server will not call WriteResponse or Close for a
  StreamHandler; `server/server.go:512` closes the stream.
- `server/handler.go:42`: a StreamHandlerFunc given to Handle is said to answer with an
  error.  It is served as a stream handler unless some middleware hides it.
- The context of a stream handler is made before the session values are added to
  it (`server/server.go:445`, `:495`), so SessionIDFromContext finds none; over TCP
  it does, and there the context grows with each request (`:338`).
- `tlv/decode.go:13`: "maximum nesting depth for composite types".  Each map costs
  two levels.
- `tlv/decode.go:48`: "reads all TLV values from r until EOF".  A stream that ends
  right after a type or a length byte is taken for complete.
- `tlv/decode.go:85`: the sum may wrap, and then DecodeBytes panics instead of
  returning an error; ReadRequest passes the panic on, which handleStream recovers
  and handleTCPConnection does not.
- `frame/response.go:65`: EncodeResponse returns an error, but a payload that cannot be
  encoded panics in MustEncodeMap, after every RecoveryMiddleware.
- `tlv/types.go:226`: "Clone returns a deep copy"; nested arrays and maps are shared.
- `media/media.go:29`: "0 = DefaultMaxTokenTTL", yet Validate and GC compare with
  the field as it is, so 0 makes every token expire at once.
- The server closes its side of a stream without reading to the end of the
  client's, so the stream credit of a QUIC connection is used up for good
  (`server/server.go:537`), unless a stream handler reads its streams to the end;
  quic-go's default is a hundred streams.

## 7. Not modelled

- Transport (`transport/`): thin wrappers that set TLS options around quic-go
  and crypto/tls.  They keep no state; their failures appear as a Dial that
  fails and a connection that is lost.
- Logger: writes text; changes no state the rest reads.
- Examples: applications of the library.
- The byte layout of frames: fixed-width fields without a loop or a choice; the
  outcomes of reading and writing one are in TcpSession and QuicSession.
- The mathematics of X25519, HKDF and AES-GCM, and random numbers: symbolic, or
  assumed distinct.
- Operations that only read and format: Len, Config, Topics, SubscriberCount,
  LookupHLS, Exists, BuildURL, resolveHushAddr, the typed getters of tlv.Map.

Where one module summarises another, the server side is proved to be the summary:
SessionServer implements SessionRegistry, over which MediaTokens is built, and
StreamContract, which QuicSession implements too; SlidingWindowLimiter implements
WindowCounter, which each limiter of Dispatch is.
