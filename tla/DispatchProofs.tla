--------------------------- MODULE DispatchProofs ---------------------------
(***************************************************************************)
(* TypeOK and Guarded of Dispatch, for any calls, layers, sessions and     *)
(* requests.                                                               *)
(***************************************************************************)
EXTENDS Dispatch, TLAPS

USE DispatchAssumption DEF registry, requests, vars

\* The layers end up around the handler in the order of the slice.
LEMMA WrapKeepsOrder ==
    ASSUME NEW mws \in Seq(Layers)
    PROVE  /\ Wrap(mws) \in Seq(Layers) /\ Len(Wrap(mws)) = Len(mws)
           /\ \A i \in 1..Len(mws) : Wrap(mws)[i] = mws[i]
BY DEF Wrap

\* The layer a request stands at is one of the layers there are, and its limiter
\* key is one of those limited.
LEMMA LayerType ==
    ASSUME TypeOK, NEW r \in Requests, NEW kind \in {"pass", "recover", "require", "limit"}, AtLayer(r, kind)
    PROVE  /\ via[r] \in Calls /\ pos[r] \in 1..Len(wrapped[via[r]])
           /\ Layer(r) \in Layers /\ Layer(r).limiter \in Limiters
           /\ LimitKey(Layer(r).by, SessionOf[r]) \in LimitKeys
<1>1. via[r] \in Calls /\ pos[r] \in 1..Len(wrapped[via[r]])
  BY DEF TypeOK, AtLayer
<1>2. Layer(r) \in Layers
  BY <1>1 DEF TypeOK, Layer
<1>3. Layer(r).limiter \in Limiters /\ Layer(r).by \in Bys
  BY <1>2 DEF Layers
<1> QED BY <1>1, <1>2, <1>3 DEF LimitKeys

\* What Answer, Proceed and MoveTo leave of the type invariant.
LEMMA AnswerType ==
    ASSUME TypeOK, NEW r \in Requests, Answer(r), UNCHANGED count
    PROVE  TypeOK'
BY DEF TypeOK, Answer

LEMMA ProceedType ==
    ASSUME TypeOK, NEW r \in Requests, Proceed(r), UNCHANGED <<charged, count>>
    PROVE  TypeOK'
BY DEF TypeOK, Proceed

LEMMA MoveType ==
    ASSUME TypeOK, NEW r \in Requests, NEW to \in {"body", "bad"}, MoveTo(r, to), rpc[r] # "idle"
    PROVE  TypeOK'
BY DEF TypeOK, MoveTo

LEMMA RecoverType ==
    ASSUME TypeOK, NEW r \in Requests, Recover(r)
    PROVE  TypeOK'
<1>1. CASE SessionOf[r] \in Tcp
  BY <1>1 DEF TypeOK, Recover
<1>2. CASE SessionOf[r] \notin Tcp
  BY <1>2, AnswerType DEF Recover
<1> QED BY <1>1, <1>2

LEMMA AllowType ==
    ASSUME TypeOK, NEW r \in Requests, Allow(r)
    PROVE  TypeOK'
<1>1. CASE ~Admitted(r)
  BY <1>1, AnswerType DEF Allow
<1>2. CASE Admitted(r)
  <2> DEFINE l == Layer(r).limiter
             k == LimitKey(Layer(r).by, SessionOf[r])
  <2>1. l \in Limiters /\ k \in LimitKeys
    BY LayerType DEF Allow
  <2>2. /\ count' = [count EXCEPT ![l][k] = @ + 1] /\ count[l][k] < Limit[l]
        /\ charged' = [charged EXCEPT ![r] = @ \cup {l}]
        /\ pos' = [pos EXCEPT ![r] = @ + 1] /\ UNCHANGED <<registry, rpc, via, crashed>>
    BY <1>2 DEF Allow, Admitted, Proceed
  <2> HIDE DEF l, k
  <2>3. count' \in [Limiters -> [LimitKeys -> Nat]]
    BY <2>1, <2>2 DEF TypeOK
  <2>4. \A m \in Limiters, j \in LimitKeys : count'[m][j] <= Limit[m]
    <3> SUFFICES ASSUME NEW m \in Limiters, NEW j \in LimitKeys PROVE count'[m][j] <= Limit[m]
      OBVIOUS
    <3>1. CASE m = l /\ j = k
      BY <3>1, <2>1, <2>2 DEF TypeOK
    <3>2. CASE ~(m = l /\ j = k)
      BY <3>2, <2>1, <2>2 DEF TypeOK
    <3> QED BY <3>1, <3>2
  <2>5. charged' \in [Requests -> SUBSET Limiters] /\ pos' \in [Requests -> Nat \ {0}]
    BY <2>1, <2>2 DEF TypeOK
  <2> QED BY <2>2, <2>3, <2>4, <2>5 DEF TypeOK
<1> QED BY <1>1, <1>2

LEMMA InitType == Init => TypeOK
<1> SUFFICES ASSUME Init PROVE TypeOK
  OBVIOUS
<1>1. count \in [Limiters -> [LimitKeys -> Nat]] /\ \A l \in Limiters, k \in LimitKeys : count[l][k] <= Limit[l]
  BY DEF Init
<1>2. inForce \in [Calls -> Seq(Layers)] /\ wrapped \in [Calls -> Seq(Layers)]
  BY DEF Init
<1>3. middlewares \in [{"Use", "UseStream"} -> Seq(Layers)] /\ handlers \in [Opcodes -> Calls \cup {NoCall}]
  BY DEF Init
<1>4. charged \in [Requests -> SUBSET Limiters] /\ pos \in [Requests -> Nat \ {0}]
  BY DEF Init
<1>5. /\ rpc \in [Requests -> {"idle", "layer", "body", "bad"}] /\ via \in [Requests -> Calls \cup {NoCall}]
      /\ \A r \in Requests : rpc[r] = "idle"
  BY DEF Init
<1>6. cpc \in [Calls -> {"none", "locked", "wrapped", "done"}] /\ mu \in Calls \cup {NoCall} /\ crashed \in BOOLEAN
  BY DEF Init
<1> QED BY <1>1, <1>2, <1>3, <1>4, <1>5, <1>6 DEF TypeOK

LEMMA NextType == TypeOK /\ [Next]_vars => TypeOK'
<1> SUFFICES ASSUME TypeOK, [Next]_vars PROVE TypeOK'
  OBVIOUS
<1>1. ASSUME NEW c \in Calls, UseLock(c) PROVE TypeOK'
  BY <1>1 DEF UseLock, TypeOK
<1>2. ASSUME NEW c \in Calls, UseAppend(c) PROVE TypeOK'
  <2>1. CallOf[c].layers \in Seq(Layers) /\ SliceOf(c) \in {"Use", "UseStream"}
    BY DEF SliceOf
  <2>2. middlewares' \in [{"Use", "UseStream"} -> Seq(Layers)]
    BY <2>1, <1>2 DEF UseAppend, TypeOK
  <2> QED BY <2>2, <1>2 DEF UseAppend, TypeOK
<1>3. ASSUME NEW c \in Calls, HandleWrap(c) PROVE TypeOK'
  <2>1. SliceOf(c) \in {"Use", "UseStream"} /\ middlewares[SliceOf(c)] \in Seq(Layers)
    BY DEF SliceOf, TypeOK
  <2>2. PICK mws \in Seq(Layers) : wrapped' = [wrapped EXCEPT ![c] = Wrap(mws)]
    <3>1. Racing(c) => middlewares[SliceOf(c)] \o CallOf[mu].layers \in Seq(Layers)
      BY <2>1 DEF Racing, TypeOK
    <3> QED BY <2>1, <3>1, <1>3 DEF HandleWrap
  <2>3. wrapped' \in [Calls -> Seq(Layers)]
    BY <2>2, WrapKeepsOrder DEF TypeOK
  <2>4. inForce' \in [Calls -> Seq(Layers)]
    BY <2>1, <1>3 DEF HandleWrap, TypeOK
  <2> QED BY <2>3, <2>4, <1>3 DEF HandleWrap, TypeOK
<1>4. ASSUME NEW c \in Calls, HandleNil(c) PROVE TypeOK'
  BY <1>4 DEF HandleNil, TypeOK
<1>5. ASSUME NEW c \in Calls, HandleStore(c) PROVE TypeOK'
  BY <1>5 DEF HandleStore, TypeOK
<1>6. ASSUME NEW r \in Requests, Lookup(r) PROVE TypeOK'
  BY <1>6 DEF Lookup, TypeOK
<1>7. ASSUME NEW r \in Requests, Pass(r) PROVE TypeOK'
  BY <1>7, ProceedType DEF Pass
<1>8. ASSUME NEW r \in Requests, Require(r) PROVE TypeOK'
  BY <1>8, ProceedType, AnswerType DEF Require
<1>9. ASSUME NEW r \in Requests, Enter(r) PROVE TypeOK'
  BY <1>9, AnswerType, MoveType DEF Enter
<1>10. ASSUME NEW r \in Requests, Return(r) PROVE TypeOK'
  BY <1>10, AnswerType, MoveType DEF Return
<1>11. ASSUME NEW r \in Requests, Panic(r) PROVE TypeOK'
  BY <1>11, RecoverType, MoveType DEF Panic
<1>12. ASSUME NEW r \in Requests, BadResponse(r) PROVE TypeOK'
  BY <1>12, RecoverType DEF BadResponse
<1>13. ASSUME NEW l \in Limiters, NEW k \in LimitKeys, AgeOut(l, k) PROVE TypeOK'
  BY <1>13 DEF AgeOut, TypeOK
<1>14. CASE UNCHANGED vars
  BY <1>14 DEF TypeOK
<1> QED BY <1>1, <1>2, <1>3, <1>4, <1>5, <1>6, <1>7, <1>8, <1>9, <1>10, <1>11, <1>12, <1>13, <1>14,
           AllowType DEF Next, Register, Serve

\* The state keeps its shape, and no limiter admits more than its limit, whatever
\* goroutines register and however many requests are in flight.
THEOREM DispatchTypeCorrect == Spec => []TypeOK
BY InitType, NextType, PTL DEF Spec

(***************************************************************************)
(* Guarded is not inductive: it needs to know that the layers in force are *)
(* the outermost of those around the handler, that a handler in use is     *)
(* never wrapped again, and what a request has behind it at its place.     *)
(***************************************************************************)
Chains ==
    \A c \in Calls : /\ Len(inForce[c]) <= Len(wrapped[c])
                     /\ \A i \in 1..Len(inForce[c]) : inForce[c][i] = wrapped[c][i]

Settled ==
    /\ \A o \in Opcodes : handlers[o] # NoCall => cpc[handlers[o]] = "done"
    /\ \A r \in Requests : via[r] # NoCall => cpc[via[r]] = "done"

Behind(r) ==
    IF rpc[r] = "idle" THEN pos[r] = 1 /\ charged[r] = {}
    ELSE LET ms == wrapped[via[r]] IN
        /\ \A i \in 1..Len(ms) : i < pos[r] => LetThrough(ms[i], r)
        /\ \A l \in charged[r] : \E k \in 1..Len(ms) :
               k < pos[r] /\ ms[k].kind = "limit" /\ ms[k].limiter = l
        /\ rpc[r] \in {"body", "bad"} => pos[r] > Len(ms)

IInv == TypeOK /\ Chains /\ Settled /\ \A r \in Requests : Behind(r)

\* What a request has behind it changes only with its own state and its handler's
\* layers.
LEMMA BehindFrame ==
    ASSUME NEW q \in Requests, Behind(q),
           rpc'[q] = rpc[q], pos'[q] = pos[q], charged'[q] = charged[q], via'[q] = via[q],
           rpc[q] # "idle" => wrapped'[via[q]] = wrapped[via[q]]
    PROVE  Behind(q)'
<1>1. CASE rpc[q] = "idle"
  BY <1>1 DEF Behind
<1>2. CASE rpc[q] # "idle"
  <2>1. PICK ms, ch, p : ms = wrapped[via[q]] /\ ch = charged[q] /\ p = pos[q]
    OBVIOUS
  <2>2. ms = wrapped'[via'[q]] /\ ch = charged'[q] /\ p = pos'[q]
    BY <1>2, <2>1
  <2>3. ASSUME NEW m PROVE LetThrough(m, q)' <=> LetThrough(m, q)
    BY <2>1, <2>2 DEF LetThrough
  <2> QED BY <1>2, <2>1, <2>2, <2>3 DEF Behind
<1> QED BY <1>1, <1>2

\* The actions of a request leave the registry alone.
LEMMA RequestKeeps ==
    ASSUME IInv, TypeOK', UNCHANGED registry, NEW r \in Requests,
           via' = via \/ via' = [via EXCEPT ![r] = NoCall] \/ via' = [via EXCEPT ![r] = handlers[OpcodeOf[r]]],
           \A q \in Requests \ {r} : rpc'[q] = rpc[q] /\ pos'[q] = pos[q] /\ charged'[q] = charged[q],
           Behind(r)'
    PROVE  IInv'
<1>1. Chains'
  BY DEF IInv, Chains
<1>2. Settled'
  <2>1. \A o \in Opcodes : handlers'[o] # NoCall => cpc'[handlers'[o]] = "done"
    BY DEF IInv, Settled
  <2>2. ASSUME NEW q \in Requests, via'[q] # NoCall PROVE cpc'[via'[q]] = "done"
    <3>1. CASE via'[q] = via[q]
      BY <3>1, <2>2 DEF IInv, Settled
    <3>2. CASE via'[q] = handlers[OpcodeOf[r]]
      BY <3>2, <2>2 DEF IInv, Settled
    <3> QED BY <3>1, <3>2, <2>2 DEF IInv, TypeOK
  <2> QED BY <2>1, <2>2 DEF Settled
<1>3. ASSUME NEW q \in Requests \ {r} PROVE Behind(q)'
  <2>1. via'[q] = via[q]
    BY DEF IInv, TypeOK
  <2> QED BY <2>1, BehindFrame DEF IInv
<1> QED BY <1>1, <1>2, <1>3 DEF IInv

LEMMA AnswerKeeps ==
    ASSUME IInv, TypeOK', NEW r \in Requests, Answer(r)
    PROVE  IInv'
<1>1. Behind(r)'
  <2>1. rpc'[r] = "idle" /\ pos'[r] = 1 /\ charged'[r] = {}
    BY DEF Answer, IInv, TypeOK
  <2> QED BY <2>1 DEF Behind
<1>2. \A q \in Requests \ {r} : rpc'[q] = rpc[q] /\ pos'[q] = pos[q] /\ charged'[q] = charged[q]
  BY DEF Answer, IInv, TypeOK
<1> QED BY <1>1, <1>2, RequestKeeps DEF Answer

LEMMA MoveKeeps ==
    ASSUME IInv, TypeOK', NEW r \in Requests, NEW to \in {"body", "bad"}, MoveTo(r, to),
           rpc[r] # "idle", pos[r] > Len(wrapped[via[r]])
    PROVE  IInv'
<1>1. Behind(r)'
  BY DEF MoveTo, Behind, LetThrough, IInv, TypeOK
<1>2. \A q \in Requests \ {r} : rpc'[q] = rpc[q] /\ pos'[q] = pos[q] /\ charged'[q] = charged[q]
  BY DEF MoveTo, IInv, TypeOK
<1> QED BY <1>1, <1>2, RequestKeeps DEF MoveTo

\* A layer that lets the request through is behind it afterwards.
LEMMA ProceedKeeps ==
    ASSUME IInv, TypeOK', NEW r \in Requests, Proceed(r),
           NEW kind \in {"pass", "recover", "require", "limit"}, AtLayer(r, kind),
           NEW m, m = Layer(r), LetThrough(m, r)',
           charged[r] \subseteq charged'[r],
           \A l \in charged'[r] \ charged[r] : m.kind = "limit" /\ m.limiter = l,
           \A q \in Requests \ {r} : charged'[q] = charged[q]
    PROVE  IInv'
<1>1. PICK ms, p : ms = wrapped[via[r]] /\ p = pos[r]
  OBVIOUS
<1>2. /\ rpc[r] = "layer" /\ rpc'[r] = "layer" /\ p \in 1..Len(ms) /\ pos'[r] = p + 1
      /\ wrapped'[via'[r]] = ms /\ m = ms[p] /\ Len(ms) \in Nat
  BY <1>1, LayerType DEF Proceed, AtLayer, Layer, IInv, TypeOK
<1>3. Behind(r)'
  <2>1. ASSUME NEW i \in 1..Len(ms), i < p + 1 PROVE LetThrough(ms[i], r)'
    <3>1. CASE i = p
      BY <3>1, <1>2
    <3>2. CASE i < p
      <4>1. LetThrough(ms[i], r)
        BY <3>2, <1>1, <1>2 DEF IInv, Behind
      <4> QED BY <4>1 DEF LetThrough
    <3> QED BY <3>1, <3>2, <2>1, <1>2
  <2>2. ASSUME NEW l \in charged'[r]
        PROVE  \E k \in 1..Len(ms) : k < p + 1 /\ ms[k].kind = "limit" /\ ms[k].limiter = l
    <3>1. CASE l \in charged[r]
      <4>1. PICK k \in 1..Len(ms) : k < p /\ ms[k].kind = "limit" /\ ms[k].limiter = l
        BY <3>1, <1>1, <1>2 DEF IInv, Behind
      <4> QED BY <4>1, <1>2
    <3>2. CASE l \notin charged[r]
      BY <3>2, <1>2
    <3> QED BY <3>1, <3>2
  <2>3. \A i \in 1..Len(ms) : i < p + 1 => LetThrough(ms[i], r)'
    BY <2>1, Zenon
  <2>4. \A l \in charged'[r] : \E k \in 1..Len(ms) :
            k < p + 1 /\ ms[k].kind = "limit" /\ ms[k].limiter = l
    BY <2>2, Zenon
  <2>5. ~(rpc'[r] = "idle") /\ ~(rpc'[r] \in {"body", "bad"})
    BY <1>2
  <2>6. wrapped'[via'[r]] = ms /\ pos'[r] = p + 1
    BY <1>2, Zenon
  <2>7. \A i \in 1..Len(wrapped'[via'[r]]) : i < pos'[r] => LetThrough(wrapped[via[r]][i], r)'
    BY <2>3, <2>6 DEF LetThrough
  <2>8. \A l \in charged'[r] : \E k \in 1..Len(wrapped'[via'[r]]) :
            k < pos'[r] /\ wrapped'[via'[r]][k].kind = "limit" /\ wrapped'[via'[r]][k].limiter = l
    <3> SUFFICES ASSUME NEW l \in charged'[r]
                 PROVE  \E k \in 1..Len(wrapped'[via'[r]]) : k < pos'[r]
                          /\ wrapped'[via'[r]][k].kind = "limit" /\ wrapped'[via'[r]][k].limiter = l
      BY Zenon
    <3>1. PICK k \in 1..Len(ms) : k < p + 1 /\ ms[k].kind = "limit" /\ ms[k].limiter = l
      BY <2>4
    <3>2. k \in 1..Len(wrapped'[via'[r]]) /\ k < pos'[r]
      BY <3>1, <2>6
    <3>3. wrapped'[via'[r]][k].kind = "limit" /\ wrapped'[via'[r]][k].limiter = l
      BY <3>1, <2>6
    <3> QED BY <3>2, <3>3, Zenon
  <2> QED BY <2>5, <2>7, <2>8, Zenon DEF Behind
<1>4. \A q \in Requests \ {r} : rpc'[q] = rpc[q] /\ pos'[q] = pos[q] /\ charged'[q] = charged[q]
  BY DEF Proceed, IInv, TypeOK
<1> QED BY <1>3, <1>4, RequestKeeps DEF Proceed

LEMMA RecoverKeeps ==
    ASSUME IInv, TypeOK', NEW r \in Requests, Recover(r)
    PROVE  IInv'
<1>1. CASE SessionOf[r] \in Tcp
  <2>1. \A q \in Requests : Behind(q)'
    BY <1>1, BehindFrame DEF Recover, IInv
  <2> QED BY <2>1, <1>1 DEF Recover, IInv, Chains, Settled
<1>2. CASE SessionOf[r] \notin Tcp
  BY <1>2, AnswerKeeps DEF Recover
<1> QED BY <1>1, <1>2

\* Handle leaves wrapped layers alone, except those of the call it is about.
LEMMA WrapKeeps ==
    ASSUME IInv, TypeOK', NEW c \in Calls, HandleWrap(c)
    PROVE  IInv'
<1>1. SliceOf(c) \in {"Use", "UseStream"} /\ middlewares[SliceOf(c)] \in Seq(Layers)
  BY DEF SliceOf, IInv, TypeOK
<1>2. PICK mws \in Seq(Layers) :
        /\ wrapped' = [wrapped EXCEPT ![c] = Wrap(mws)]
        /\ Len(middlewares[SliceOf(c)]) <= Len(mws)
        /\ \A i \in 1..Len(middlewares[SliceOf(c)]) : mws[i] = middlewares[SliceOf(c)][i]
  <2>1. PICK mws : /\ wrapped' = [wrapped EXCEPT ![c] = Wrap(mws)]
                   /\ \/ mws = middlewares[SliceOf(c)]
                      \/ Racing(c) /\ mws = middlewares[SliceOf(c)] \o CallOf[mu].layers
    BY DEF HandleWrap
  <2>2. /\ mws \in Seq(Layers) /\ Len(middlewares[SliceOf(c)]) <= Len(mws)
        /\ \A i \in 1..Len(middlewares[SliceOf(c)]) : mws[i] = middlewares[SliceOf(c)][i]
    <3> DEFINE old == middlewares[SliceOf(c)]
    <3>1. CASE mws = old
      BY <1>1, <3>1
    <3>2. CASE Racing(c) /\ mws = old \o CallOf[mu].layers
      <4>1. CallOf[mu].layers \in Seq(Layers)
        BY <3>2 DEF Racing, IInv, TypeOK
      <4> HIDE DEF old
      <4>2. old \in Seq(Layers)
        BY <1>1 DEF old
      <4>3. /\ mws \in Seq(Layers) /\ Len(old) <= Len(mws)
            /\ \A i \in 1..Len(old) : mws[i] = old[i]
        BY <3>2, <4>1, <4>2
      <4> QED BY <4>3 DEF old
    <3> QED BY <2>1, <3>1, <3>2
  <2> QED BY <2>1, <2>2
<1>3. Chains'
  <2> SUFFICES ASSUME NEW d \in Calls
               PROVE  /\ Len(inForce'[d]) <= Len(wrapped'[d])
                      /\ \A i \in 1..Len(inForce'[d]) : inForce'[d][i] = wrapped'[d][i]
    BY DEF Chains
  <2>1. CASE d = c
    <3>1. inForce'[d] = middlewares[SliceOf(c)] /\ wrapped'[d] = Wrap(mws)
      BY <2>1, <1>2 DEF HandleWrap, IInv, TypeOK
    <3> QED BY <3>1, <1>1, <1>2, WrapKeepsOrder
  <2>2. CASE d # c
    BY <2>2, <1>2 DEF HandleWrap, IInv, TypeOK, Chains
  <2> QED BY <2>1, <2>2
<1>4. Settled'
  BY DEF HandleWrap, IInv, TypeOK, Settled
<1>5. ASSUME NEW q \in Requests PROVE Behind(q)'
  <2>1. rpc[q] # "idle" => via[q] \in Calls /\ via[q] # c
    BY DEF HandleWrap, IInv, TypeOK, Settled
  <2>2. rpc[q] # "idle" => wrapped'[via[q]] = wrapped[via[q]]
    BY <2>1, <1>2 DEF IInv, TypeOK
  <2> QED BY <2>2, BehindFrame DEF HandleWrap, IInv
<1> QED BY <1>3, <1>4, <1>5 DEF IInv

\* The strengthened invariant.
LEMMA DispatchInvariant == Spec => []IInv
<1>1. Init => IInv
  <2> SUFFICES ASSUME Init PROVE IInv
    OBVIOUS
  <2>1. TypeOK
    BY InitType
  <2>2. Chains /\ Settled
    BY DEF Init, Chains, Settled
  <2>3. \A r \in Requests : Behind(r)
    BY DEF Init, Behind
  <2> QED BY <2>1, <2>2, <2>3 DEF IInv
<1>2. IInv /\ [Next]_vars => IInv'
  <2> SUFFICES ASSUME IInv, [Next]_vars PROVE IInv'
    OBVIOUS
  <2>0. TypeOK'
    BY NextType DEF IInv
  <2>1. ASSUME NEW c \in Calls, UseLock(c) \/ UseAppend(c) PROVE IInv'
    <3>1. \A q \in Requests : Behind(q)'
      BY <2>1, BehindFrame DEF UseLock, UseAppend, IInv
    <3>2. Chains'
      BY <2>1 DEF UseLock, UseAppend, IInv, Chains
    <3>3. \A d \in Calls : cpc[d] = "done" => cpc'[d] = "done"
      BY <2>1 DEF UseLock, UseAppend, IInv, TypeOK
    <3>4. handlers' = handlers /\ via' = via
      BY <2>1 DEF UseLock, UseAppend
    <3>5. Settled'
      BY <3>3, <3>4 DEF IInv, TypeOK, Settled
    <3> QED BY <2>0, <3>1, <3>2, <3>5 DEF IInv
  <2>2. ASSUME NEW c \in Calls, HandleNil(c) PROVE IInv'
    <3>1. \A q \in Requests : Behind(q)'
      BY <2>2, BehindFrame DEF HandleNil, IInv
    <3> QED BY <2>0, <2>2, <3>1 DEF HandleNil, IInv, Chains, Settled
  <2>3. ASSUME NEW c \in Calls, HandleStore(c) PROVE IInv'
    <3>1. \A q \in Requests : Behind(q)'
      BY <2>3, BehindFrame DEF HandleStore, IInv
    <3>2. Chains'
      BY <2>3 DEF HandleStore, IInv, Chains
    <3>3. \A d \in Calls : cpc'[d] = IF d = c THEN "done" ELSE cpc[d]
      BY <2>3 DEF HandleStore, IInv, TypeOK
    <3>4. \A o \in Opcodes : handlers'[o] = c \/ handlers'[o] = handlers[o]
      BY <2>3 DEF HandleStore, IInv, TypeOK
    <3>5. Settled'
      BY <2>3, <3>3, <3>4 DEF HandleStore, IInv, TypeOK, Settled
    <3> QED BY <2>0, <3>1, <3>2, <3>5 DEF IInv
  <2>4. ASSUME NEW r \in Requests, Lookup(r) PROVE IInv'
    <3>1. /\ rpc'[r] = "layer" /\ pos'[r] = 1 /\ charged'[r] = {}
          /\ \A q \in Requests \ {r} : rpc'[q] = rpc[q] /\ pos'[q] = pos[q] /\ charged'[q] = charged[q]
      BY <2>4 DEF Lookup, IInv, TypeOK, Behind
    <3>2. Behind(r)'
      BY <3>1 DEF Behind
    <3> QED BY <2>0, <2>4, <3>1, <3>2, RequestKeeps DEF Lookup
  <2>5. ASSUME NEW r \in Requests, Pass(r) PROVE IInv'
    <3>1. PICK m : m = Layer(r)
      OBVIOUS
    <3>2. LetThrough(m, r)' /\ charged' = charged /\ Proceed(r)
      BY <2>5, <3>1 DEF Pass, AtLayer, LetThrough
    <3>3. AtLayer(r, "pass") \/ AtLayer(r, "recover")
      BY <2>5 DEF Pass
    <3> QED BY <2>0, <3>1, <3>2, <3>3, ProceedKeeps
  <2>6. ASSUME NEW r \in Requests, Require(r) PROVE IInv'
    <3>1. CASE KeyOf[SessionOf[r]] \in Layer(r).allowed
      <4>1. PICK m : m = Layer(r)
        OBVIOUS
      <4>2. LetThrough(m, r)' /\ charged' = charged /\ Proceed(r) /\ AtLayer(r, "require")
        BY <2>6, <3>1, <4>1 DEF Require, AtLayer, LetThrough
      <4> QED BY <2>0, <4>1, <4>2, ProceedKeeps
    <3>2. CASE KeyOf[SessionOf[r]] \notin Layer(r).allowed
      BY <2>0, <2>6, <3>2, AnswerKeeps DEF Require
    <3> QED BY <3>1, <3>2
  <2>7. ASSUME NEW r \in Requests, Allow(r) PROVE IInv'
    <3>1. CASE Admitted(r)
      <4>1. PICK m : m = Layer(r)
        OBVIOUS
      <4>2. /\ AtLayer(r, "limit") /\ m.kind = "limit" /\ Proceed(r)
            /\ charged' = [charged EXCEPT ![r] = @ \cup {m.limiter}]
        BY <2>7, <3>1, <4>1 DEF Allow, AtLayer
      <4>3. charged'[r] = charged[r] \cup {m.limiter} /\ \A q \in Requests \ {r} : charged'[q] = charged[q]
        BY <4>2 DEF IInv, TypeOK
      <4>4. LetThrough(m, r)'
        BY <4>2, <4>3 DEF LetThrough
      <4> QED BY <2>0, <4>1, <4>2, <4>3, <4>4, ProceedKeeps
    <3>2. CASE ~Admitted(r)
      BY <2>0, <2>7, <3>2, AnswerKeeps DEF Allow
    <3> QED BY <3>1, <3>2
  <2>8. ASSUME NEW r \in Requests, Enter(r) PROVE IInv'
    BY <2>0, <2>8, AnswerKeeps, MoveKeeps DEF Enter
  <2>9. ASSUME NEW r \in Requests, rpc[r] \in {"body", "bad"} PROVE pos[r] > Len(wrapped[via[r]])
    BY <2>9 DEF IInv, Behind
  <2>10. ASSUME NEW r \in Requests, Return(r) PROVE IInv'
    BY <2>0, <2>9, <2>10, AnswerKeeps, MoveKeeps DEF Return
  <2>11. ASSUME NEW r \in Requests, Panic(r) PROVE IInv'
    BY <2>0, <2>9, <2>11, RecoverKeeps, MoveKeeps DEF Panic
  <2>12. ASSUME NEW r \in Requests, BadResponse(r) PROVE IInv'
    BY <2>0, <2>12, RecoverKeeps DEF BadResponse
  <2>13. ASSUME NEW l \in Limiters, NEW k \in LimitKeys, AgeOut(l, k) PROVE IInv'
    <3>1. \A q \in Requests : Behind(q)'
      BY <2>13, BehindFrame DEF AgeOut, IInv
    <3> QED BY <2>0, <2>13, <3>1 DEF AgeOut, IInv, Chains, Settled
  <2>14. CASE UNCHANGED vars
    <3>1. \A q \in Requests : Behind(q)'
      BY <2>14, BehindFrame DEF IInv
    <3> QED BY <2>0, <2>14, <3>1 DEF IInv, Chains, Settled
  <2> QED BY <2>0, <2>1, <2>2, <2>3, <2>4, <2>5, <2>6, <2>7, <2>8, <2>10, <2>11, <2>12, <2>13, <2>14,
             WrapKeeps DEF Next, Register, Serve
<1> QED BY <1>1, <1>2, PTL DEF Spec

\* No request that a layer in force turns away runs the handler or is counted by a
\* limiter inside that layer, for any layers, any calls and any interleaving of
\* Use, Handle and requests.
THEOREM LayersGuard == Spec => []Guarded
<1>1. IInv => Guarded
  <2> SUFFICES ASSUME IInv, NEW r \in Requests, rpc[r] # "idle",
                      NEW i \in 1..Len(inForce[via[r]]), Reached(r, i)
               PROVE  LetThrough(inForce[via[r]][i], r)
    BY DEF Guarded
  <2>1. PICK ms, ws : ms = inForce[via[r]] /\ ws = wrapped[via[r]]
    OBVIOUS
  <2>2. /\ Len(ms) \in Nat /\ Len(ws) \in Nat /\ Len(ms) <= Len(ws) /\ pos[r] \in Nat
        /\ \A k \in 1..Len(ms) : ms[k] = ws[k]
    BY <2>1 DEF IInv, TypeOK, Chains
  <2>3. i < pos[r]
    <3>1. CASE rpc[r] \in {"body", "bad"}
      BY <3>1, <2>1, <2>2 DEF IInv, Behind
    <3>2. ASSUME NEW l \in charged[r], \A k \in 1..i : ~(ms[k].kind = "limit" /\ ms[k].limiter = l)
          PROVE  i < pos[r]
      <4>1. Behind(r) /\ rpc[r] # "idle"
        BY DEF IInv
      <4>2. PICK k \in 1..Len(ws) : k < pos[r] /\ ws[k].kind = "limit" /\ ws[k].limiter = l
        BY <4>1, <2>1, <3>2 DEF Behind
      <4>3. k > i
        <5> SUFFICES ASSUME k <= i PROVE FALSE
          BY <2>1, <2>2
        <5>1. k \in 1..i /\ k \in 1..Len(ms)
          BY <2>1, <2>2
        <5> QED BY <5>1, <3>2, <4>2, <2>2
      <4> QED BY <4>2, <4>3, <2>1, <2>2
    <3> QED BY <3>1, <3>2, <2>1 DEF Reached
  <2>4. LetThrough(ws[i], r)
    BY <2>1, <2>2, <2>3 DEF IInv, Behind
  <2> QED BY <2>1, <2>2, <2>4
<1> QED BY <1>1, DispatchInvariant, PTL

(***************************************************************************)
(* Each limiter is a WindowCounter, which SlidingWindowLimiter is shown to *)
(* implement: what Dispatch takes a limiter to be is what ratelimit.go     *)
(* does.                                                                   *)
(***************************************************************************)
Counter(l) == INSTANCE WindowCounter WITH Keys <- LimitKeys, Limit <- Limit[l], count <- count[l]

\* The layers ask each limiter, and time passes for it, only in ways the limiter
\* has: whatever limiters are shared, chained or asked under equal keys.
THEOREM LimitersAreCounters ==
    ASSUME NEW l \in Limiters
    PROVE  Spec => Counter(l)!Spec
<1>1. Init => Counter(l)!Init
  BY DEF Init, Counter!Init
<1>2. TypeOK /\ [Next]_vars => [Counter(l)!Next]_(count[l])
  <2> SUFFICES ASSUME TypeOK, [Next]_vars, count'[l] # count[l]
               PROVE  Counter(l)!Next
    OBVIOUS
  <2>1. ASSUME NEW r \in Requests, Allow(r) PROVE Counter(l)!Next
    <3>1. PICK m, k : m = Layer(r).limiter /\ k = LimitKey(Layer(r).by, SessionOf[r])
      OBVIOUS
    <3>2. m \in Limiters /\ k \in LimitKeys
      BY <2>1, <3>1, LayerType DEF Allow
    <3>3. count[m][k] < Limit[m] /\ count' = [count EXCEPT ![m][k] = @ + 1]
      BY <2>1, <3>1 DEF Allow, Admitted
    <3>4. m = l /\ count'[l] = [count[l] EXCEPT ![k] = @ + 1]
      BY <3>2, <3>3 DEF TypeOK
    <3> QED BY <3>2, <3>3, <3>4 DEF Counter!Next, Counter!Allow
  <2>2. ASSUME NEW m \in Limiters, NEW k \in LimitKeys, AgeOut(m, k) PROVE Counter(l)!Next
    <3>1. m = l /\ count'[l] = [count[l] EXCEPT ![k] = @ - 1] /\ count[l][k] > 0
      BY <2>2 DEF AgeOut, TypeOK
    <3>2. count[l] \in [LimitKeys -> Nat]
      BY DEF TypeOK
    <3>3. count'[l] \in [LimitKeys -> Nat] /\ \A j \in LimitKeys : count'[l][j] <= count[l][j]
      BY <3>1, <3>2
    <3> QED BY <3>3 DEF Counter!Next, Counter!AgeOut
  <2>3. CASE UNCHANGED count
    BY <2>3
  <2>4. ASSUME NEW c \in Calls, Register(c) PROVE UNCHANGED count
    BY <2>4 DEF Register, UseLock, UseAppend, HandleWrap, HandleNil, HandleStore
  <2>5. ASSUME NEW r \in Requests, Lookup(r) \/ (Serve(r) /\ ~Allow(r)) PROVE UNCHANGED count
    BY <2>5 DEF Lookup, Serve, Pass, Require, Enter, Return, Panic, BadResponse, Recover, MoveTo
  <2> QED BY <2>1, <2>2, <2>3, <2>4, <2>5 DEF Next, Serve
<1> QED BY <1>1, <1>2, DispatchTypeCorrect, PTL DEF Spec, Counter!Spec

(***************************************************************************)
(* What registration and a request cannot do to the rest of the server.    *)
(***************************************************************************)
\* Server.mu is held by the one Use or UseStream between its lock and its append:
\* no call leaves it locked, so Handle and every lookup get it in the end.
LockFollowsUse == \A c \in Calls : mu = c <=> cpc[c] = "locked"

\* Use and UseStream exclude each other and release the lock.
THEOREM RegistryLockIsReleased == Spec => []LockFollowsUse
<1>n. \A c \in Calls : c # NoCall
  OBVIOUS
<1>1. Init => LockFollowsUse
  <2> SUFFICES ASSUME Init, NEW c \in Calls PROVE mu # c /\ cpc[c] # "locked"
    BY DEF LockFollowsUse
  <2>1. mu = NoCall /\ cpc[c] = "none"
    BY DEF Init
  <2> QED BY <1>n, <2>1
<1>2. TypeOK /\ LockFollowsUse /\ [Next]_vars => LockFollowsUse'
  <2> SUFFICES ASSUME TypeOK, LockFollowsUse, [Next]_vars PROVE LockFollowsUse'
    OBVIOUS
  <2> USE DEF TypeOK, LockFollowsUse
  <2>1. CASE UNCHANGED <<mu, cpc>>
    BY <2>1
  <2>2. ASSUME NEW c \in Calls, UseLock(c) \/ UseAppend(c) PROVE LockFollowsUse'
    <3>1. \/ mu = NoCall /\ mu' = c /\ cpc' = [cpc EXCEPT ![c] = "locked"]
          \/ mu = c /\ mu' = NoCall /\ cpc' = [cpc EXCEPT ![c] = "done"]
      BY <2>2 DEF UseLock, UseAppend
    <3> QED BY <1>n, <3>1
  <2>3. ASSUME NEW c \in Calls, HandleWrap(c) \/ HandleStore(c) PROVE LockFollowsUse'
    <3>1. mu' = mu /\ cpc[c] \in {"none", "wrapped"} /\ \E to \in {"wrapped", "done"} : cpc' = [cpc EXCEPT ![c] = to]
      BY <2>3 DEF HandleWrap, HandleStore
    <3> QED BY <3>1
  <2>4. ASSUME NEW c \in Calls, HandleNil(c) PROVE UNCHANGED <<mu, cpc>>
    BY <2>4 DEF HandleNil
  <2>5. ASSUME NEW r \in Requests, Lookup(r) \/ Serve(r) PROVE UNCHANGED <<mu, cpc>>
    BY <2>5 DEF Lookup, Serve, Pass, Require, Allow, Enter, Return, Panic, BadResponse, Recover, MoveTo,
        Answer, Proceed
  <2>6. ASSUME NEW l \in Limiters, NEW k \in LimitKeys, AgeOut(l, k) PROVE UNCHANGED <<mu, cpc>>
    BY <2>6 DEF AgeOut
  <2> QED BY <2>1, <2>2, <2>3, <2>4, <2>5, <2>6 DEF Next, Register
<1> QED BY <1>1, <1>2, DispatchTypeCorrect, PTL DEF Spec

\* A later Use, or a Handle that registers the opcode again, changes the layers of no
\* handler that is registered, nor of one that a request in flight goes through.
ChainsFixed ==
    [][/\ \A o \in Opcodes : handlers[o] # NoCall => wrapped'[handlers[o]] = wrapped[handlers[o]]
       /\ \A r \in Requests : rpc[r] # "idle" /\ rpc'[r] # "idle" =>
            via'[r] = via[r] /\ wrapped'[via[r]] = wrapped[via[r]]]_vars

\* The layers around a handler are settled when Handle registers it.
THEOREM ChainsAreFixed == Spec => ChainsFixed
<1>1. IInv /\ [Next]_vars =>
        [/\ \A o \in Opcodes : handlers[o] # NoCall => wrapped'[handlers[o]] = wrapped[handlers[o]]
         /\ \A r \in Requests : rpc[r] # "idle" /\ rpc'[r] # "idle" =>
              via'[r] = via[r] /\ wrapped'[via[r]] = wrapped[via[r]]]_vars
  <2> SUFFICES ASSUME IInv, [Next]_vars
               PROVE  /\ \A o \in Opcodes : handlers[o] # NoCall => wrapped'[handlers[o]] = wrapped[handlers[o]]
                      /\ \A r \in Requests : rpc[r] # "idle" /\ rpc'[r] # "idle" =>
                            via'[r] = via[r] /\ wrapped'[via[r]] = wrapped[via[r]]
    OBVIOUS
  <2>1. \A c \in Calls : cpc[c] = "done" => wrapped'[c] = wrapped[c]
    <3>1. ASSUME NEW d \in Calls, HandleWrap(d) PROVE \A c \in Calls : cpc[c] = "done" => wrapped'[c] = wrapped[c]
      BY <3>1 DEF HandleWrap, IInv, TypeOK
    <3>2. ASSUME NEW d \in Calls, UseLock(d) \/ UseAppend(d) \/ HandleNil(d) \/ HandleStore(d) PROVE wrapped' = wrapped
      BY <3>2 DEF UseLock, UseAppend, HandleNil, HandleStore
    <3>3. ASSUME NEW r \in Requests, Lookup(r) \/ Serve(r) PROVE wrapped' = wrapped
      BY <3>3 DEF Lookup, Serve, Pass, Require, Allow, Enter, Return, Panic, BadResponse, Recover, MoveTo,
          Answer, Proceed
    <3>4. ASSUME NEW l \in Limiters, NEW k \in LimitKeys, AgeOut(l, k) PROVE wrapped' = wrapped
      BY <3>4 DEF AgeOut
    <3> QED BY <3>1, <3>2, <3>3, <3>4 DEF Next, Register
  <2>2. ASSUME NEW r \in Requests, rpc[r] # "idle" PROVE via'[r] = via[r] \/ rpc'[r] = "idle"
    <3>1. ASSUME NEW c \in Calls, Register(c) PROVE via' = via
      BY <3>1 DEF Register, UseLock, UseAppend, HandleWrap, HandleNil, HandleStore
    <3>2. ASSUME NEW q \in Requests, Lookup(q) PROVE via'[r] = via[r]
      BY <2>2, <3>2 DEF Lookup, IInv, TypeOK
    <3>3. ASSUME NEW q \in Requests, Serve(q) PROVE via'[r] = via[r] \/ rpc'[r] = "idle"
      <4>1. via' = via \/ Answer(q)
        BY <3>3 DEF Serve, Pass, Require, Allow, Enter, Return, Panic, BadResponse, Recover, MoveTo, Proceed
      <4>2. ASSUME Answer(q) PROVE via'[r] = via[r] \/ rpc'[r] = "idle"
        BY <4>2 DEF Answer, IInv, TypeOK
      <4> QED BY <4>1, <4>2
    <3>4. ASSUME NEW l \in Limiters, NEW k \in LimitKeys, AgeOut(l, k) PROVE via' = via
      BY <3>4 DEF AgeOut
    <3> QED BY <3>1, <3>2, <3>3, <3>4 DEF Next
  <2> QED BY <2>1, <2>2 DEF IInv, TypeOK, Settled
<1> QED BY <1>1, DispatchInvariant, PTL DEF Spec, ChainsFixed

\* A request is answered before its handler runs for one of three reasons: a layer of
\* its handler does not allow its key, a limiter of its handler is at its limit for
\* the key it goes by, or the layers hide that the handler is a stream handler.
RefusalHasReason ==
    [][\A r \in Requests : rpc[r] = "layer" /\ rpc'[r] = "idle" =>
        \/ Hidden(via[r])
        \/ \E i \in 1..Len(wrapped[via[r]]) :
            LET m == wrapped[via[r]][i] IN
            \/ m.kind = "require" /\ KeyOf[SessionOf[r]] \notin m.allowed
            \/ m.kind = "limit" /\ count[m.limiter][LimitKey(m.by, SessionOf[r])] = Limit[m.limiter]]_vars

\* No layer turns a request away but those that may.
THEOREM RefusalsHaveReasons == Spec => RefusalHasReason
<1>1. TypeOK /\ [Next]_vars =>
        [\A r \in Requests : rpc[r] = "layer" /\ rpc'[r] = "idle" =>
            \/ Hidden(via[r])
            \/ \E i \in 1..Len(wrapped[via[r]]) :
                LET m == wrapped[via[r]][i] IN
                \/ m.kind = "require" /\ KeyOf[SessionOf[r]] \notin m.allowed
                \/ m.kind = "limit" /\ count[m.limiter][LimitKey(m.by, SessionOf[r])] = Limit[m.limiter]]_vars
  <2> SUFFICES ASSUME TypeOK, [Next]_vars, NEW r \in Requests, rpc[r] = "layer", rpc'[r] = "idle", ~Hidden(via[r])
               PROVE  \E i \in 1..Len(wrapped[via[r]]) :
                        LET m == wrapped[via[r]][i] IN
                        \/ m.kind = "require" /\ KeyOf[SessionOf[r]] \notin m.allowed
                        \/ m.kind = "limit" /\ count[m.limiter][LimitKey(m.by, SessionOf[r])] = Limit[m.limiter]
    OBVIOUS
  <2>1. ASSUME NEW q \in Requests, Answer(q) PROVE q = r
    BY <2>1 DEF Answer, TypeOK
  <2>2. (Require(r) /\ Answer(r)) \/ (Allow(r) /\ Answer(r))
    <3>1. ASSUME NEW c \in Calls, Register(c) PROVE FALSE
      BY <3>1 DEF Register, UseLock, UseAppend, HandleWrap, HandleNil, HandleStore
    <3>2. ASSUME NEW q \in Requests, Lookup(q) PROVE FALSE
      BY <3>2 DEF Lookup, TypeOK
    <3>3. ASSUME NEW q \in Requests, Serve(q) PROVE Answer(q)
      <4>1. ASSUME Proceed(q) PROVE FALSE
        BY <4>1 DEF Proceed
      <4>2. ASSUME NEW to \in {"body", "bad"}, MoveTo(q, to) PROVE FALSE
        BY <4>2 DEF MoveTo, TypeOK
      <4>3. ASSUME Recover(q) PROVE Answer(q)
        BY <4>3 DEF Recover
      <4> QED BY <3>3, <4>1, <4>2, <4>3 DEF Serve, Pass, Require, Allow, Enter, Return, Panic, BadResponse
    <3>4. ASSUME NEW q \in Requests, Serve(q) PROVE (Require(r) /\ Answer(r)) \/ (Allow(r) /\ Answer(r))
      <4>1. q = r /\ Serve(r) /\ Answer(r)
        BY <2>1, <3>3, <3>4
      <4>2. ~Proceed(r) /\ ~MoveTo(r, "body")
        BY DEF Proceed, MoveTo, TypeOK
      <4> QED BY <4>1, <4>2 DEF Serve, Pass, Enter, Return, Panic, BadResponse
    <3>5. ASSUME NEW l \in Limiters, NEW k \in LimitKeys, AgeOut(l, k) PROVE FALSE
      BY <3>5 DEF AgeOut
    <3> QED BY <3>1, <3>2, <3>4, <3>5 DEF Next
  <2>3. CASE Require(r) /\ Answer(r)
    <3>1. AtLayer(r, "require") /\ KeyOf[SessionOf[r]] \notin Layer(r).allowed
      BY <2>3 DEF Require, Proceed
    <3>2. pos[r] \in 1..Len(wrapped[via[r]]) /\ Layer(r) = wrapped[via[r]][pos[r]] /\ Layer(r).kind = "require"
      BY <3>1, LayerType DEF AtLayer, Layer
    <3> QED BY <3>1, <3>2
  <2>4. CASE Allow(r) /\ Answer(r)
    <3>1. AtLayer(r, "limit") /\ ~Admitted(r)
      BY <2>4 DEF Allow, Proceed
    <3>2. pos[r] \in 1..Len(wrapped[via[r]]) /\ Layer(r) = wrapped[via[r]][pos[r]] /\ Layer(r).kind = "limit"
      BY <3>1, LayerType DEF AtLayer, Layer
    <3>3. Layer(r).limiter \in Limiters /\ LimitKey(Layer(r).by, SessionOf[r]) \in LimitKeys
      BY <3>1, LayerType
    <3>4. count[Layer(r).limiter][LimitKey(Layer(r).by, SessionOf[r])] = Limit[Layer(r).limiter]
      BY <3>1, <3>3 DEF Admitted, TypeOK
    <3> QED BY <3>2, <3>4
  <2> QED BY <2>2, <2>3, <2>4
<1> QED BY <1>1, DispatchTypeCorrect, PTL DEF Spec, RefusalHasReason
=============================================================================
