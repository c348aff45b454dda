------------------------- MODULE MediaTokensProofs -------------------------
(***************************************************************************)
(* Proofs about MediaTokens, for any number of tokens, sessions, requests  *)
(* and ticks.                                                              *)
(***************************************************************************)
EXTENDS MediaTokens, TLAPS

\* Every reachable state has the shape TypeOK gives it.
THEOREM MediaTypeCorrect == Spec => []TypeOK
<1>1. Init => TypeOK
  <2> SUFFICES ASSUME Init PROVE TypeOK
    OBVIOUS
  <2>1. stale \in [Requests -> BOOLEAN] /\ early \in [Requests -> BOOLEAN]
    BY Zenon DEF Init
  <2> QED BY <2>1, MediaAssumption DEF Init, Registry!Init, TypeOK
<1>2. TypeOK /\ [Next]_vars => TypeOK'
  <2> SUFFICES ASSUME TypeOK, [Next]_vars PROVE TypeOK'
    OBVIOUS
  <2> USE MediaAssumption DEF TypeOK, sessionVars, token, call
  <2>1. CASE Tick \/ GC
    BY <2>1 DEF Tick, GC
  <2>2. CASE SessionStep \/ \E s \in Sessions : RevokeBySession(s)
    BY <2>2 DEF SessionStep, Registry!Next, Registry!Open, Registry!End, RevokeBySession
  <2>3. ASSUME NEW t \in Tokens, IssueStamp(t) \/ IssueStore(t) PROVE TypeOK'
    BY <2>3 DEF IssueStamp, IssueStore
  <2>4. ASSUME NEW v \in Requests, Validate(v) PROVE TypeOK'
    BY <2>4 DEF Validate, Unknown, Expired, InTime, SessionDead, SessionAlive, Extend, ReturnFrom
  <2>5. ASSUME NEW v \in Requests, NEW t \in Tokens, ValidateCall(v, t) PROVE TypeOK'
    <3>1. Void(t) \in BOOLEAN /\ (tpc[t] # "issued") \in BOOLEAN
      BY Zenon DEF Void
    <3>2. stale' \in [Requests -> BOOLEAN] /\ early' \in [Requests -> BOOLEAN]
      BY <2>5, <3>1, Zenon DEF ValidateCall
    <3> QED BY <2>5, <3>2 DEF ValidateCall
  <2>6. CASE UNCHANGED vars
    BY <2>6 DEF vars
  <2> QED BY <2>1, <2>2, <2>3, <2>4, <2>5, <2>6 DEF Next
<1> QED BY <1>1, <1>2, PTL DEF Spec

(***************************************************************************)
(* The inductive invariant, in the parts the argument has.                 *)
(***************************************************************************)
\* A token's session has been in the store; what is in the token store is issued
\* and not revoked; what is issued and missing from it is void.
StoreInv ==
    /\ \A t \in Tokens : tpc[t] # "none" => owner[t] \in opened
    /\ \A t \in tokens \cup revoked : tpc[t] = "issued"
    /\ tokens \cap revoked = {}
    /\ \A t \in Tokens : tpc[t] = "issued" /\ t \notin tokens => Void(t)

\* The request between its checks holds the mutex, so its token stays stored.
LockInv ==
    \A v \in Requests : vpc[v] \in {"session", "extend"} =>
        /\ mu = v
        /\ vtok[v] \in tokens
        /\ vpc[v] = "session" => SessionBound

\* What was void at the call still is; past the TTL check only the session can
\* make it so, past the session check nothing.
CallInv ==
    \A v \in Requests :
        /\ stale[v] => Void(vtok[v])
        /\ ~early[v] /\ vpc[v] # "idle" => tpc[vtok[v]] = "issued"
        /\ stale[v] /\ vpc[v] = "session" => owner[vtok[v]] \notin live
        /\ stale[v] => vpc[v] # "extend"

Inv == StoreInv /\ LockInv /\ CallInv /\ NoStaleGrant /\ NoWrongRefusal

\* A void token stays void: nothing restarts its clock, a revoked ID is not issued
\* again and a session ID is not used again.
LEMMA VoidStays ==
    ASSUME TypeOK, StoreInv, [Next]_vars, NEW t \in Tokens, Void(t)
    PROVE  Void(t)'
<1> USE MediaAssumption DEF TypeOK, sessionVars, token, call
<1>1. tpc[t] = "issued" /\ owner[t] \in opened
  BY DEF Void, StoreInv
<1>2. tpc'[t] = "issued" /\ owner' = owner /\ issuedAt'[t] = issuedAt[t]
  BY <1>1 DEF Next, vars, Tick, GC, SessionStep, RevokeBySession, IssueStamp,
      IssueStore, Validate, Unknown, Expired, InTime, SessionDead, SessionAlive, Extend, ValidateCall
<1>3. revoked \subseteq revoked' /\ now' \in Nat /\ now' >= now
  BY DEF Next, vars, Tick, GC, SessionStep, RevokeBySession, IssueStamp,
      IssueStore, Validate, Unknown, Expired, InTime, SessionDead, SessionAlive, Extend, ValidateCall
<1>4. owner[t] \in live' => owner[t] \in live
  BY <1>1 DEF Next, vars, Tick, GC, SessionStep, Registry!Next, Registry!Open, Registry!End, RevokeBySession, IssueStamp,
      IssueStore, Validate, Unknown, Expired, InTime, SessionDead, SessionAlive, Extend, ValidateCall
<1>5. TTLPassed(t) => TTLPassed(t)'
  BY <1>2, <1>3 DEF TTLPassed
<1> QED BY <1>2, <1>3, <1>4, <1>5 DEF Void

LEMMA MediaInvariant == Spec => []Inv
<1>1. Init => Inv
  BY MediaAssumption DEF Init, Registry!Init, Inv, StoreInv, LockInv, CallInv, NoStaleGrant, NoWrongRefusal
<1>2. TypeOK /\ TypeOK' /\ Inv /\ [Next]_vars => Inv'
  <2> SUFFICES ASSUME TypeOK, TypeOK', Inv, [Next]_vars PROVE Inv'
    OBVIOUS
  <2>v. \A t \in Tokens : Void(t) => Void(t)'
    BY VoidStays DEF Inv
  <2> USE MediaAssumption DEF TypeOK, sessionVars, token, call, Inv
  \* Steps that leave the calls alone: their part follows from <2>v.
  <2>c. ASSUME UNCHANGED <<vpc, result, call, owner>>,
               \A v \in Requests : vpc[v] = "session" /\ owner[vtok[v]] \notin live
                    => owner[vtok[v]] \notin live',
               \A t \in Tokens : tpc[t] = "issued" => tpc'[t] = "issued"
        PROVE  CallInv' /\ NoStaleGrant' /\ NoWrongRefusal'
    BY <2>c, <2>v DEF CallInv, NoStaleGrant, NoWrongRefusal
  <2>1. CASE Tick
    <3>1. StoreInv' /\ LockInv'
      BY <2>1, <2>v DEF Tick, StoreInv, LockInv
    <3> QED BY <2>1, <2>c, <3>1 DEF Tick
  <2>2. CASE GC
    <3>1. \A t \in tokens : t \notin tokens' => Void(t)
      BY <2>2 DEF GC, Void, StoreInv
    <3>2. StoreInv'
      BY <2>2, <2>v, <3>1 DEF GC, StoreInv
    <3>3. LockInv'
      BY <2>2 DEF GC, LockInv
    <3> QED BY <2>2, <2>c, <3>2, <3>3 DEF GC
  <2>3. CASE SessionStep
    <3> USE <2>3 DEF SessionStep, Registry!Next, Registry!Open, Registry!End
    <3>1. StoreInv' /\ LockInv'
      BY <2>v DEF StoreInv, LockInv
    <3>2. \A v \in Requests : vpc[v] = "session" /\ owner[vtok[v]] \notin live
                => owner[vtok[v]] \notin live'
      BY DEF StoreInv, LockInv
    <3> QED BY <2>c, <3>1, <3>2
  <2>4. ASSUME NEW s \in Sessions, RevokeBySession(s) PROVE Inv'
    <3>1. \A t \in tokens : t \notin tokens' => Void(t)'
      BY <2>4 DEF RevokeBySession, Void, StoreInv
    <3>2. StoreInv'
      BY <2>4, <2>v, <3>1 DEF RevokeBySession, StoreInv
    <3>3. LockInv'
      BY <2>4 DEF RevokeBySession, LockInv
    <3> QED BY <2>4, <2>c, <3>2, <3>3 DEF RevokeBySession
  <2>5. ASSUME NEW t \in Tokens, IssueStamp(t) \/ IssueStore(t) PROVE Inv'
    <3>1. t \notin revoked
      BY <2>5 DEF IssueStamp, IssueStore, StoreInv
    <3>2. StoreInv'
      BY <2>5, <2>v, <3>1 DEF IssueStamp, IssueStore, StoreInv
    <3>3. LockInv'
      BY <2>5 DEF IssueStamp, IssueStore, LockInv
    <3> QED BY <2>5, <2>c, <3>2, <3>3 DEF IssueStamp, IssueStore
  <2>6. ASSUME NEW v \in Requests, Unknown(v) \/ Expired(v) \/ SessionDead(v) PROVE Inv'
    <3>1. ~early[v] => Void(vtok[v])
      BY <2>6 DEF Unknown, Expired, SessionDead, StoreInv, LockInv, CallInv, Void
    <3>2. vtok[v] \in tokens => Void(vtok[v])
      BY <2>6 DEF Unknown, Expired, SessionDead, StoreInv, LockInv, Void
    <3>3. /\ tokens' \in {tokens, tokens \ {vtok[v]}}
          /\ UNCHANGED <<now, sessionVars, token, call>>
          /\ vpc' = [vpc EXCEPT ![v] = "idle"] /\ mu' = NoOne
          /\ result' = [result EXCEPT ![v] = "invalid"]
      BY <2>6 DEF Unknown, Expired, SessionDead, ReturnFrom
    <3>4. StoreInv'
      BY <2>v, <3>2, <3>3 DEF StoreInv
    <3>5. \A w \in Requests : w # v => vpc[w] \notin {"session", "extend"}
      BY <2>6 DEF Unknown, Expired, SessionDead, LockInv
    <3>6. LockInv'
      BY <3>3, <3>5 DEF LockInv
    <3>7. CallInv' /\ NoStaleGrant' /\ NoWrongRefusal'
      BY <2>v, <3>1, <3>3 DEF CallInv, NoStaleGrant, NoWrongRefusal
    <3> QED BY <3>4, <3>6, <3>7
  <2>7. ASSUME NEW v \in Requests, InTime(v) PROVE Inv'
    <3>1. stale[v] => SessionBound /\ owner[vtok[v]] \notin live
      BY <2>7 DEF InTime, CallInv, StoreInv, Void
    <3>2. StoreInv' /\ NoStaleGrant' /\ NoWrongRefusal'
      BY <2>7, <2>v DEF InTime, StoreInv, NoStaleGrant, NoWrongRefusal
    <3>3. LockInv'
      BY <2>7 DEF InTime, LockInv
    <3>4. CallInv'
      BY <2>7, <2>v, <3>1 DEF InTime, CallInv
    <3> QED BY <3>2, <3>3, <3>4
  <2>8. ASSUME NEW v \in Requests, SessionAlive(v) \/ Extend(v) PROVE Inv'
    <3>1. StoreInv' /\ NoWrongRefusal'
      BY <2>8, <2>v DEF SessionAlive, Extend, ReturnFrom, StoreInv, NoWrongRefusal
    <3>2. LockInv'
      BY <2>8 DEF SessionAlive, Extend, ReturnFrom, LockInv
    <3>3. CallInv' /\ NoStaleGrant'
      BY <2>8, <2>v DEF SessionAlive, Extend, ReturnFrom, CallInv, NoStaleGrant
    <3> QED BY <3>1, <3>2, <3>3
  <2>9. ASSUME NEW v \in Requests, NEW t \in Tokens, ValidateCall(v, t) PROVE Inv'
    <3>1. StoreInv' /\ LockInv'
      BY <2>9, <2>v DEF ValidateCall, StoreInv, LockInv
    <3>2. /\ stale'[v] = Void(t) /\ early'[v] = (tpc[t] # "issued")
          /\ vtok'[v] = t /\ vpc'[v] = "called" /\ result'[v] = "none"
      BY <2>9 DEF ValidateCall
    <3>3. \A w \in Requests : w # v =>
            /\ stale'[w] = stale[w] /\ early'[w] = early[w]
            /\ vtok'[w] = vtok[w] /\ vpc'[w] = vpc[w] /\ result'[w] = result[w]
      BY <2>9 DEF ValidateCall
    <3>4. UNCHANGED <<owner, live, tpc>>
      BY <2>9 DEF ValidateCall
    <3>5. CallInv' /\ NoStaleGrant' /\ NoWrongRefusal'
      BY <2>v, <3>2, <3>3, <3>4 DEF CallInv, NoStaleGrant, NoWrongRefusal
    <3> QED BY <3>1, <3>5
  <2>10. CASE UNCHANGED vars
    BY <2>10, <2>v DEF vars, StoreInv, LockInv, CallInv, NoStaleGrant, NoWrongRefusal
  <2> QED BY <2>1, <2>2, <2>3, <2>4, <2>5, <2>6, <2>7, <2>8, <2>9, <2>10 DEF Next, Validate
<1> QED BY <1>1, <1>2, MediaTypeCorrect, PTL DEF Spec

\* Validate never says valid of a token that was revoked, too old or orphaned when
\* it was called.
THEOREM VoidIsFinal == Spec => []NoStaleGrant
<1>1. Inv => NoStaleGrant
  BY DEF Inv
<1> QED BY <1>1, MediaInvariant, PTL

\* Validate refuses no token that is in time, not revoked and of a live session.
THEOREM RefusalsAreJustified == Spec => []NoWrongRefusal
<1>1. Inv => NoWrongRefusal
  BY DEF Inv
<1> QED BY <1>1, MediaInvariant, PTL

(***************************************************************************)
(* What is lost stays lost, and what is locked is unlocked.                *)
(***************************************************************************)
\* A token that is void stays void, and one that left the map (expired, orphaned,
\* revoked or collected) never returns to it: no Issue, Validate or GC in flight at
\* the removal puts it back.
LostForGood ==
    [][\A t \in Tokens :
        /\ Void(t) => Void(t)'
        /\ tpc[t] = "issued" /\ t \notin tokens => t \notin tokens']_vars

\* No interleaving of Validate, RevokeBySession, GC and Issue revives a token.
THEOREM LossIsFinal == Spec => LostForGood
<1>1. TypeOK /\ Inv /\ [Next]_vars =>
        [\A t \in Tokens :
            /\ Void(t) => Void(t)'
            /\ tpc[t] = "issued" /\ t \notin tokens => t \notin tokens']_vars
  <2> SUFFICES ASSUME TypeOK, Inv, [Next]_vars, NEW t \in Tokens
               PROVE  /\ Void(t) => Void(t)'
                      /\ tpc[t] = "issued" /\ t \notin tokens => t \notin tokens'
    OBVIOUS
  <2>1. Void(t) => Void(t)'
    BY VoidStays DEF Inv
  <2>2. tpc[t] = "issued" /\ t \notin tokens => t \notin tokens'
    BY DEF Next, vars, Tick, GC, SessionStep, RevokeBySession, IssueStamp, IssueStore, Validate,
        Unknown, Expired, InTime, SessionDead, SessionAlive, Extend, ValidateCall
  <2> QED BY <2>1, <2>2
<1> QED BY <1>1, MediaTypeCorrect, MediaInvariant, PTL DEF Spec, LostForGood

\* TokenStore.mu is held by the one Validate between its checks and by nobody else:
\* every way out of Validate, also through a dead session, releases it.
LockFollowsValidate ==
    \A v \in Requests : mu = v <=> vpc[v] \in {"session", "extend"}

\* Validate never leaks the token store's lock, nor do two requests hold it at once.
THEOREM StoreLockIsReleased == Spec => []LockFollowsValidate
<1>1. Init => LockFollowsValidate
  BY MediaAssumption DEF Init, LockFollowsValidate
<1>2. TypeOK /\ LockFollowsValidate /\ [Next]_vars => LockFollowsValidate'
  <2> SUFFICES ASSUME TypeOK, LockFollowsValidate, [Next]_vars PROVE LockFollowsValidate'
    OBVIOUS
  <2> USE MediaAssumption DEF TypeOK, LockFollowsValidate, sessionVars, token, call
  <2>1. CASE UNCHANGED <<mu, vpc>>
    BY <2>1
  <2>2. ASSUME NEW v \in Requests, Unknown(v) \/ Expired(v) \/ SessionDead(v) \/ Extend(v)
        PROVE  LockFollowsValidate'
    <3>1. mu' = NoOne /\ vpc' = [vpc EXCEPT ![v] = "idle"] /\ (mu = NoOne \/ mu = v)
      BY <2>2 DEF Unknown, Expired, SessionDead, Extend, ReturnFrom
    <3> QED BY <3>1
  <2>3. ASSUME NEW v \in Requests, InTime(v) \/ SessionAlive(v) PROVE LockFollowsValidate'
    BY <2>3 DEF InTime, SessionAlive
  <2>4. ASSUME NEW v \in Requests, NEW t \in Tokens, ValidateCall(v, t) PROVE LockFollowsValidate'
    BY <2>4 DEF ValidateCall
  <2>5. ASSUME \/ Tick \/ GC \/ SessionStep \/ UNCHANGED vars
               \/ (\E s \in Sessions : RevokeBySession(s))
               \/ (\E t \in Tokens : IssueStamp(t) \/ IssueStore(t))
        PROVE  UNCHANGED <<mu, vpc>>
    BY <2>5 DEF Tick, GC, SessionStep, RevokeBySession, IssueStamp, IssueStore, vars
  <2> QED BY <2>1, <2>2, <2>3, <2>4, <2>5 DEF Next, Validate
<1> QED BY <1>1, <1>2, MediaTypeCorrect, PTL DEF Spec
=============================================================================
