---------------------------- MODULE MediaTokens ----------------------------
(***************************************************************************)
(* media.TokenStore as WithMediaSupport wires it to the session store:     *)
(* handlers issue tokens, HTTP requests validate them, the application may *)
(* revoke a session's tokens and run GC, and meanwhile sessions end.       *)
(*                                                                         *)
(* Validate holds the token store's mutex and calls ValidateSession, which *)
(* takes the session store's lock for a moment: the session may end right  *)
(* after it was found alive.  The session store is a SessionRegistry,      *)
(* which SessionServer implements.                                         *)
(***************************************************************************)
EXTENDS Integers

CONSTANTS
    Tokens,              \* token IDs, 16 random bytes (external): no two alike
    Sessions,            \* session IDs
    Requests,            \* goroutines calling Validate
    NoOne,               \* not one of them
    SessionBound,        \* a ValidateSession function is set
    MaxTokenTTL,         \* TokenStore.MaxTokenTTL as it is: 0 is not replaced
    MaxTime              \* bound: the clock stops here

ASSUME MediaAssumption ==
    /\ NoOne \notin Requests
    /\ SessionBound \in BOOLEAN
    /\ MaxTokenTTL \in Nat /\ MaxTime \in Nat

VARIABLES
    now,
    opened,     \* sessions ever in the session store
    live,       \* sessions in it
    tpc,        \* where IssueWithHLS is for each token: none, stamped, issued
    tokens,     \* TokenStore.tokens
    owner,      \* Token.SessionID
    issuedAt,   \* Token.IssuedAt
    createdAt,  \* Token.CreatedAt
    revoked,    \* history: tokens RevokeBySession removed
    mu,         \* the request that holds TokenStore.mu across its session check
    vpc,        \* where each request's Validate is: idle, called, session, extend
    vtok,       \* the token it validates
    result,     \* what its last Validate returned: none, valid, invalid
    stale,      \* history: the token was void already when Validate was called
    early       \* history: it was not issued yet when Validate was called

sessionVars == <<opened, live>>
token == <<tpc, owner, issuedAt, revoked>>
call == <<vtok, stale, early>>
vars == <<now, sessionVars, token, tokens, createdAt, mu, vpc, result, call>>

Registry == INSTANCE SessionRegistry WITH IDs <- Sessions

Init ==
    /\ Registry!Init
    /\ now = 0 /\ tokens = {} /\ revoked = {} /\ mu = NoOne
    /\ tpc = [t \in Tokens |-> "none"]
    /\ owner \in [Tokens -> Sessions]
    /\ issuedAt = [t \in Tokens |-> 0]
    /\ createdAt = [t \in Tokens |-> 0]
    /\ vpc = [v \in Requests |-> "idle"]
    /\ vtok \in [Requests -> Tokens]
    /\ result = [v \in Requests |-> "none"]
    /\ stale = [v \in Requests |-> FALSE]
    /\ early = [v \in Requests |-> FALSE]

Tick ==
    /\ now < MaxTime
    /\ now' = now + 1
    /\ UNCHANGED <<sessionVars, token, tokens, createdAt, mu, vpc, result, call>>

(***************************************************************************)
(* The session store.                                                      *)
(***************************************************************************)
SessionStep ==
    /\ Registry!Next
    /\ UNCHANGED <<now, token, tokens, createdAt, mu, vpc, result, call>>

(***************************************************************************)
(* IssueWithHLS, called by a handler of the session, which may outlive it: *)
(* the times are taken first, the map is written under the lock.           *)
(***************************************************************************)
IssueStamp(t) ==
    /\ tpc[t] = "none" /\ owner[t] \in opened
    /\ tpc' = [tpc EXCEPT ![t] = "stamped"]
    /\ issuedAt' = [issuedAt EXCEPT ![t] = now]
    /\ createdAt' = [createdAt EXCEPT ![t] = now]
    /\ UNCHANGED <<now, sessionVars, owner, revoked, tokens, mu, vpc, result, call>>

IssueStore(t) ==
    /\ tpc[t] = "stamped" /\ mu = NoOne
    /\ tpc' = [tpc EXCEPT ![t] = "issued"]
    /\ tokens' = tokens \cup {t}
    /\ UNCHANGED <<now, sessionVars, owner, issuedAt, revoked, createdAt, mu, vpc, result, call>>

TTLPassed(t) == now - issuedAt[t] > MaxTokenTTL

\* The issued token is good no longer, by any of the three rules.
Void(t) ==
    /\ tpc[t] = "issued"
    /\ TTLPassed(t) \/ t \in revoked \/ (SessionBound /\ owner[t] \notin live)

(***************************************************************************)
(* Validate.                                                               *)
(***************************************************************************)
ValidateCall(v, t) ==
    /\ vpc[v] = "idle"
    /\ vpc' = [vpc EXCEPT ![v] = "called"]
    /\ vtok' = [vtok EXCEPT ![v] = t]
    /\ stale' = [stale EXCEPT ![v] = Void(t)]
    /\ early' = [early EXCEPT ![v] = tpc[t] # "issued"]
    /\ result' = [result EXCEPT ![v] = "none"]
    /\ UNCHANGED <<now, sessionVars, token, tokens, createdAt, mu>>

ReturnFrom(v, r) ==
    /\ vpc' = [vpc EXCEPT ![v] = "idle"]
    /\ result' = [result EXCEPT ![v] = r]
    /\ mu' = NoOne

Unknown(v) ==
    /\ vpc[v] = "called" /\ mu = NoOne
    /\ vtok[v] \notin tokens
    /\ ReturnFrom(v, "invalid")
    /\ UNCHANGED <<now, sessionVars, token, tokens, createdAt, call>>

Expired(v) ==
    /\ vpc[v] = "called" /\ mu = NoOne
    /\ vtok[v] \in tokens /\ TTLPassed(vtok[v])
    /\ tokens' = tokens \ {vtok[v]}
    /\ ReturnFrom(v, "invalid")
    /\ UNCHANGED <<now, sessionVars, token, createdAt, call>>

MutInTime(v) ==
    /\ vpc[v] = "called" /\ mu = NoOne
    /\ vtok[v] \in tokens /\ now - createdAt[vtok[v]] <= MaxTokenTTL
    /\ mu' = v
    /\ vpc' = [vpc EXCEPT ![v] = IF SessionBound THEN "session" ELSE "extend"]
    /\ UNCHANGED <<now, sessionVars, token, tokens, createdAt, result, call>>

InTime(v) ==
    /\ vpc[v] = "called" /\ mu = NoOne
    /\ vtok[v] \in tokens /\ ~TTLPassed(vtok[v])
    /\ mu' = v
    /\ vpc' = [vpc EXCEPT ![v] = IF SessionBound THEN "session" ELSE "extend"]
    /\ UNCHANGED <<now, sessionVars, token, tokens, createdAt, result, call>>

SessionDead(v) ==
    /\ vpc[v] = "session"
    /\ owner[vtok[v]] \notin live
    /\ tokens' = tokens \ {vtok[v]}
    /\ ReturnFrom(v, "invalid")
    /\ UNCHANGED <<now, sessionVars, token, createdAt, call>>

SessionAlive(v) ==
    /\ vpc[v] = "session"
    /\ owner[vtok[v]] \in live
    /\ vpc' = [vpc EXCEPT ![v] = "extend"]
    /\ UNCHANGED <<now, sessionVars, token, tokens, createdAt, mu, result, call>>

MutExtend(v) ==
    /\ vpc[v] = "extend"
    /\ createdAt' = [createdAt EXCEPT ![vtok[v]] = now + MaxTokenTTL]
    /\ ReturnFrom(v, "valid")
    /\ UNCHANGED <<now, sessionVars, token, tokens, call>>

Extend(v) ==
    /\ vpc[v] = "extend"
    /\ createdAt' = [createdAt EXCEPT ![vtok[v]] = now]
    /\ ReturnFrom(v, "valid")
    /\ UNCHANGED <<now, sessionVars, token, tokens, call>>

(***************************************************************************)
(* What the application may call at any time.                              *)
(***************************************************************************)
RevokeBySession(s) ==
    /\ mu = NoOne
    /\ revoked' = revoked \cup {t \in tokens : owner[t] = s}
    /\ tokens' = {t \in tokens : owner[t] # s}
    /\ UNCHANGED <<now, sessionVars, tpc, owner, issuedAt, createdAt, mu, vpc, result, call>>

MutGC ==
    /\ mu = NoOne
    /\ tokens' = {t \in tokens : now - issuedAt[t] < MaxTokenTTL}
    /\ UNCHANGED <<now, sessionVars, token, createdAt, mu, vpc, result, call>>

GC ==
    /\ mu = NoOne
    /\ tokens' = {t \in tokens : ~TTLPassed(t)}
    /\ UNCHANGED <<now, sessionVars, token, createdAt, mu, vpc, result, call>>

Validate(v) ==
    \/ Unknown(v) \/ Expired(v) \/ InTime(v)
    \/ SessionDead(v) \/ SessionAlive(v) \/ Extend(v)

Next ==
    \/ Tick \/ SessionStep \/ GC
    \/ \E s \in Sessions : RevokeBySession(s)
    \/ \E t \in Tokens : IssueStamp(t) \/ IssueStore(t)
    \/ \E v \in Requests : Validate(v) \/ \E t \in Tokens : ValidateCall(v, t)

Spec == Init /\ [][Next]_vars

(***************************************************************************)
(* Properties.                                                             *)
(***************************************************************************)
\* Every variable keeps the shape of the Go state it stands for.
TypeOK ==
    /\ now \in 0..MaxTime /\ opened \subseteq Sessions /\ live \subseteq opened
    /\ tpc \in [Tokens -> {"none", "stamped", "issued"}]
    /\ tokens \subseteq Tokens /\ revoked \subseteq Tokens
    /\ owner \in [Tokens -> Sessions]
    /\ issuedAt \in [Tokens -> 0..MaxTime] /\ createdAt \in [Tokens -> 0..MaxTime]
    /\ mu \in Requests \cup {NoOne}
    /\ vpc \in [Requests -> {"idle", "called", "session", "extend"}]
    /\ vtok \in [Requests -> Tokens]
    /\ result \in [Requests -> {"none", "valid", "invalid"}]
    /\ stale \in [Requests -> BOOLEAN] /\ early \in [Requests -> BOOLEAN]

\* A Validate called after the token was revoked, after its TTL or after its
\* session ended never says valid, whatever other requests, GC, revocations and
\* late issues run in between: no validation brings a token back.
NoStaleGrant == \A v \in Requests : result[v] = "valid" => ~stale[v]

\* A token issued before the call is refused only if by then it was revoked, its
\* TTL had passed or its session had ended: no other request's clean-up takes a
\* good token away.
NoWrongRefusal ==
    \A v \in Requests : result[v] = "invalid" /\ ~early[v] => Void(vtok[v])
=============================================================================
