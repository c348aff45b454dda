----------------------------- MODULE HubProofs -----------------------------
(***************************************************************************)
(* What Hub guarantees for any number of topics, sessions, subscribers and *)
(* publishers and any buffer capacity.                                     *)
(***************************************************************************)
EXTENDS Hub, TLAPS

\* Every reachable state has the shape TypeOK gives it.
THEOREM HubTypeCorrect == Spec => []TypeOK
<1>1. Init => TypeOK
  <2> SUFFICES ASSUME Init PROVE TypeOK
    OBVIOUS
  <2> USE HubAssumption DEF Init
  <2>1. topics \subseteq Topics /\ reg \in [Topics -> [Sessions -> Subs \cup {NoSub}]]
    OBVIOUS
  <2>2. hpc \in [Subs -> {"none", "writing", "loop", "leaving", "gone"}] /\ done \in [Subs -> BOOLEAN]
    OBVIOUS
  <2>3. log \in [Subs -> Seq(Events)] /\ taken \in [Subs -> Nat]
    OBVIOUS
  <2>4. ppc \in [Publishers -> {"idle", "sending"}] /\ seq \in [Publishers -> 0..MaxEvents]
    OBVIOUS
  <2>5. ptopic \in [Publishers -> Topics] /\ dest \in [Publishers -> SUBSET Subs]
    OBVIOUS
  <2>6. ctxDone \in BOOLEAN
    BY Zenon
  <2> QED BY <2>1, <2>2, <2>3, <2>4, <2>5, <2>6 DEF TypeOK
<1>2. TypeOK /\ [Next]_vars => TypeOK'
  <2> SUFFICES ASSUME TypeOK, [Next]_vars PROVE TypeOK'
    OBVIOUS
  <2> USE HubAssumption DEF TypeOK, hubVars, subVars, pubVars
  <2>1. CASE Cancel
    BY <2>1 DEF Cancel
  <2>2. ASSUME NEW h \in Subs, SubStep(h) PROVE TypeOK'
    <3>1. CASE Subscribe(h)  BY <3>1 DEF Subscribe
    <3>2. CASE Deliver(h)    BY <3>2 DEF Deliver
    <3>3. CASE Written(h)    BY <3>3 DEF Written
    <3>4. CASE Stop(h)       BY <3>4 DEF Stop
    <3>5. CASE Leave(h)      BY <3>5 DEF Leave, Unsubscribe
    <3> QED BY <2>2, <3>1, <3>2, <3>3, <3>4, <3>5 DEF SubStep
  <2>3. ASSUME NEW t \in Topics, NEW s \in Sessions, AppUnsubscribe(t, s) PROVE TypeOK'
    BY <2>3 DEF AppUnsubscribe, Unsubscribe
  <2>4. ASSUME NEW p \in Publishers, PubStep(p) PROVE TypeOK'
    <3>1. ASSUME NEW t \in Topics, Snapshot(p, t) PROVE TypeOK'
      <4>1. {reg[t][s] : s \in Sessions} \ {NoSub} \in SUBSET Subs
        OBVIOUS
      <4>2. dest' \in [Publishers -> SUBSET Subs]
        BY <3>1, <4>1 DEF Snapshot
      <4> QED BY <3>1, <4>2 DEF Snapshot
    <3>2. ASSUME NEW h \in Subs, Send(p, h) PROVE TypeOK'
      <4>1. [pub |-> p, n |-> seq[p], topic |-> ptopic[p]] \in Events
        BY DEF Events
      <4>2. log' \in [Subs -> Seq(Events)]
        BY <3>2, <4>1 DEF Send
      <4> QED BY <3>2, <4>2 DEF Send
    <3>3. CASE Published(p)
      BY <3>3 DEF Published
    <3> QED BY <2>4, <3>1, <3>2, <3>3 DEF PubStep
  <2>5. CASE UNCHANGED vars
    BY <2>5 DEF vars
  <2> QED BY <2>1, <2>2, <2>3, <2>4, <2>5 DEF Next
<1> QED BY <1>1, <1>2, PTL DEF Spec

(***************************************************************************)
(* The registry.  RegisteredIsLive needs that a handler which has not      *)
(* subscribed yet cannot have been closed.                                 *)
(***************************************************************************)
FreshIsOpen == \A h \in Subs : hpc[h] = "none" => ~done[h]

RegistryInv == TopicsExact /\ RegisteredIsLive /\ FreshIsOpen /\ SoleSubscriberReached

\* Unsubscribe, by whomever it is called, keeps the topic list exact.
LEMMA UnsubscribeKeepsTopics ==
    ASSUME TypeOK, TopicsExact, NEW t \in Topics, NEW s \in Sessions, Unsubscribe(t, s)
    PROVE  TopicsExact'
<1> USE HubAssumption DEF TypeOK
<1>1. \A r \in Topics, q \in Sessions :
        reg'[r][q] = IF r = t /\ q = s THEN NoSub ELSE reg[r][q]
  BY DEF Unsubscribe
<1>2. ASSUME NEW r \in Topics, r # t
      PROVE  r \in topics' <=> \E q \in Sessions : reg'[r][q] # NoSub
  BY <1>1, <1>2 DEF Unsubscribe, TopicsExact
<1>3. t \in topics' <=> \E q \in Sessions : reg'[t][q] # NoSub
  <2>1. (\E q \in Sessions : reg'[t][q] # NoSub) <=> ~LastUnder(t, s)
    BY <1>1 DEF LastUnder
  <2>2. ~LastUnder(t, s) => t \in topics
    BY DEF LastUnder, TopicsExact
  <2> QED BY <2>1, <2>2 DEF Unsubscribe
<1> QED BY <1>2, <1>3 DEF TopicsExact

\* Whatever is still registered after an Unsubscribe is open and is registered
\* under another key, since each subscriber is registered under its own only.
LEMMA UnsubscribeKeepsOthers ==
    ASSUME TypeOK, RegisteredIsLive, NEW t \in Topics, NEW s \in Sessions, Unsubscribe(t, s)
    PROVE  \A r \in Topics, q \in Sessions : reg'[r][q] # NoSub =>
             /\ ~(r = t /\ q = s)
             /\ htopic[reg'[r][q]] = r /\ hsess[reg'[r][q]] = q
             /\ ~done'[reg'[r][q]]
             /\ hpc[reg'[r][q]] \in {"writing", "loop", "leaving"}
<1> SUFFICES ASSUME NEW r \in Topics, NEW q \in Sessions, reg'[r][q] # NoSub
             PROVE  /\ ~(r = t /\ q = s)
                    /\ htopic[reg'[r][q]] = r /\ hsess[reg'[r][q]] = q
                    /\ ~done'[reg'[r][q]]
                    /\ hpc[reg'[r][q]] \in {"writing", "loop", "leaving"}
  OBVIOUS
<1> DEFINE h == reg[r][q]
<1>1. ~(r = t /\ q = s) /\ reg'[r][q] = h /\ h \in Subs
  BY HubAssumption DEF Unsubscribe, TypeOK
<1>2. htopic[h] = r /\ hsess[h] = q /\ ~done[h] /\ hpc[h] \in {"writing", "loop", "leaving"}
  BY <1>1, HubAssumption DEF RegisteredIsLive
<1>3. reg[t][s] # h
  BY <1>1, <1>2, HubAssumption DEF RegisteredIsLive
<1>4. ~done'[h]
  BY <1>1, <1>2, <1>3 DEF Unsubscribe, TypeOK
<1> HIDE DEF h
<1> QED BY <1>1, <1>2, <1>4

\* Unsubscribe closes a running handler's subscriber or none.
LEMMA UnsubscribeClosesRunning ==
    ASSUME TypeOK, RegisteredIsLive, NEW t \in Topics, NEW s \in Sessions, Unsubscribe(t, s),
           NEW h \in Subs, ~done[h], done'[h]
    PROVE  reg[t][s] = h /\ hpc[h] \in {"writing", "loop", "leaving"}
<1>1. reg[t][s] = h
  BY DEF Unsubscribe, TypeOK
<1> QED BY <1>1, HubAssumption DEF RegisteredIsLive

LEMMA RegistryInvariant == Spec => []RegistryInv
<1>1. Init => RegistryInv
  BY HubAssumption DEF Init, RegistryInv, TopicsExact, RegisteredIsLive, FreshIsOpen,
      SoleSubscriberReached
<1>2. TypeOK /\ RegistryInv /\ [Next]_vars => RegistryInv'
  <2> SUFFICES ASSUME TypeOK, RegistryInv, [Next]_vars PROVE RegistryInv'
    OBVIOUS
  <2> USE HubAssumption DEF TypeOK, RegistryInv, hubVars, subVars, pubVars
  <2>1. CASE UNCHANGED <<topics, reg, hpc, htopic, hsess, done>>
    BY <2>1 DEF TopicsExact, RegisteredIsLive, FreshIsOpen, SoleSubscriberReached
  <2>2. ASSUME NEW h \in Subs, SubStep(h) PROVE RegistryInv'
    <3>1. CASE Subscribe(h)
      <4>1. TopicsExact'
        BY <3>1 DEF Subscribe, TopicsExact
      <4>2. RegisteredIsLive' /\ FreshIsOpen'
        BY <3>1 DEF Subscribe, RegisteredIsLive, FreshIsOpen
      <4>3. SoleSubscriberReached'
        BY <3>1 DEF Subscribe, SoleSubscriberReached
      <4> QED BY <4>1, <4>2, <4>3
    <3>2. CASE Deliver(h)
      BY <3>2 DEF Deliver, TopicsExact, RegisteredIsLive, FreshIsOpen, SoleSubscriberReached
    <3>5. CASE Written(h)
      BY <3>5 DEF Written, TopicsExact, RegisteredIsLive, FreshIsOpen, SoleSubscriberReached
    <3>3. CASE Stop(h)
      BY <3>3 DEF Stop, TopicsExact, RegisteredIsLive, FreshIsOpen, SoleSubscriberReached
    <3>4. CASE Leave(h)
      <4>1. TopicsExact'
        BY <3>4, UnsubscribeKeepsTopics DEF Leave
      <4>2. RegisteredIsLive'
        <5>1. Unsubscribe(htopic[h], hsess[h]) /\ htopic[h] \in Topics /\ hsess[h] \in Sessions
          BY <3>4 DEF Leave
        <5>2. \A r \in Topics, q \in Sessions : reg'[r][q] # NoSub =>
                /\ ~(r = htopic[h] /\ q = hsess[h])
                /\ htopic[reg'[r][q]] = r /\ hsess[reg'[r][q]] = q
                /\ ~done'[reg'[r][q]] /\ hpc[reg'[r][q]] \in {"writing", "loop", "leaving"}
          <6> HIDE DEF TypeOK
          <6> QED BY <5>1, UnsubscribeKeepsOthers, Zenon
        <5>3. \A r \in Topics, q \in Sessions : reg'[r][q] # NoSub => reg'[r][q] \in Subs
          BY <3>4 DEF Leave, Unsubscribe
        <5>4. /\ htopic' = htopic /\ hsess' = hsess
              /\ hpc' = [hpc EXCEPT ![h] = "gone"]
          BY <3>4 DEF Leave
        <5> QED BY <5>2, <5>3, <5>4 DEF RegisteredIsLive
      <4>4. FreshIsOpen'
        BY <3>4, UnsubscribeClosesRunning DEF Leave, FreshIsOpen
      <4>3. SoleSubscriberReached'
        BY <3>4 DEF Leave, Unsubscribe, SoleSubscriberReached
      <4> QED BY <4>1, <4>2, <4>3, <4>4
    <3> QED BY <2>2, <3>1, <3>2, <3>3, <3>4, <3>5 DEF SubStep
  <2>3. ASSUME NEW t \in Topics, NEW s \in Sessions, AppUnsubscribe(t, s) PROVE RegistryInv'
    <3>1. TopicsExact'
      BY <2>3, UnsubscribeKeepsTopics DEF AppUnsubscribe
    <3>2. RegisteredIsLive'
      <4>1. Unsubscribe(t, s) /\ UNCHANGED <<htopic, hsess, hpc>>
        BY <2>3 DEF AppUnsubscribe
      <4> HIDE DEF TypeOK
      <4> QED BY <4>1, UnsubscribeKeepsOthers DEF RegisteredIsLive
    <3>3. FreshIsOpen'
      BY <2>3, UnsubscribeClosesRunning DEF AppUnsubscribe, FreshIsOpen
    <3>4. ASSUME NEW h \in Subs, ~done'[h], reg[htopic[h]][hsess[h]] = h
          PROVE  reg'[htopic[h]][hsess[h]] = h
      <4>1. ~(htopic[h] = t /\ hsess[h] = s)
        BY <2>3, <3>4 DEF AppUnsubscribe, Unsubscribe
      <4> QED BY <2>3, <3>4, <4>1 DEF AppUnsubscribe, Unsubscribe
    <3>5. \A h \in Subs : ~done'[h] => ~done[h]
      BY <2>3 DEF AppUnsubscribe, Unsubscribe
    <3>6. SoleSubscriberReached'
      BY <2>3, <3>4, <3>5 DEF AppUnsubscribe, SoleSubscriberReached
    <3> QED BY <3>1, <3>2, <3>3, <3>6
  <2>4. CASE Cancel \/ \E p \in Publishers : PubStep(p)
    BY <2>1, <2>4 DEF Cancel, PubStep, Snapshot, Send, Published
  <2>5. CASE UNCHANGED vars
    BY <2>1, <2>5 DEF vars
  <2> QED BY <2>2, <2>3, <2>4, <2>5 DEF Next
<1> QED BY <1>1, <1>2, HubTypeCorrect, PTL DEF Spec

\* Topics always lists exactly the topics with subscribers.
THEOREM TopicsAreExact == Spec => []TopicsExact
BY RegistryInvariant, PTL DEF RegistryInv

\* The hub never holds a closed or ended subscriber, so Unsubscribe cannot
\* close a done channel twice.
THEOREM NoDoubleClose == Spec => []RegisteredIsLive
BY RegistryInvariant, PTL DEF RegistryInv

\* A session that subscribes to a topic once is reached by every Publish.
THEOREM SoleSubscribersAreReached == Spec => []SoleSubscriberReached
BY RegistryInvariant, PTL DEF RegistryInv

(***************************************************************************)
(* The channels.  Order holds because a publisher still about to send its  *)
(* current event to a subscriber has so far sent it earlier events only,   *)
(* and topics match because the snapshot was taken from the registry.      *)
(***************************************************************************)
PendingIsNew ==
    /\ \A h \in Subs : \A i \in DOMAIN log[h] : log[h][i].n <= seq[log[h][i].pub]
    /\ \A p \in Publishers : \A h \in dest[p] :
        /\ htopic[h] = ptopic[p]
        /\ \A i \in DOMAIN log[h] : log[h][i].pub = p => log[h][i].n < seq[p]

ChannelInv == BufferBounded /\ PendingIsNew /\ InOrderOnce

LEMMA ChannelInvariant == Spec => []ChannelInv
<1>1. Init => ChannelInv
  BY HubAssumption DEF Init, ChannelInv, BufferBounded, Buffered, PendingIsNew, InOrderOnce
<1>2. TypeOK /\ TypeOK' /\ RegistryInv /\ ChannelInv /\ [Next]_vars => ChannelInv'
  <2> SUFFICES ASSUME TypeOK, TypeOK', RegistryInv, ChannelInv, [Next]_vars PROVE ChannelInv'
    OBVIOUS
  <2> USE HubAssumption DEF TypeOK, ChannelInv, hubVars, subVars, pubVars
  <2>1. CASE UNCHANGED <<htopic, log, taken, seq, ptopic, dest>>
    BY <2>1 DEF BufferBounded, Buffered, PendingIsNew, InOrderOnce
  <2>2. ASSUME NEW h \in Subs, Deliver(h) PROVE ChannelInv'
    <3>1. BufferBounded'
      BY <2>2 DEF Deliver, BufferBounded, Buffered
    <3>2. PendingIsNew' /\ InOrderOnce'
      BY <2>2 DEF Deliver, PendingIsNew, InOrderOnce
    <3> QED BY <3>1, <3>2
  <2>3. ASSUME NEW p \in Publishers, NEW t \in Topics, Snapshot(p, t) PROVE ChannelInv'
    <3>1. BufferBounded' /\ InOrderOnce'
      BY <2>3 DEF Snapshot, BufferBounded, Buffered, InOrderOnce
    <3>2. ASSUME NEW h \in dest'[p] PROVE htopic[h] = t
      <4>1. PICK s \in Sessions : h = reg[t][s] /\ h # NoSub
        BY <2>3, <3>2 DEF Snapshot
      <4> QED BY <4>1 DEF RegistryInv, RegisteredIsLive
    <3>3. ASSUME NEW h \in Subs, NEW i \in DOMAIN log[h]
          PROVE  /\ log[h][i].n <= seq'[log[h][i].pub]
                 /\ log[h][i].pub = p => log[h][i].n < seq'[p]
      <4>1. log[h][i] \in Events
        OBVIOUS
      <4> QED BY <2>3, <4>1 DEF Snapshot, PendingIsNew, Events
    <3>4. PendingIsNew'
      BY <2>3, <3>2, <3>3 DEF Snapshot, PendingIsNew
    <3> QED BY <3>1, <3>4
  <2>4. ASSUME NEW p \in Publishers, NEW h \in Subs, Send(p, h) PROVE ChannelInv'
    <3> DEFINE e == [pub |-> p, n |-> seq[p], topic |-> ptopic[p]]
    <3>1. CASE log' = log
      BY <2>4, <3>1 DEF Send, BufferBounded, Buffered, PendingIsNew, InOrderOnce
    <3>2. CASE Buffered(h) < Cap
      <4>1. /\ \A g \in Subs : g # h => log'[g] = log[g]
            /\ log'[h] = Append(log[h], e)
        BY <2>4, <3>2 DEF Send
      <4>2. /\ Len(log'[h]) = Len(log[h]) + 1
            /\ \A i \in DOMAIN log[h] : log'[h][i] = log[h][i]
            /\ log'[h][Len(log[h]) + 1] = e
        BY <4>1
      <4>3. DOMAIN log'[h] = DOMAIN log[h] \cup {Len(log[h]) + 1}
        BY <4>1, <4>2
      <4>4. BufferBounded'
        BY <2>4, <3>2, <4>1, <4>2 DEF Send, BufferBounded, Buffered
      <4>5. PendingIsNew'
        <5>1. \A g \in Subs : \A i \in DOMAIN log'[g] : log'[g][i].n <= seq'[log'[g][i].pub]
          BY <2>4, <4>1, <4>2, <4>3 DEF Send, PendingIsNew
        <5>2. ASSUME NEW q \in Publishers, NEW g \in dest'[q]
              PROVE  /\ htopic'[g] = ptopic'[q]
                     /\ \A i \in DOMAIN log'[g] : log'[g][i].pub = q => log'[g][i].n < seq'[q]
          <6>1. g \in dest[q] /\ ~(q = p /\ g = h)
            BY <2>4, <5>2 DEF Send
          <6>2. CASE g # h
            BY <2>4, <4>1, <6>1, <6>2 DEF Send, PendingIsNew
          <6>3. CASE g = h
            BY <2>4, <4>2, <4>3, <6>1, <6>3 DEF Send, PendingIsNew
          <6> QED BY <6>2, <6>3
        <5> QED BY <5>1, <5>2 DEF PendingIsNew
      <4>6. InOrderOnce'
        <5>1. ASSUME NEW g \in Subs, g # h
              PROVE  /\ \A i \in DOMAIN log'[g] : log'[g][i].topic = htopic'[g]
                     /\ \A i, j \in DOMAIN log'[g] :
                            i < j /\ log'[g][i].pub = log'[g][j].pub => log'[g][i].n < log'[g][j].n
          BY <2>4, <4>1, <5>1 DEF Send, InOrderOnce
        <5>2. \A i \in DOMAIN log'[h] : log'[h][i].topic = htopic'[h]
          BY <2>4, <4>2, <4>3 DEF Send, InOrderOnce, PendingIsNew
        <5>3. ASSUME NEW i \in DOMAIN log'[h], NEW j \in DOMAIN log'[h],
                     i < j, log'[h][i].pub = log'[h][j].pub
              PROVE  log'[h][i].n < log'[h][j].n
          <6>1. i \in DOMAIN log[h]
            BY <4>1, <4>2, <4>3, <5>3
          <6>2. CASE j \in DOMAIN log[h]
            BY <4>2, <5>3, <6>1, <6>2 DEF InOrderOnce
          <6>3. CASE j = Len(log[h]) + 1
            BY <2>4, <4>2, <5>3, <6>1, <6>3 DEF Send, PendingIsNew
          <6> QED BY <4>3, <6>2, <6>3
        <5> QED BY <5>1, <5>2, <5>3 DEF InOrderOnce
      <4> QED BY <4>4, <4>5, <4>6
    <3> QED BY <2>4, <3>1, <3>2 DEF Send
  <2>5. CASE Cancel \/ (\E t \in Topics, s \in Sessions : AppUnsubscribe(t, s)) \/ (\E p \in Publishers : Published(p))
             \/ (\E h \in Subs : Subscribe(h) \/ Written(h) \/ Stop(h) \/ Leave(h))
    BY <2>1, <2>5 DEF Cancel, AppUnsubscribe, Published, Subscribe, Written, Stop, Leave
  <2>6. CASE UNCHANGED vars
    BY <2>1, <2>6 DEF vars
  <2> QED BY <2>2, <2>3, <2>4, <2>5, <2>6 DEF Next, SubStep, PubStep
<1> QED BY <1>1, <1>2, HubTypeCorrect, RegistryInvariant, PTL DEF Spec

\* Each subscriber sees the events of its topic from one publisher in order and
\* at most once.
THEOREM DeliveryInOrder == Spec => []InOrderOnce
BY ChannelInvariant, PTL DEF ChannelInv

\* Concurrent publishers never overfill a subscriber's buffer.
THEOREM BuffersStayBounded == Spec => []BufferBounded
BY ChannelInvariant, PTL DEF ChannelInv

(***************************************************************************)
(* Leaving.  What ShutdownEmpties and RemovedLeaves need besides fairness, *)
(* and what becomes of a handler that is displaced or removed.             *)
(***************************************************************************)
\* The hub holds nothing once the handlers that subscribed have run their deferred
\* Unsubscribe: handlers that shared a subID and removed each other leave no entry
\* and no topic behind.
NothingLeftBehind == (\A h \in Subs : hpc[h] \in {"none", "gone"}) => topics = {}

\* When the last SubscribeHandler has returned the hub is empty, in whatever order
\* they joined, displaced each other and left.
THEOREM HubEmptiesWithHandlers == Spec => []NothingLeftBehind
<1>1. TypeOK /\ RegistryInv => NothingLeftBehind
  <2> SUFFICES ASSUME TypeOK, RegistryInv, \A h \in Subs : hpc[h] \in {"none", "gone"},
                      NEW t \in topics
               PROVE  FALSE
    BY DEF NothingLeftBehind
  <2>1. PICK s \in Sessions : reg[t][s] # NoSub
    BY DEF RegistryInv, TopicsExact, TypeOK
  <2>2. t \in Topics /\ reg[t][s] \in Subs
    BY <2>1 DEF TypeOK
  <2> QED BY <2>1, <2>2 DEF RegistryInv, RegisteredIsLive
<1> QED BY <1>1, HubTypeCorrect, RegistryInvariant, PTL

Registered(h) == reg[htopic[h]][hsess[h]] = h

\* A handler that has subscribed and is not registered any more, displaced by
\* another of its session or removed, never gets its place back.
RemovedForGood ==
    [][\A h \in Subs : hpc[h] # "none" /\ ~Registered(h) => hpc'[h] # "none" /\ ~Registered(h)']_vars

\* Only Subscribe registers, and a handler calls it once.
LEMMA RemovedStays ==
    ASSUME TypeOK, [Next]_vars, NEW h \in Subs, hpc[h] # "none", ~Registered(h)
    PROVE  hpc'[h] # "none" /\ ~Registered(h)'
<1> USE HubAssumption DEF TypeOK, Registered, hubVars, subVars, pubVars
<1>1. CASE UNCHANGED <<reg, htopic, hsess, hpc>>
  BY <1>1
<1>2. ASSUME NEW g \in Subs, Subscribe(g) PROVE hpc'[h] # "none" /\ ~Registered(h)'
  <2>1. g # h
    BY <1>2 DEF Subscribe
  <2> QED BY <1>2, <2>1 DEF Subscribe
<1>3. ASSUME NEW g \in Subs, Leave(g) PROVE hpc'[h] # "none" /\ ~Registered(h)'
  BY <1>3 DEF Leave, Unsubscribe
<1>4. ASSUME NEW g \in Subs, Deliver(g) \/ Written(g) \/ Stop(g) PROVE hpc'[h] # "none" /\ ~Registered(h)'
  BY <1>4 DEF Deliver, Written, Stop
<1>5. ASSUME NEW t \in Topics, NEW s \in Sessions, AppUnsubscribe(t, s) PROVE hpc'[h] # "none" /\ ~Registered(h)'
  BY <1>5 DEF AppUnsubscribe, Unsubscribe
<1>6. CASE Cancel \/ (\E p \in Publishers : PubStep(p)) \/ UNCHANGED vars
  BY <1>1, <1>6 DEF Cancel, PubStep, Snapshot, Send, Published, vars
<1> QED BY <1>2, <1>3, <1>4, <1>5, <1>6 DEF Next, SubStep

\* Displacement and removal are final.
THEOREM RemovalIsFinal == Spec => RemovedForGood
<1>1. TypeOK /\ [Next]_vars =>
        [\A h \in Subs : hpc[h] # "none" /\ ~Registered(h) => hpc'[h] # "none" /\ ~Registered(h)']_vars
  BY RemovedStays
<1> QED BY <1>1, HubTypeCorrect, PTL DEF Spec, RemovedForGood

\* Handler h is neither registered nor in the snapshot of a Publish in flight.
Quiet(h) == ~Registered(h) /\ \A p \in Publishers : h \notin dest[p]

\* Publish sends to the subscribers of its snapshot only: once a handler is out of
\* the hub and out of the snapshots in flight its channel gets nothing more,
\* although sends run outside the lock.
NothingSentToOthers ==
    [][\A h \in Subs : Quiet(h) =>
        log'[h] = log[h] /\ (hpc[h] # "none" => Quiet(h)')]_vars

\* Who is not subscribed gets no events: what a Publish in flight at the removal may
\* still send is all that comes.
THEOREM QuietIsFinal == Spec => NothingSentToOthers
<1>1. TypeOK /\ RegistryInv /\ [Next]_vars =>
        [\A h \in Subs : Quiet(h) => log'[h] = log[h] /\ (hpc[h] # "none" => Quiet(h)')]_vars
  <2> SUFFICES ASSUME TypeOK, RegistryInv, [Next]_vars, NEW h \in Subs, Quiet(h)
               PROVE  log'[h] = log[h] /\ (hpc[h] # "none" => Quiet(h)')
    OBVIOUS
  <2> USE HubAssumption DEF TypeOK, hubVars, subVars, pubVars
  <2>1. hpc[h] # "none" => ~Registered(h)'
    BY RemovedStays DEF Quiet
  <2>2. ASSUME UNCHANGED <<log, dest>> PROVE log'[h] = log[h] /\ (hpc[h] # "none" => Quiet(h)')
    BY <2>1, <2>2 DEF Quiet
  <2>3. ASSUME NEW p \in Publishers, NEW g \in Subs, Send(p, g)
        PROVE  log'[h] = log[h] /\ (hpc[h] # "none" => Quiet(h)')
    <3>1. g # h /\ log'[h] = log[h]
      BY <2>3 DEF Send, Quiet
    <3>2. \A q \in Publishers : dest'[q] \subseteq dest[q]
      BY <2>3 DEF Send
    <3> QED BY <2>1, <3>1, <3>2 DEF Quiet
  <2>4. ASSUME NEW p \in Publishers, NEW t \in Topics, Snapshot(p, t)
        PROVE  log'[h] = log[h] /\ (hpc[h] # "none" => Quiet(h)')
    <3>1. ASSUME NEW s \in Sessions, reg[t][s] = h PROVE FALSE
      <4>1. htopic[h] = t /\ hsess[h] = s
        BY <3>1 DEF RegistryInv, RegisteredIsLive
      <4> QED BY <3>1, <4>1 DEF Quiet, Registered
    <3>2. \A q \in Publishers : h \notin dest'[q]
      BY <2>4, <3>1 DEF Snapshot, Quiet
    <3> QED BY <2>1, <2>4, <3>2 DEF Snapshot, Quiet
  <2>5. ASSUME NEW g \in Subs, SubStep(g) PROVE UNCHANGED <<log, dest>>
    BY <2>5 DEF SubStep, Subscribe, Deliver, Written, Stop, Leave
  <2>6. ASSUME \/ Cancel \/ UNCHANGED vars \/ \E p \in Publishers : Published(p)
               \/ \E t \in Topics, s \in Sessions : AppUnsubscribe(t, s)
        PROVE  UNCHANGED <<log, dest>>
    BY <2>6 DEF Cancel, AppUnsubscribe, Published, vars
  <2> QED BY <2>2, <2>3, <2>4, <2>5, <2>6 DEF Next, PubStep
<1> QED BY <1>1, HubTypeCorrect, RegistryInvariant, PTL DEF Spec, NothingSentToOthers

\* A handler that has not called Subscribe yet is in no snapshot, and its channel is
\* empty: Publish never sends an event of before the subscription.
NothingBeforeSubscribe == \A h \in Subs : hpc[h] = "none" => Quiet(h) /\ log[h] = <<>>

\* A subscriber sees events published after it subscribed only.
THEOREM EventsFollowSubscription == Spec => []NothingBeforeSubscribe
<1>1. Init => NothingBeforeSubscribe
  BY HubAssumption DEF Init, NothingBeforeSubscribe, Quiet, Registered
<1>2. TypeOK /\ RegistryInv /\ RegistryInv' /\ NothingBeforeSubscribe /\ [Next]_vars => NothingBeforeSubscribe'
  <2> SUFFICES ASSUME TypeOK, RegistryInv, RegistryInv', NothingBeforeSubscribe, [Next]_vars,
                      NEW h \in Subs, hpc'[h] = "none"
               PROVE  Quiet(h)' /\ log'[h] = <<>>
    BY DEF NothingBeforeSubscribe
  <2> USE HubAssumption DEF TypeOK, hubVars, subVars, pubVars
  <2>1. hpc[h] = "none"
    BY DEF Next, SubStep, PubStep, Cancel, Subscribe, Deliver, Written, Stop, Leave, AppUnsubscribe,
        Snapshot, Send, Published, vars
  <2>2. Quiet(h) /\ log[h] = <<>>
    BY <2>1 DEF NothingBeforeSubscribe
  <2>3. UNCHANGED <<htopic, hsess>>
    BY DEF Next, SubStep, PubStep, Cancel, Subscribe, Deliver, Written, Stop, Leave, AppUnsubscribe,
        Snapshot, Send, Published, vars
  <2>4. ~Registered(h)'
    <3> SUFFICES ASSUME reg'[htopic[h]][hsess[h]] = h PROVE FALSE
      BY <2>3 DEF Registered
    <3>1. htopic[h] \in Topics /\ hsess[h] \in Sessions /\ h # NoSub
      OBVIOUS
    <3>2. \A t \in Topics, s \in Sessions : reg'[t][s] # NoSub => hpc'[reg'[t][s]] # "none"
      BY Zenon DEF RegistryInv, RegisteredIsLive
    <3> QED BY <3>1, <3>2
  <2>5. ASSUME NEW p \in Publishers, NEW g \in Subs, Send(p, g) PROVE Quiet(h)' /\ log'[h] = <<>>
    <3>1. g # h /\ log'[h] = log[h]
      BY <2>2, <2>5 DEF Send, Quiet
    <3>2. \A q \in Publishers : dest'[q] \subseteq dest[q]
      BY <2>5 DEF Send
    <3> QED BY <2>2, <2>4, <3>1, <3>2 DEF Quiet
  <2>6. ASSUME NEW p \in Publishers, NEW t \in Topics, Snapshot(p, t) PROVE Quiet(h)' /\ log'[h] = <<>>
    <3>1. ASSUME NEW s \in Sessions, reg[t][s] = h PROVE FALSE
      <4>1. hpc[h] \in {"writing", "loop", "leaving"}
        BY <3>1 DEF RegistryInv, RegisteredIsLive
      <4> QED BY <2>1, <4>1
    <3>2. \A q \in Publishers : h \notin dest'[q]
      BY <2>2, <2>6, <3>1 DEF Snapshot, Quiet
    <3> QED BY <2>2, <2>4, <2>6, <3>2 DEF Snapshot, Quiet
  <2>7. ASSUME UNCHANGED <<log, dest>> PROVE Quiet(h)' /\ log'[h] = <<>>
    BY <2>2, <2>4, <2>7 DEF Quiet
  <2>8. ASSUME NEW g \in Subs, SubStep(g) PROVE UNCHANGED <<log, dest>>
    BY <2>8 DEF SubStep, Subscribe, Deliver, Written, Stop, Leave
  <2>9. ASSUME \/ Cancel \/ UNCHANGED vars \/ \E p \in Publishers : Published(p)
               \/ \E t \in Topics, s \in Sessions : AppUnsubscribe(t, s)
        PROVE  UNCHANGED <<log, dest>>
    BY <2>9 DEF Cancel, AppUnsubscribe, Published, vars
  <2> QED BY <2>5, <2>6, <2>7, <2>8, <2>9 DEF Next, PubStep
<1> QED BY <1>1, <1>2, HubTypeCorrect, RegistryInvariant, PTL DEF Spec
=============================================================================
