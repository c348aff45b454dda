-------------------------------- MODULE Hub --------------------------------
(***************************************************************************)
(* server.Hub, the in-memory publish/subscribe bus, with the goroutines    *)
(* that use it: each SubscribeHandler call is one subscriber, each         *)
(* publisher repeatedly runs PublishHandler, and the application may call  *)
(* the exported Unsubscribe itself.                                        *)
(*                                                                         *)
(* A step is one critical section of Hub.mu or one channel operation.  A   *)
(* subscriber's Events channel is the log of what was put into it and the  *)
(* number of events taken out: the buffer holds the rest.                  *)
(***************************************************************************)
EXTENDS Integers, Sequences, FiniteSets

CONSTANTS
    Topics, Sessions,
    Tcp,           \* the sessions over TCP, which run one handler at a time
    Subs,          \* calls of SubscribeHandler
    Publishers,    \* goroutines calling Publish
    NoSub,
    Cap,           \* capacity of Subscriber.Events
    MaxEvents      \* bound: events each publisher sends

ASSUME HubAssumption ==
    /\ NoSub \notin Subs /\ Tcp \subseteq Sessions
    /\ Cap \in Nat \ {0} /\ MaxEvents \in Nat

VARIABLES
    topics,     \* keys of the outer map Hub.subscribers
    reg,        \* the inner maps: the subscriber under topic and session, or NoSub
    ctxDone,    \* the context of the serving connections is cancelled
    hpc,        \* where SubscribeHandler is: none, writing, loop, leaving, gone
    htopic,     \* the topic it was asked for
    hsess,      \* the session asking; subID is made of topic and session
    done,       \* Subscriber.done is closed
    log,        \* every event put into Subscriber.Events
    taken,      \* how many of them the handler has taken and written out
    ppc,        \* where Publish is: idle, sending
    seq,        \* events the publisher has started to publish
    ptopic,     \* the topic of the one in progress
    dest        \* subscribers of its snapshot still to be sent to

hubVars == <<topics, reg>>
subVars == <<hpc, htopic, hsess, done, log, taken>>
pubVars == <<ppc, seq, ptopic, dest>>
vars == <<hubVars, ctxDone, subVars, pubVars>>

Events == [pub : Publishers, n : 0..MaxEvents, topic : Topics]

Init ==
    /\ topics = {} /\ reg = [t \in Topics |-> [s \in Sessions |-> NoSub]]
    /\ ctxDone = FALSE
    /\ hpc = [h \in Subs |-> "none"]
    /\ htopic \in [Subs -> Topics] /\ hsess \in [Subs -> Sessions]
    /\ done = [h \in Subs |-> FALSE]
    /\ log = [h \in Subs |-> <<>>]
    /\ taken = [h \in Subs |-> 0]
    /\ ppc = [p \in Publishers |-> "idle"]
    /\ seq = [p \in Publishers |-> 0]
    /\ ptopic \in [Publishers -> Topics]
    /\ dest = [p \in Publishers |-> {}]

(***************************************************************************)
(* SubscribeHandler.                                                       *)
(***************************************************************************)
\* Subscribe replaces whatever is registered under the same subID; then the
\* handler writes the acknowledgement.
Subscribe(h) ==
    /\ hpc[h] = "none"
    /\ hsess[h] \in Tcp => \A g \in Subs : hsess[g] = hsess[h] => hpc[g] \in {"none", "gone"}
    /\ topics' = topics \cup {htopic[h]}
    /\ reg' = [reg EXCEPT ![htopic[h]][hsess[h]] = h]
    /\ hpc' = [hpc EXCEPT ![h] = "writing"]
    /\ UNCHANGED <<ctxDone, htopic, hsess, done, log, taken, pubVars>>

Buffered(h) == Len(log[h]) - taken[h]

\* The select takes an event and writes it out.
Deliver(h) ==
    /\ hpc[h] = "loop"
    /\ Buffered(h) > 0
    /\ taken' = [taken EXCEPT ![h] = @ + 1]
    /\ hpc' = [hpc EXCEPT ![h] = "writing"]
    /\ UNCHANGED <<hubVars, ctxDone, htopic, hsess, done, log, pubVars>>

\* The write returns, maybe with an error, which is ignored.  It may take for ever
\* if the client stops reading.
Written(h) ==
    /\ hpc[h] = "writing"
    /\ hpc' = [hpc EXCEPT ![h] = "loop"]
    /\ UNCHANGED <<hubVars, ctxDone, htopic, hsess, done, log, taken, pubVars>>

MutStopIgnoresContext(h) ==
    /\ hpc[h] = "loop"
    /\ done[h]
    /\ hpc' = [hpc EXCEPT ![h] = "leaving"]
    /\ UNCHANGED <<hubVars, ctxDone, htopic, hsess, done, log, taken, pubVars>>

MutStopIgnoresDone(h) ==
    /\ hpc[h] = "loop"
    /\ ctxDone
    /\ hpc' = [hpc EXCEPT ![h] = "leaving"]
    /\ UNCHANGED <<hubVars, ctxDone, htopic, hsess, done, log, taken, pubVars>>

\* The select sees ctx.Done or the subscriber's done channel and returns.
Stop(h) ==
    /\ hpc[h] = "loop"
    /\ ctxDone \/ done[h]
    /\ hpc' = [hpc EXCEPT ![h] = "leaving"]
    /\ UNCHANGED <<hubVars, ctxDone, htopic, hsess, done, log, taken, pubVars>>

(***************************************************************************)
(* Unsubscribe closes and removes whatever is registered under the key,    *)
(* then drops the topic if nothing is left under it.                       *)
(***************************************************************************)
LastUnder(t, s) == \A r \in Sessions : r # s => reg[t][r] = NoSub

MutUnsubscribeDropsTopic(t, s) ==
    /\ reg' = [reg EXCEPT ![t][s] = NoSub]
    /\ done' = [h \in Subs |-> done[h] \/ reg[t][s] = h]
    /\ topics' = topics \ {t}

MutUnsubscribeForgets(t, s) ==
    /\ reg' = reg
    /\ done' = [h \in Subs |-> done[h] \/ reg[t][s] = h]
    /\ topics' = topics

MutUnsubscribeSilent(t, s) ==
    /\ reg' = [reg EXCEPT ![t][s] = NoSub]
    /\ done' = done
    /\ topics' = IF LastUnder(t, s) THEN topics \ {t} ELSE topics

Unsubscribe(t, s) ==
    /\ reg' = [reg EXCEPT ![t][s] = NoSub]
    /\ done' = [h \in Subs |-> done[h] \/ reg[t][s] = h]
    /\ topics' = IF LastUnder(t, s) THEN topics \ {t} ELSE topics

\* The handler's deferred Unsubscribe, by key: it may hit another subscriber.
Leave(h) ==
    /\ hpc[h] = "leaving"
    /\ Unsubscribe(htopic[h], hsess[h])
    /\ hpc' = [hpc EXCEPT ![h] = "gone"]
    /\ UNCHANGED <<ctxDone, htopic, hsess, log, taken, pubVars>>

\* The application removes a subscriber through the exported method.
AppUnsubscribe(t, s) ==
    /\ reg[t][s] # NoSub
    /\ Unsubscribe(t, s)
    /\ UNCHANGED <<ctxDone, hpc, htopic, hsess, log, taken, pubVars>>

(***************************************************************************)
(* Publish.                                                                *)
(***************************************************************************)
MutSnapshot(p, t) ==
    /\ ppc[p] = "idle"
    /\ seq[p] < MaxEvents
    /\ seq' = [seq EXCEPT ![p] = @ + 1]
    /\ ptopic' = [ptopic EXCEPT ![p] = t]
    /\ dest' = [dest EXCEPT ![p] = {reg[t][s] : s \in Sessions}]
    /\ ppc' = [ppc EXCEPT ![p] = "sending"]
    /\ UNCHANGED <<hubVars, ctxDone, subVars>>

\* The snapshot of the topic's subscribers, under the lock.
Snapshot(p, t) ==
    /\ ppc[p] = "idle"
    /\ seq[p] < MaxEvents
    /\ seq' = [seq EXCEPT ![p] = @ + 1]
    /\ ptopic' = [ptopic EXCEPT ![p] = t]
    /\ dest' = [dest EXCEPT ![p] = {reg[t][s] : s \in Sessions} \ {NoSub}]
    /\ ppc' = [ppc EXCEPT ![p] = "sending"]
    /\ UNCHANGED <<hubVars, ctxDone, subVars>>

MutSendBlocks(p, h) ==
    /\ ppc[p] = "sending"
    /\ h \in dest[p]
    /\ Buffered(h) < Cap
    /\ log' = [log EXCEPT ![h] = Append(@, [pub |-> p, n |-> seq[p], topic |-> ptopic[p]])]
    /\ dest' = [dest EXCEPT ![p] = @ \ {h}]
    /\ UNCHANGED <<hubVars, ctxDone, hpc, htopic, hsess, done, taken, ppc, seq, ptopic>>

MutSendRetry(p, h) ==
    /\ ppc[p] = "sending"
    /\ h \in dest[p]
    /\ log' = IF Buffered(h) < Cap
              THEN [log EXCEPT ![h] = Append(@, [pub |-> p, n |-> seq[p], topic |-> ptopic[p]])]
              ELSE log
    /\ dest' \in {dest, [dest EXCEPT ![p] = @ \ {h}]}
    /\ UNCHANGED <<hubVars, ctxDone, hpc, htopic, hsess, done, taken, ppc, seq, ptopic>>

\* One non-blocking send, outside the lock: a full buffer drops the event.
Send(p, h) ==
    /\ ppc[p] = "sending"
    /\ h \in dest[p]
    /\ log' = IF Buffered(h) < Cap
              THEN [log EXCEPT ![h] = Append(@, [pub |-> p, n |-> seq[p], topic |-> ptopic[p]])]
              ELSE log
    /\ dest' = [dest EXCEPT ![p] = @ \ {h}]
    /\ UNCHANGED <<hubVars, ctxDone, hpc, htopic, hsess, done, taken, ppc, seq, ptopic>>

Published(p) ==
    /\ ppc[p] = "sending"
    /\ dest[p] = {}
    /\ ppc' = [ppc EXCEPT ![p] = "idle"]
    /\ UNCHANGED <<hubVars, ctxDone, subVars, seq, ptopic, dest>>

Cancel ==
    /\ ~ctxDone
    /\ ctxDone' = TRUE
    /\ UNCHANGED <<hubVars, subVars, pubVars>>

SubStep(h) == Subscribe(h) \/ Deliver(h) \/ Written(h) \/ Stop(h) \/ Leave(h)
PubStep(p) ==
    \/ \E t \in Topics : Snapshot(p, t)
    \/ \E h \in Subs : Send(p, h)
    \/ Published(p)

Next ==
    \/ Cancel
    \/ \E h \in Subs : SubStep(h)
    \/ \E t \in Topics, s \in Sessions : AppUnsubscribe(t, s)
    \/ \E p \in Publishers : PubStep(p)

(***************************************************************************)
(* Fairness: a runnable goroutine runs, and a select, which picks among    *)
(* its ready cases at random, does not pass over done or ctx.Done for      *)
(* ever.  Over QUIC a write returns once the context is cancelled, for     *)
(* handleConnection then closes the connection; over TCP the cancellation  *)
(* closes nothing.  Nothing else is assumed of clients.                    *)
(***************************************************************************)
Fairness ==
    /\ \A h \in Subs :
        /\ SF_vars(Stop(h)) /\ WF_vars(Leave(h))
        /\ WF_vars(ctxDone /\ hsess[h] \notin Tcp /\ Written(h))
    /\ \A p \in Publishers :
        WF_vars(Published(p)) /\ \A h \in Subs : WF_vars(Send(p, h))

Spec == Init /\ [][Next]_vars
FairSpec == Spec /\ Fairness

(***************************************************************************)
(* Properties.                                                             *)
(***************************************************************************)
\* Every variable keeps the shape of the Go state it stands for.
TypeOK ==
    /\ topics \subseteq Topics /\ reg \in [Topics -> [Sessions -> Subs \cup {NoSub}]]
    /\ ctxDone \in BOOLEAN
    /\ hpc \in [Subs -> {"none", "writing", "loop", "leaving", "gone"}]
    /\ htopic \in [Subs -> Topics] /\ hsess \in [Subs -> Sessions]
    /\ done \in [Subs -> BOOLEAN]
    /\ log \in [Subs -> Seq(Events)] /\ taken \in [Subs -> Nat]
    /\ ppc \in [Publishers -> {"idle", "sending"}]
    /\ seq \in [Publishers -> 0..MaxEvents]
    /\ ptopic \in [Publishers -> Topics] /\ dest \in [Publishers -> SUBSET Subs]

\* Topics and ListTopicsHandler list exactly the topics that have subscribers,
\* under any interleaving of subscribers joining and leaving.
TopicsExact == \A t \in Topics : t \in topics <=> \E s \in Sessions : reg[t][s] # NoSub

\* What is registered is an open subscriber of that topic and session whose
\* handler still runs: so Unsubscribe never closes a channel twice, which would
\* panic with Hub.mu held, and no ended handler stays behind in the hub, although
\* handlers of one session share a subID and remove each other.
RegisteredIsLive ==
    \A t \in Topics, s \in Sessions : reg[t][s] # NoSub =>
        LET h == reg[t][s]
        IN  /\ htopic[h] = t /\ hsess[h] = s
            /\ ~done[h]
            /\ hpc[h] \in {"writing", "loop", "leaving"}

\* A handler whose session subscribed to the topic once only is reached by every
\* Publish until it leaves or the application removes it.
SoleSubscriberReached ==
    \A h \in Subs :
        /\ hpc[h] \in {"writing", "loop"}
        /\ ~done[h]
        /\ \A g \in Subs : g # h /\ htopic[g] = htopic[h] /\ hsess[g] = hsess[h] => hpc[g] = "none"
        => reg[htopic[h]][hsess[h]] = h

\* A subscriber's channel holds events of its own topic only, and those of one
\* publisher in the order published, none twice: also when another handler has
\* replaced it, or it has left, between the snapshot and the send.
InOrderOnce ==
    \A h \in Subs :
        /\ \A i \in DOMAIN log[h] : log[h][i].topic = htopic[h]
        /\ \A i, j \in DOMAIN log[h] :
            i < j /\ log[h][i].pub = log[h][j].pub => log[h][i].n < log[h][j].n

\* The buffer never exceeds the channel's capacity, and nothing is taken from
\* it that was not put in, however many publishers send at once.
BufferBounded == \A h \in Subs : taken[h] <= Len(log[h]) /\ Buffered(h) <= Cap

\* Publish returns whatever the subscribers do: a client that never reads
\* cannot block a publisher.
PublishReturns == \A p \in Publishers : ppc[p] = "sending" ~> ppc[p] = "idle"

\* A subscriber removed by someone else ends its handler, unless its client stops
\* reading and so keeps the handler in a write.
RemovedLeaves ==
    \A h \in Subs : []<>(hpc[h] # "writing") => (done[h] ~> hpc[h] = "gone")

\* After the context is cancelled the hub empties for good, unless a client over TCP
\* stops reading and so keeps its handler in a write.
ShutdownEmpties ==
    (\A h \in Subs : []<>(hsess[h] \in Tcp => hpc[h] # "writing")) => (ctxDone ~> [](topics = {}))

\* What Publish's comment says, "to all subscribers of a topic", needs every
\* handler in its loop to be registered.
EverySubscriberReached ==
    \A h \in Subs : hpc[h] \in {"writing", "loop"} /\ ~done[h] => reg[htopic[h]][hsess[h]] = h
=============================================================================
