------------------------ MODULE SlidingWindowLimiter ------------------------
(***************************************************************************)
(* server.SlidingWindowLimiter as NewDefaultLimiter builds one of its two  *)
(* levels: Allow by any number of request goroutines, the background       *)
(* cleaner that CleanupEvery starts, and Stop, which swaps the stop        *)
(* channel out under the lock and closes it after releasing the lock.      *)
(*                                                                         *)
(* A step is one critical section of the limiter's mutex or one channel    *)
(* operation.  Allow holds the lock throughout, so the calls of different  *)
(* goroutines are steps of one action.                                     *)
(***************************************************************************)
EXTENDS Integers, Sequences, FiniteSets

CONSTANTS
    Keys,             \* what requests are limited by: session, API key, address
    RequestsPerKey,   \* LimiterConfig.RequestsPerSecondPerKey or ...PerMinutePerKey
    BurstSize,        \* LimiterConfig.BurstSize
    Window,           \* the sliding window, in ticks
    Stoppers,         \* goroutines that call Stop
    MaxTime,          \* bound: the clock stops here
    MaxCleaners       \* bound: how often CleanupEvery starts a cleaner

ASSUME LimiterAssumption ==
    /\ RequestsPerKey \in Nat /\ BurstSize \in Nat
    /\ Window \in Nat \ {0} /\ MaxTime \in Nat /\ MaxCleaners \in Nat

VARIABLES
    now,
    entries,   \* the map of timestamps; <<>> is an absent or empty entry
    hist,      \* history: when each request of the key was allowed
    denial,    \* history: when the key was last denied, and after how many allowed
    stopCh,    \* the current stop channel, 0 for nil
    made,      \* stop channels made so far, numbered from 1
    closed,    \* those closed
    cleaners,  \* those whose cleaner goroutine runs
    hold       \* the channel each stopper has swapped out and not closed yet, or 0

window == <<entries, hist, denial>>
stopping == <<stopCh, made, closed, cleaners, hold>>
vars == <<now, window, stopping>>

NoDenial == [at |-> 0, n |-> -1]

Limit == RequestsPerKey + BurstSize

\* Timestamps not after the cutoff are dropped up to the first that is.
Fresh(ts) == {i \in DOMAIN ts : ts[i] > now - Window}

FirstValid(ts) ==
    IF Fresh(ts) = {} THEN Len(ts) + 1
    ELSE CHOOSE i \in Fresh(ts) : \A j \in Fresh(ts) : i <= j

MutPruneNever(ts) == ts
Prune(ts) == SubSeq(ts, FirstValid(ts), Len(ts))

Init ==
    /\ now = 0
    /\ entries = [k \in Keys |-> <<>>]
    /\ hist = [k \in Keys |-> <<>>]
    /\ denial = [k \in Keys |-> NoDenial]
    /\ stopCh = 0 /\ made = 0 /\ closed = {} /\ cleaners = {}
    /\ hold = [p \in Stoppers |-> 0]

Tick ==
    /\ now < MaxTime
    /\ now' = now + 1
    /\ UNCHANGED <<window, stopping>>

MutAllow(k) ==
    LET timestamps == Prune(entries[k]) IN
    /\ IF Len(timestamps) > Limit
       THEN /\ entries' = [entries EXCEPT ![k] = timestamps]
            /\ denial' = [denial EXCEPT ![k] = [at |-> now, n |-> Len(hist[k])]]
            /\ UNCHANGED hist
       ELSE /\ entries' = [entries EXCEPT ![k] = Append(timestamps, now)]
            /\ hist' = [hist EXCEPT ![k] = Append(@, now)]
            /\ UNCHANGED denial
    /\ UNCHANGED <<now, stopping>>

Allow(k) ==
    LET timestamps == Prune(entries[k]) IN
    /\ IF Len(timestamps) >= Limit
       THEN /\ entries' = [entries EXCEPT ![k] = timestamps]
            /\ denial' = [denial EXCEPT ![k] = [at |-> now, n |-> Len(hist[k])]]
            /\ UNCHANGED hist
       ELSE /\ entries' = [entries EXCEPT ![k] = Append(timestamps, now)]
            /\ hist' = [hist EXCEPT ![k] = Append(@, now)]
            /\ UNCHANGED denial
    /\ UNCHANGED <<now, stopping>>

MutCleanupEvery ==
    /\ made < MaxCleaners
    /\ made' = made + 1
    /\ stopCh' = made'
    /\ cleaners' = cleaners \cup {made'}
    /\ UNCHANGED <<now, window, closed, hold>>

\* Does nothing while a stop channel is set.
CleanupEvery ==
    /\ stopCh = 0
    /\ made < MaxCleaners
    /\ made' = made + 1
    /\ stopCh' = made'
    /\ cleaners' = cleaners \cup {made'}
    /\ UNCHANGED <<now, window, closed, hold>>

\* An entry that starts with a stale timestamp is dropped whole.
MutGC(c) ==
    /\ c \in cleaners
    /\ entries' = [k \in Keys |-> IF Prune(entries[k]) = entries[k] THEN entries[k] ELSE <<>>]
    /\ UNCHANGED <<now, hist, denial, stopping>>

\* The ticker fires: gc prunes every key and drops the ones left empty.  The
\* select may still choose this after the channel is closed.
GC(c) ==
    /\ c \in cleaners
    /\ entries' = [k \in Keys |-> Prune(entries[k])]
    /\ UNCHANGED <<now, hist, denial, stopping>>

MutCleanerExit(c) ==
    /\ c \in cleaners
    /\ c \in closed
    /\ stopCh = 0
    /\ cleaners' = cleaners \ {c}
    /\ UNCHANGED <<now, window, stopCh, made, closed, hold>>

CleanerExit(c) ==
    /\ c \in cleaners
    /\ c \in closed
    /\ cleaners' = cleaners \ {c}
    /\ UNCHANGED <<now, window, stopCh, made, closed, hold>>

MutStopSwap(p) ==
    /\ hold[p] = 0
    /\ stopCh # 0
    /\ hold' = [hold EXCEPT ![p] = stopCh]
    /\ UNCHANGED <<now, window, stopCh, made, closed, cleaners>>

\* Stop takes the channel under the lock; with none to take it has no effect.
StopSwap(p) ==
    /\ hold[p] = 0
    /\ stopCh # 0
    /\ hold' = [hold EXCEPT ![p] = stopCh]
    /\ stopCh' = 0
    /\ UNCHANGED <<now, window, made, closed, cleaners>>

\* ... and closes it once the lock is released.
StopClose(p) ==
    /\ hold[p] # 0
    /\ closed' = closed \cup {hold[p]}
    /\ hold' = [hold EXCEPT ![p] = 0]
    /\ UNCHANGED <<now, window, stopCh, made, cleaners>>

Next ==
    \/ Tick
    \/ \E k \in Keys : Allow(k)
    \/ CleanupEvery
    \/ \E c \in 1..made : GC(c) \/ CleanerExit(c)
    \/ \E p \in Stoppers : StopSwap(p) \/ StopClose(p)

\* A cleaner whose channel stays closed leaves its select at last, and a stopper
\* that swapped a channel out runs on to close it.
Fairness ==
    /\ \A c \in 1..MaxCleaners : WF_vars(CleanerExit(c))
    /\ \A p \in Stoppers : WF_vars(StopClose(p))

Spec == Init /\ [][Next]_vars
FairSpec == Spec /\ Fairness

(***************************************************************************)
(* Properties.                                                             *)
(***************************************************************************)
\* Every variable keeps the shape of the Go state it stands for.
TypeOK ==
    /\ now \in 0..MaxTime
    /\ entries \in [Keys -> Seq(Nat)] /\ hist \in [Keys -> Seq(Nat)]
    /\ denial \in [Keys -> [at : Nat, n : Nat \cup {-1}]]
    /\ made \in 0..MaxCleaners /\ stopCh \in 0..made
    /\ closed \subseteq 1..made /\ cleaners \subseteq 1..made
    /\ hold \in [Stoppers -> 0..made]

\* No key ever gets more than Limit requests through in any span shorter than
\* the window, wherever that span starts and whenever the cleaner ran: the
\* promise of a sliding window, where a fixed window would let twice as many by.
RateBound ==
    \A k \in Keys : \A i \in 1..(Len(hist[k]) - Limit) :
        hist[k][i + Limit] - hist[k][i] >= Window

\* Pruning and the cleaner are invisible: every verdict is that of a limiter that
\* keeps each admission for ever and counts those less than a window old.
Ideal == INSTANCE SlidingWindow

ImplementsWindow == Ideal!Spec

\* A request is denied only when Limit requests of that key were allowed less
\* than a window earlier: neither pruning nor the cleaner miscounts.
DeniedOnlyAtLimit ==
    \A k \in Keys : denial[k] # NoDenial =>
        /\ denial[k].n >= Limit
        /\ \A i \in (denial[k].n - Limit + 1)..denial[k].n :
            denial[k].at - hist[k][i] < Window

\* No stop channel is closed twice, which would panic, however many goroutines
\* call Stop at once: a channel still to be closed is open and has one owner,
\* a stopper that swapped it out or the stopCh field.
ClosedOnce ==
    /\ stopCh \notin closed
    /\ \A p \in Stoppers : hold[p] # 0 =>
        /\ hold[p] \notin closed /\ hold[p] # stopCh
        /\ \A q \in Stoppers : q # p => hold[q] # hold[p]

\* No cleaner runs out of reach of Stop: its channel is the current one, is
\* about to be closed, or is closed.
NoOrphanCleaner ==
    \A c \in cleaners : c = stopCh \/ c \in closed \/ \E p \in Stoppers : hold[p] = c

\* A cleaner that Stop was called for ends, also when CleanupEvery has started
\* the next one meanwhile.
StoppedCleanerExits ==
    \A c \in 1..MaxCleaners : (\E p \in Stoppers : hold[p] = c) ~> c \notin cleaners
=============================================================================
