--------------------- MODULE SlidingWindowLimiterProofs ---------------------
(***************************************************************************)
(* What SlidingWindowLimiter guarantees for every limit, window, set of    *)
(* keys and number of goroutines calling Stop.                             *)
(***************************************************************************)
EXTENDS SlidingWindowLimiter, FiniteSetTheorems, SequenceTheorems, TLAPS, WellFoundedInduction

LEMMA LimitIsNat == Limit \in Nat
BY LimiterAssumption DEF Limit

\* Every set of naturals that is not empty has a least element.
LEMMA LeastIndex ==
    ASSUME NEW S \in SUBSET Nat, S # {}
    PROVE  \E i \in S : \A j \in S : i <= j
<1> DEFINE R == OpToRel(<, Nat)
<1>1. \E i \in S : \A j \in S : ~(<<j, i>> \in R)
  BY NatLessThanWellFounded, WFMin
<1>2. \A i, j \in Nat : <<j, i>> \in R <=> j < i
  BY DEF OpToRel
<1> HIDE DEF R
<1>3. PICK i \in S : \A j \in S : ~(<<j, i>> \in R)
  BY <1>1
<1>4. ASSUME NEW j \in S PROVE i <= j
  <2>1. i \in Nat /\ j \in Nat
    OBVIOUS
  <2>2. ~(j < i)
    BY <1>2, <1>3, <2>1
  <2> QED BY <2>1, <2>2
<1> QED BY <1>4

(***************************************************************************)
(* Sequences of timestamps.                                                *)
(***************************************************************************)
\* The stored timestamps e are the tail of the admissions h, the rest of h is
\* at least a window old at time t, and h is in order of time.
KeepsTail(e, h, t) ==
    /\ Len(e) <= Len(h)
    /\ \A i \in 1..Len(e) : e[i] = h[Len(h) - Len(e) + i]
    /\ \A i \in 1..(Len(h) - Len(e)) : t - h[i] >= Window
    /\ \A i \in 1..Len(h) : h[i] <= t
    /\ \A i, j \in 1..Len(h) : i <= j => h[i] <= h[j]

Rate(h) == \A i \in 1..(Len(h) - Limit) : h[i + Limit] - h[i] >= Window

\* FirstValid is the index the pruning loops of Allow and gc stop at.
LEMMA FirstValidStops ==
    ASSUME now \in Nat, NEW ts \in Seq(Nat)
    PROVE  /\ FirstValid(ts) \in 1..(Len(ts) + 1)
           /\ \A i \in 1..(FirstValid(ts) - 1) : now - ts[i] >= Window
           /\ FirstValid(ts) <= Len(ts) => now - ts[FirstValid(ts)] < Window
<1>1. CASE Fresh(ts) = {}
  BY <1>1, LimiterAssumption DEF FirstValid, Fresh
<1>2. CASE Fresh(ts) # {}
  <2>1. Fresh(ts) \in SUBSET Nat /\ Fresh(ts) \subseteq 1..Len(ts)
    BY DEF Fresh
  <2>2. \E i \in Fresh(ts) : \A j \in Fresh(ts) : i <= j
    BY <1>2, <2>1, LeastIndex
  <2>3. FirstValid(ts) \in Fresh(ts) /\ \A j \in Fresh(ts) : FirstValid(ts) <= j
    BY <1>2, <2>2 DEF FirstValid
  <2>4. \A i \in 1..(FirstValid(ts) - 1) : i \in 1..Len(ts) /\ i \notin Fresh(ts)
    BY <2>1, <2>3
  <2>5. \A i \in 1..Len(ts) : ts[i] \in Nat /\ (i \notin Fresh(ts) => now - ts[i] >= Window)
    BY LimiterAssumption DEF Fresh
  <2>6. now - ts[FirstValid(ts)] < Window
    BY <2>3, <2>1, <2>5, LimiterAssumption DEF Fresh
  <2> QED BY <2>1, <2>3, <2>4, <2>5, <2>6
<1> QED BY <1>1, <1>2

\* The suffix of a sequence from any place, one past its end included.
LEMMA SuffixProperties ==
    ASSUME NEW e \in Seq(Nat), NEW f \in 1..(Len(e) + 1)
    PROVE  /\ SubSeq(e, f, Len(e)) \in Seq(Nat)
           /\ Len(SubSeq(e, f, Len(e))) = Len(e) - f + 1
           /\ \A i \in 1..Len(SubSeq(e, f, Len(e))) : SubSeq(e, f, Len(e))[i] = e[f + i - 1]
<1>1. Len(e) \in Int /\ f \in Int /\ (\A i \in f..Len(e) : e[i] \in Nat)
  OBVIOUS
<1>2. SubSeq(e, f, Len(e)) \in Seq(Nat)
  BY <1>1, SubSeqProperties, Zenon
<1>3. Len(SubSeq(e, f, Len(e))) = IF f <= Len(e) THEN Len(e) - f + 1 ELSE 0
  BY <1>1, SubSeqProperties, Zenon
<1>4. \A i \in 1..(Len(e) - f + 1) : SubSeq(e, f, Len(e))[i] = e[f + i - 1]
  BY <1>1, SubSeqProperties
<1>5. Len(SubSeq(e, f, Len(e))) = Len(e) - f + 1
  <2>1. f <= Len(e) \/ f = Len(e) + 1
    BY <1>1
  <2>2. f = Len(e) + 1 => ~(f <= Len(e)) /\ Len(e) - f + 1 = 0
    BY <1>1
  <2> QED BY <1>3, <2>1, <2>2, Zenon
<1> QED BY <1>2, <1>4, <1>5, Zenon

\* Pruning forgets admissions a window old and no others.
LEMMA PruneKeepsTail ==
    ASSUME now \in Nat, NEW e \in Seq(Nat), NEW h \in Seq(Nat), KeepsTail(e, h, now)
    PROVE  /\ Prune(e) \in Seq(Nat)
           /\ KeepsTail(Prune(e), h, now)
           /\ \A i \in 1..Len(Prune(e)) : now - Prune(e)[i] < Window
<1> DEFINE f == FirstValid(e)
           p == Prune(e)
<1>1. /\ f \in 1..(Len(e) + 1)
      /\ \A i \in 1..(f - 1) : now - e[i] >= Window
      /\ f <= Len(e) => now - e[f] < Window
  BY FirstValidStops
<1> HIDE DEF f
<1>2. p = SubSeq(e, f, Len(e))
  BY DEF Prune, f
<1>3. /\ p \in Seq(Nat) /\ Len(p) = Len(e) - f + 1
      /\ \A i \in 1..Len(p) : p[i] = e[f + i - 1]
  BY <1>1, <1>2, SuffixProperties, Zenon
<1>8. \A i \in 1..Len(p) : p[i] \in Nat
  BY <1>3
<1> HIDE DEF p
<1>n. Len(e) \in Nat /\ Len(h) \in Nat /\ Len(p) \in Nat /\ Len(e) <= Len(h) /\ Len(p) <= Len(e)
  BY <1>1, <1>3 DEF KeepsTail
<1>m. f \in Nat /\ 1 <= f /\ Len(p) = Len(e) - f + 1
  BY <1>1, <1>3
<1>4. ASSUME NEW i \in 1..Len(p) PROVE p[i] = h[Len(h) - Len(p) + i]
  <2> DEFINE j == f + i - 1
  <2>1. j \in 1..Len(e) /\ Len(h) - Len(e) + j = Len(h) - Len(p) + i
    BY <1>1, <1>3, <1>n
  <2>2. e[j] = h[Len(h) - Len(e) + j]
    BY <2>1 DEF KeepsTail
  <2> QED BY <1>3, <2>1, <2>2
<1>5. \A i \in 1..(Len(h) - Len(p)) : now - h[i] >= Window
  <2> SUFFICES ASSUME NEW i \in 1..(Len(h) - Len(p)) PROVE now - h[i] >= Window
    OBVIOUS
  <2>1. CASE i <= Len(h) - Len(e)
    BY <2>1 DEF KeepsTail
  <2>2. CASE i > Len(h) - Len(e)
    <3> DEFINE j == i - (Len(h) - Len(e))
    <3>1. j \in 1..(f - 1) /\ j \in 1..Len(e) /\ i = Len(h) - Len(e) + j
      <4>1. i \in Nat /\ f \in Nat /\ 1 <= i /\ i <= Len(h) - Len(p)
        BY <1>m, <1>n
      <4>2. j \in Int /\ 1 <= j /\ j <= f - 1 /\ j <= Len(e)
        BY <4>1, <2>2, <1>m, <1>n
      <4> QED BY <4>1, <4>2, <1>n
    <3>2. e[j] = h[i]
      BY <3>1 DEF KeepsTail
    <3> QED BY <1>1, <3>1, <3>2
  <2> QED BY <2>1, <2>2
<1>6. KeepsTail(p, h, now)
  BY <1>1, <1>3, <1>4, <1>5 DEF KeepsTail
<1>7. \A i \in 1..Len(p) : now - p[i] < Window
  <2> SUFFICES ASSUME NEW i \in 1..Len(p) PROVE now - p[i] < Window
    OBVIOUS
  <2>1. 1 \in 1..Len(p) /\ p[1] = e[f] /\ f <= Len(e)
    BY <1>1, <1>3
  <2>2. Len(h) - Len(p) + 1 \in 1..Len(h) /\ Len(h) - Len(p) + i \in 1..Len(h)
    BY <1>n
  <2>3. h[Len(h) - Len(p) + 1] <= h[Len(h) - Len(p) + i]
    <3>1. Len(h) - Len(p) + 1 <= Len(h) - Len(p) + i
      BY <1>n
    <3> QED BY <2>2, <3>1, <1>6 DEF KeepsTail
  <2>4. p[1] <= p[i]
    BY <1>4, <2>1, <2>3
  <2>5. p[1] \in Nat /\ p[i] \in Nat
    BY <1>8, <2>1
  <2> QED BY <1>1, <2>1, <2>4, <2>5, LimiterAssumption
<1> QED BY <1>3, <1>6, <1>7 DEF p

\* Recording an admission keeps the correspondence.
LEMMA AppendKeepsTail ==
    ASSUME NEW t \in Nat, NEW e \in Seq(Nat), NEW h \in Seq(Nat), KeepsTail(e, h, t)
    PROVE  KeepsTail(Append(e, t), Append(h, t), t)
<1> DEFINE e2 == Append(e, t)
           h2 == Append(h, t)
<1>1. /\ Len(e2) = Len(e) + 1 /\ Len(h2) = Len(h) + 1
      /\ \A i \in 1..Len(e) : e2[i] = e[i]
      /\ \A i \in 1..Len(h) : h2[i] = h[i]
      /\ e2[Len(e) + 1] = t /\ h2[Len(h) + 1] = t
  OBVIOUS
<1>n. Len(e) \in Nat /\ Len(h) \in Nat /\ Len(e) <= Len(h) /\ \A i \in 1..Len(h) : h[i] \in Nat
  BY DEF KeepsTail
<1> HIDE DEF e2, h2
<1>2. ASSUME NEW i \in 1..Len(e2) PROVE e2[i] = h2[Len(h2) - Len(e2) + i]
  <2>1. CASE i \in 1..Len(e)
    <3>1. Len(h2) - Len(e2) + i = Len(h) - Len(e) + i /\ Len(h) - Len(e) + i \in 1..Len(h)
      BY <1>1, <1>n, <2>1
    <3>2. e[i] = h[Len(h) - Len(e) + i]
      BY <2>1 DEF KeepsTail
    <3> QED BY <1>1, <2>1, <3>1, <3>2
  <2>2. CASE i = Len(e) + 1
    BY <1>1, <1>n, <2>2
  <2> QED BY <1>1, <1>n, <2>1, <2>2
<1>3. ASSUME NEW i \in 1..(Len(h2) - Len(e2)) PROVE t - h2[i] >= Window
  <2>1. i \in 1..(Len(h) - Len(e)) /\ i \in 1..Len(h)
    BY <1>1, <1>n
  <2> QED BY <1>1, <2>1 DEF KeepsTail
<1>4. ASSUME NEW i \in 1..Len(h2) PROVE h2[i] <= t
  <2>1. CASE i \in 1..Len(h)
    BY <1>1, <2>1 DEF KeepsTail
  <2>2. CASE i = Len(h) + 1
    BY <1>1, <2>2
  <2> QED BY <1>1, <1>n, <2>1, <2>2
<1>5. ASSUME NEW i \in 1..Len(h2), NEW j \in 1..Len(h2), i <= j PROVE h2[i] <= h2[j]
  <2>1. CASE j \in 1..Len(h)
    <3>1. i \in 1..Len(h)
      BY <1>1, <1>n, <1>5, <2>1
    <3> QED BY <1>1, <1>5, <2>1, <3>1 DEF KeepsTail
  <2>2. CASE j = Len(h) + 1
    BY <1>1, <1>4, <2>2
  <2> QED BY <1>1, <1>n, <2>1, <2>2
<1>6. Len(e2) <= Len(h2)
  BY <1>1 DEF KeepsTail
<1> QED BY <1>2, <1>3, <1>4, <1>5, <1>6 DEF KeepsTail, e2, h2

\* Time passing keeps it too.
LEMMA LaterKeepsTail ==
    ASSUME NEW t \in Nat, NEW u \in Nat, t <= u, NEW e \in Seq(Nat), NEW h \in Seq(Nat), KeepsTail(e, h, t)
    PROVE  KeepsTail(e, h, u)
BY LimiterAssumption DEF KeepsTail

LEMMA LastOrEarlier ==
    ASSUME NEW n \in Nat, NEW l \in Nat, NEW m, m = n + 1, NEW i \in 1..(m - l)
    PROVE  i + l <= n \/ i + l = n + 1
OBVIOUS

\* With fewer than Limit admissions left in the window one more is in bounds.
LEMMA AppendKeepsRate ==
    ASSUME NEW t \in Nat, NEW e \in Seq(Nat), NEW h \in Seq(Nat), KeepsTail(e, h, t),
           Len(e) < Limit, Rate(h)
    PROVE  Rate(Append(h, t))
<1> DEFINE h2 == Append(h, t)
<1>1. /\ Len(h2) = Len(h) + 1
      /\ \A i \in 1..Len(h) : h2[i] = h[i]
      /\ h2[Len(h) + 1] = t
  OBVIOUS
<1>n. Len(e) \in Nat /\ Len(h) \in Nat /\ Len(e) <= Len(h) /\ Limit \in Nat
  BY LimitIsNat DEF KeepsTail
<1> HIDE DEF h2
<1>2. ASSUME NEW i \in 1..(Len(h2) - Limit) PROVE h2[i + Limit] - h2[i] >= Window
  <2>1. CASE i + Limit <= Len(h)
    <3>1. i \in 1..(Len(h) - Limit) /\ i \in 1..Len(h) /\ i + Limit \in 1..Len(h)
      BY <1>n, <2>1
    <3> QED BY <1>1, <3>1 DEF Rate
  <2>2. CASE i + Limit = Len(h) + 1
    <3>1. i \in 1..(Len(h) - Len(e)) /\ i \in 1..Len(h)
      BY <1>n, <2>2
    <3> QED BY <1>1, <2>2, <3>1 DEF KeepsTail
  <2>3. i + Limit <= Len(h) \/ i + Limit = Len(h) + 1
    <3>1. Len(h2) = Len(h) + 1
      BY <1>1
    <3> QED BY <3>1, <1>n, LastOrEarlier, Zenon
  <2> QED BY <2>1, <2>2, <2>3
<1> QED BY <1>2 DEF Rate, h2

(***************************************************************************)
(* Types.                                                                  *)
(***************************************************************************)
LEMMA PruneType ==
    ASSUME now \in Nat, NEW e \in Seq(Nat)
    PROVE  Prune(e) \in Seq(Nat)
<1>1. FirstValid(e) \in 1..(Len(e) + 1)
  BY FirstValidStops
<1>2. /\ Len(e) \in Int /\ FirstValid(e) \in Int
      /\ \A i \in FirstValid(e)..Len(e) : e[i] \in Nat
  BY <1>1
<1> QED BY <1>2, SubSeqProperties, Zenon DEF Prune

\* Every reachable state has the shape TypeOK gives it.
THEOREM LimiterTypeCorrect == Spec => []TypeOK
<1>1. Init => TypeOK
  BY LimiterAssumption DEF Init, TypeOK, NoDenial
<1>2. TypeOK /\ [Next]_vars => TypeOK'
  <2> SUFFICES ASSUME TypeOK, [Next]_vars PROVE TypeOK'
    OBVIOUS
  <2> USE LimiterAssumption DEF TypeOK, window, stopping
  <2>1. CASE Tick
    BY <2>1 DEF Tick
  <2>2. ASSUME NEW k \in Keys, Allow(k) PROVE TypeOK'
    <3>1. Prune(entries[k]) \in Seq(Nat) /\ now \in Nat
      BY PruneType
    <3> DEFINE ts == Prune(entries[k])
               denied == [at |-> now, n |-> Len(hist[k])]
    <3>2. ts \in Seq(Nat) /\ Append(ts, now) \in Seq(Nat)
          /\ Append(hist[k], now) \in Seq(Nat)
      BY <3>1
    <3>3. denied \in [at : Nat, n : Nat \cup {-1}]
      <4>1. Len(hist[k]) \in Nat
        OBVIOUS
      <4> QED BY <3>1, <4>1
    <3>4. \/ /\ entries' = [entries EXCEPT ![k] = ts]
             /\ hist' = hist /\ denial' = [denial EXCEPT ![k] = denied]
          \/ /\ entries' = [entries EXCEPT ![k] = Append(ts, now)]
             /\ hist' = [hist EXCEPT ![k] = Append(hist[k], now)] /\ denial' = denial
      BY <2>2 DEF Allow
    <3> HIDE DEF ts, denied
    <3>5. entries' \in [Keys -> Seq(Nat)]
      BY <3>2, <3>4
    <3>6. hist' \in [Keys -> Seq(Nat)]
      BY <3>2, <3>4
    <3>7. denial' \in [Keys -> [at : Nat, n : Nat \cup {-1}]]
      BY <3>3, <3>4
    <3> QED BY <2>2, <3>5, <3>6, <3>7 DEF Allow
  <2>3. CASE CleanupEvery
    BY <2>3 DEF CleanupEvery
  <2>4. ASSUME NEW c \in 1..made, GC(c) PROVE TypeOK'
    <3>1. entries' \in [Keys -> Seq(Nat)]
      BY <2>4, PruneType DEF GC
    <3> QED BY <2>4, <3>1 DEF GC
  <2>5. ASSUME NEW c \in 1..made, CleanerExit(c) PROVE TypeOK'
    BY <2>5 DEF CleanerExit
  <2>6. ASSUME NEW p \in Stoppers, StopSwap(p) PROVE TypeOK'
    BY <2>6 DEF StopSwap
  <2>7. ASSUME NEW p \in Stoppers, StopClose(p) PROVE TypeOK'
    <3>1. hold[p] \in 1..made
      BY <2>7 DEF StopClose
    <3>2. closed' \subseteq 1..made'
      BY <2>7, <3>1 DEF StopClose
    <3> QED BY <2>7, <3>2 DEF StopClose
  <2>8. CASE UNCHANGED vars
    BY <2>8 DEF vars
  <2> QED BY <2>1, <2>2, <2>3, <2>4, <2>5, <2>6, <2>7, <2>8 DEF Next
<1> QED BY <1>1, <1>2, PTL DEF Spec

(***************************************************************************)
(* The window.  RateBound is not inductive alone: what Allow counts must   *)
(* be every admission less than a window old, whoever pruned before.       *)
(***************************************************************************)
DenialOK(d, h) ==
    /\ d.n <= Len(h)
    /\ d # NoDenial =>
        /\ d.n >= Limit
        /\ \A i \in (d.n - Limit + 1)..d.n : d.at - h[i] < Window

KeyInv(e, h, d, t) == KeepsTail(e, h, t) /\ Rate(h) /\ DenialOK(d, h)

WindowInv == \A k \in Keys : KeyInv(entries[k], hist[k], denial[k], now)

\* An allowed request does not touch what an earlier denial was based on.
LEMMA AppendKeepsDenial ==
    ASSUME NEW t \in Nat, NEW h \in Seq(Nat), NEW d \in [at : Nat, n : Nat \cup {-1}], DenialOK(d, h)
    PROVE  DenialOK(d, Append(h, t))
<1> DEFINE h2 == Append(h, t)
<1>1. Len(h2) = Len(h) + 1 /\ \A i \in 1..Len(h) : h2[i] = h[i]
  OBVIOUS
<1>n. d.n \in Int /\ Limit \in Nat /\ Len(h) \in Nat
  BY LimitIsNat
<1> HIDE DEF h2
<1>2. d.n <= Len(h2)
  BY <1>1, <1>n DEF DenialOK
<1>3. ASSUME d # NoDenial, NEW i \in (d.n - Limit + 1)..d.n PROVE d.at - h2[i] < Window
  <2>1. i \in 1..Len(h)
    BY <1>3, <1>n DEF DenialOK
  <2> QED BY <1>1, <1>3, <2>1 DEF DenialOK
<1> QED BY <1>2, <1>3 DEF DenialOK, h2

\* A denial rests on Limit stored timestamps, all younger than a window.
LEMMA FullWindowDenies ==
    ASSUME NEW t \in Nat, NEW e \in Seq(Nat), NEW h \in Seq(Nat), KeepsTail(e, h, t),
           \A i \in 1..Len(e) : t - e[i] < Window, Len(e) >= Limit
    PROVE  DenialOK([at |-> t, n |-> Len(h)], h)
<1>n. Limit \in Nat /\ Len(h) \in Nat /\ Len(e) \in Nat /\ Len(e) <= Len(h)
  BY LimitIsNat DEF KeepsTail
<1>1. ASSUME NEW i \in (Len(h) - Limit + 1)..Len(h) PROVE t - h[i] < Window
  <2> DEFINE j == i - (Len(h) - Len(e))
  <2>1. j \in 1..Len(e) /\ i = Len(h) - Len(e) + j
    BY <1>n
  <2>2. e[j] = h[i]
    BY <2>1 DEF KeepsTail
  <2> QED BY <2>1, <2>2
<1> QED BY <1>n, <1>1 DEF DenialOK

LEMMA WindowInvariant == Spec => []WindowInv
<1>1. Init => WindowInv
  <2> SUFFICES ASSUME Init, NEW k \in Keys PROVE KeyInv(<<>>, <<>>, NoDenial, 0)
    BY DEF Init, WindowInv
  <2> QED BY LimitIsNat DEF KeyInv, KeepsTail, Rate, DenialOK, NoDenial
<1>2. TypeOK /\ TypeOK' /\ WindowInv /\ [Next]_vars => WindowInv'
  <2> SUFFICES ASSUME TypeOK, TypeOK', WindowInv, [Next]_vars, NEW k \in Keys
               PROVE  KeyInv(entries'[k], hist'[k], denial'[k], now')
    BY DEF WindowInv
  <2>t. /\ now \in Nat /\ now' \in Nat
        /\ entries[k] \in Seq(Nat) /\ hist[k] \in Seq(Nat)
        /\ denial[k] \in [at : Nat, n : Nat \cup {-1}]
    BY LimiterAssumption DEF TypeOK
  <2>i. KeepsTail(entries[k], hist[k], now) /\ Rate(hist[k]) /\ DenialOK(denial[k], hist[k])
    BY DEF WindowInv, KeyInv
  <2>p. LET e == Prune(entries[k]) IN
        e \in Seq(Nat) /\ KeepsTail(e, hist[k], now) /\ \A i \in 1..Len(e) : now - e[i] < Window
    BY <2>t, <2>i, PruneKeepsTail
  <2>1. CASE UNCHANGED <<window, now>>
    BY <2>1, <2>i DEF window, KeyInv
  <2>2. CASE Tick
    <3>1. KeepsTail(entries[k], hist[k], now')
      BY <2>2, <2>t, <2>i, LaterKeepsTail DEF Tick
    <3> QED BY <2>2, <2>i, <3>1 DEF Tick, window, KeyInv
  <2>3. ASSUME NEW q \in Keys, Allow(q)
        PROVE  KeyInv(entries'[k], hist'[k], denial'[k], now')
    <3> DEFINE e == Prune(entries[k])
    <3>1. CASE q # k
      <4>1. /\ entries'[k] = entries[k] /\ hist'[k] = hist[k]
            /\ denial'[k] = denial[k] /\ now' = now
        BY <2>3, <3>1 DEF Allow, TypeOK
      <4> QED BY <4>1, <2>i DEF KeyInv
    <3>2. CASE q = k /\ Len(e) >= Limit
      <4>1. /\ entries'[k] = e /\ hist'[k] = hist[k] /\ now' = now
            /\ denial'[k] = [at |-> now, n |-> Len(hist[k])]
        BY <2>3, <3>2 DEF Allow, TypeOK
      <4>2. DenialOK([at |-> now, n |-> Len(hist[k])], hist[k])
        BY <2>t, <2>p, <3>2, FullWindowDenies
      <4> QED BY <4>1, <4>2, <2>p, <2>i DEF KeyInv
    <3>3. CASE q = k /\ ~(Len(e) >= Limit)
      <4>1. /\ entries'[k] = Append(e, now) /\ hist'[k] = Append(hist[k], now)
            /\ denial'[k] = denial[k] /\ now' = now
        BY <2>3, <3>3 DEF Allow, TypeOK
      <4>2. Len(e) < Limit
        BY <2>p, <3>3, LimitIsNat
      <4>3. KeepsTail(Append(e, now), Append(hist[k], now), now)
        BY <2>t, <2>p, AppendKeepsTail
      <4>4. Rate(Append(hist[k], now))
        BY <2>t, <2>p, <2>i, <4>2, AppendKeepsRate
      <4>5. DenialOK(denial[k], Append(hist[k], now))
        BY <2>t, <2>i, AppendKeepsDenial
      <4> QED BY <4>1, <4>3, <4>4, <4>5 DEF KeyInv
    <3> QED BY <3>1, <3>2, <3>3
  <2>4. ASSUME NEW c \in 1..made, GC(c)
        PROVE  KeyInv(entries'[k], hist'[k], denial'[k], now')
    <3>1. entries'[k] = Prune(entries[k]) /\ hist' = hist /\ denial' = denial /\ now' = now
      BY <2>4 DEF GC
    <3> QED BY <3>1, <2>p, <2>i DEF KeyInv
  <2>5. CASE CleanupEvery \/ (\E c \in 1..made : CleanerExit(c))
             \/ (\E p \in Stoppers : StopSwap(p) \/ StopClose(p))
    BY <2>1, <2>5 DEF CleanupEvery, CleanerExit, StopSwap, StopClose
  <2> QED BY <2>1, <2>2, <2>3, <2>4, <2>5 DEF Next, vars
<1> QED BY <1>1, <1>2, LimiterTypeCorrect, PTL DEF Spec

\* Allow never lets more than Limit requests of a key through in any span
\* shorter than the window, whatever the limit, the window and the cleaner.
THEOREM RateIsBounded == Spec => []RateBound
<1>1. WindowInv => RateBound
  BY DEF WindowInv, KeyInv, Rate, RateBound
<1> QED BY <1>1, WindowInvariant, PTL

\* Allow never denies a request without Limit admissions in the last window.
THEOREM DenialsAreJustified == Spec => []DeniedOnlyAtLimit
<1>1. WindowInv => DeniedOnlyAtLimit
  BY DEF WindowInv, KeyInv, DenialOK, DeniedOnlyAtLimit
<1> QED BY <1>1, WindowInvariant, PTL

(***************************************************************************)
(* The limiter implements SlidingWindow.  What Allow counts after pruning  *)
(* is what the ideal limiter counts, so each verdict is the same, and gc   *)
(* and the stop protocol are steps it does not see.                        *)
(***************************************************************************)
\* SlidingWindow has its own instance of FiniteSets.
LEMMA SameCardinality ==
    ASSUME NEW S
    PROVE  Ideal!Cardinality(S) = Cardinality(S)
BY Zenon DEF Ideal!Cardinality, Cardinality

\* The timestamps that pruning leaves are those of the admissions less than a
\* window old: the last ones, and no gap.
LEMMA PrunedAreRecent ==
    ASSUME TypeOK, WindowInv, NEW k \in Keys
    PROVE  /\ Ideal!Recent(k) = (Len(hist[k]) - Len(Prune(entries[k])) + 1)..Len(hist[k])
           /\ IsFiniteSet(Ideal!Recent(k))
           /\ Cardinality(Ideal!Recent(k)) = Len(Prune(entries[k]))
<1> DEFINE h == hist[k]
           p == Prune(entries[k])
<1>1. now \in Nat /\ entries[k] \in Seq(Nat) /\ h \in Seq(Nat)
  BY LimiterAssumption DEF TypeOK
<1>2. p \in Seq(Nat) /\ KeepsTail(p, h, now) /\ \A i \in 1..Len(p) : now - p[i] < Window
  BY <1>1, PruneKeepsTail DEF WindowInv, KeyInv
<1> HIDE DEF h, p
<1>3. Len(h) \in Nat /\ Len(p) \in Nat /\ Len(p) <= Len(h) /\ DOMAIN h = 1..Len(h)
      /\ \A i \in 1..Len(h) : h[i] \in Nat
  BY <1>1, <1>2 DEF KeepsTail
<1>4. ASSUME NEW i \in 1..Len(h)
      PROVE  h[i] > now - Window <=> i \in (Len(h) - Len(p) + 1)..Len(h)
  <2>1. CASE i <= Len(h) - Len(p)
    <3>1. now - h[i] >= Window
      BY <2>1, <1>2, <1>3 DEF KeepsTail
    <3> QED BY <3>1, <2>1, <1>1, <1>3, LimiterAssumption
  <2>2. CASE i > Len(h) - Len(p)
    <3> DEFINE j == i - (Len(h) - Len(p))
    <3>1. j \in 1..Len(p) /\ i = Len(h) - Len(p) + j
      BY <2>2, <1>3
    <3>2. h[i] = p[j] /\ now - p[j] < Window
      BY <3>1, <1>2 DEF KeepsTail
    <3> QED BY <3>2, <2>2, <1>1, <1>3, LimiterAssumption
  <2> QED BY <2>1, <2>2, <1>3
<1>5. Ideal!Recent(k) = (Len(h) - Len(p) + 1)..Len(h)
  BY <1>3, <1>4 DEF Ideal!Recent, h
<1>6. /\ IsFiniteSet((Len(h) - Len(p) + 1)..Len(h))
      /\ Cardinality((Len(h) - Len(p) + 1)..Len(h)) = Len(p)
  <2> DEFINE a == Len(h) - Len(p) + 1
  <2>1. a \in Int /\ Len(h) \in Int
    BY <1>3
  <2>2. IsFiniteSet(a..Len(h)) /\ Cardinality(a..Len(h)) = IF a > Len(h) THEN 0 ELSE Len(h) - a + 1
    BY <2>1, FS_Interval, Zenon
  <2> QED BY <2>2, <1>3
<1> QED BY <1>5, <1>6 DEF h, p

\* Every verdict of Allow is that of a limiter which forgets nothing, whatever
\* pruning and the cleaner dropped before, for every limit, window and set of keys.
THEOREM LimiterImplementsWindow == Spec => ImplementsWindow
<1>1. Init => Ideal!Init
  BY DEF Init, Ideal!Init, NoDenial
<1>2. TypeOK /\ WindowInv /\ [Next]_vars => [Ideal!Next]_<<now, hist, denial>>
  <2> SUFFICES ASSUME TypeOK, WindowInv, Next, ~UNCHANGED <<now, hist, denial>>
               PROVE  Ideal!Next
    BY DEF vars, window
  <2>1. CASE Tick
    BY <2>1 DEF Tick, window, Ideal!Next, Ideal!Tick
  <2>2. ASSUME NEW k \in Keys, Allow(k) PROVE Ideal!Next
    <3>1. Ideal!Cardinality(Ideal!Recent(k)) = Len(Prune(entries[k])) /\ Len(Prune(entries[k])) \in Nat
      <4>1. now \in Nat /\ entries[k] \in Seq(Nat)
        BY LimiterAssumption DEF TypeOK
      <4>2. Prune(entries[k]) \in Seq(Nat)
        BY <4>1, PruneType
      <4>3. Len(Prune(entries[k])) \in Nat
        BY <4>2
      <4> QED BY <4>3, PrunedAreRecent, SameCardinality
    <3>2. CASE Len(Prune(entries[k])) >= Limit
      <4>1. Ideal!Deny(k)
        BY <2>2, <3>1, <3>2 DEF Allow, Ideal!Deny
      <4> QED BY <4>1 DEF Ideal!Next
    <3>3. CASE ~(Len(Prune(entries[k])) >= Limit)
      <4>1. Ideal!Admit(k)
        BY <2>2, <3>1, <3>3, LimitIsNat DEF Allow, Ideal!Admit
      <4> QED BY <4>1 DEF Ideal!Next
    <3> QED BY <3>2, <3>3
  <2>3. CASE CleanupEvery \/ (\E c \in 1..made : GC(c) \/ CleanerExit(c))
             \/ (\E p \in Stoppers : StopSwap(p) \/ StopClose(p))
    BY <2>3 DEF CleanupEvery, GC, CleanerExit, StopSwap, StopClose, window
  <2> QED BY <2>1, <2>2, <2>3 DEF Next
<1> QED BY <1>1, <1>2, LimiterTypeCorrect, WindowInvariant, PTL DEF Spec, ImplementsWindow, Ideal!Spec

(***************************************************************************)
(* ... and WindowCounter, with the admissions Allow would count now.       *)
(***************************************************************************)
Held == [k \in Keys |-> Len(Prune(entries[k]))]

Counter == INSTANCE WindowCounter WITH count <- Held

LEMMA HeldIsNat == TypeOK => Held \in [Keys -> Nat]
<1> SUFFICES ASSUME TypeOK, NEW k \in Keys PROVE Len(Prune(entries[k])) \in Nat
  BY DEF Held
<1>1. now \in Nat /\ entries[k] \in Seq(Nat)
  BY LimiterAssumption DEF TypeOK
<1>2. Prune(entries[k]) \in Seq(Nat)
  BY <1>1, PruneType
<1> QED BY <1>2

LEMMA HeldAreRecent ==
    TypeOK /\ WindowInv =>
        \A k \in Keys : IsFiniteSet(Ideal!Recent(k)) /\ Held[k] = Cardinality(Ideal!Recent(k))
BY PrunedAreRecent DEF Held

LEMMA HeldAreRecentNext ==
    TypeOK' /\ WindowInv' =>
        \A k \in Keys : IsFiniteSet(Ideal!Recent(k)') /\ Held'[k] = Cardinality(Ideal!Recent(k)')
<1>1. (TypeOK /\ WindowInv =>
        \A k \in Keys : IsFiniteSet(Ideal!Recent(k)) /\ Held[k] = Cardinality(Ideal!Recent(k)))'
  BY HeldAreRecent, PTL
<1> QED BY <1>1

\* With time, or a pruning, no count rises.
LEMMA HeldFalls ==
    ASSUME TypeOK, WindowInv, TypeOK', WindowInv', NEW k \in Keys,
           hist'[k] = hist[k], now <= now'
    PROVE  Held'[k] <= Held[k]
<1>1. now \in Nat /\ now' \in Nat /\ hist[k] \in Seq(Nat)
  BY LimiterAssumption DEF TypeOK
<1>2. \A i \in DOMAIN hist[k] : hist[k][i] \in Nat
  BY <1>1
<1>3. Ideal!Recent(k)' \subseteq Ideal!Recent(k)
  BY <1>1, <1>2, LimiterAssumption DEF Ideal!Recent
<1>4. /\ IsFiniteSet(Ideal!Recent(k)) /\ Held[k] = Cardinality(Ideal!Recent(k))
      /\ Held'[k] = Cardinality(Ideal!Recent(k)')
  BY HeldAreRecent, HeldAreRecentNext
<1> QED BY <1>3, <1>4, FS_Subset

\* An admission raises the count of its key by one, and no other.
LEMMA HeldRises ==
    ASSUME TypeOK, WindowInv, TypeOK', WindowInv', NEW k \in Keys,
           now' = now, hist'[k] = Append(hist[k], now)
    PROVE  Held'[k] = Held[k] + 1
<1>1. now \in Nat /\ hist[k] \in Seq(Nat) /\ Window \in Nat \ {0}
  BY LimiterAssumption DEF TypeOK
<1>2. PICK h, h2, n : h = hist[k] /\ h2 = Append(h, now) /\ n = Len(h) + 1
  OBVIOUS
<1>3. /\ DOMAIN h = 1..Len(h) /\ DOMAIN h2 = 1..n /\ Len(h) \in Nat
      /\ \A i \in 1..Len(h) : h2[i] = h[i]
      /\ h2[n] = now
  BY <1>1, <1>2
<1>4. Ideal!Recent(k)' = Ideal!Recent(k) \cup {n} /\ n \notin Ideal!Recent(k)
  <2>1. Ideal!Recent(k) = {i \in 1..Len(h) : h[i] > now - Window}
    BY <1>2, <1>3 DEF Ideal!Recent
  <2>2. Ideal!Recent(k)' = {i \in 1..n : h2[i] > now - Window}
    BY <1>2, <1>3 DEF Ideal!Recent
  <2>3. 1..n = 1..Len(h) \cup {n} /\ n \notin 1..Len(h) /\ now > now - Window
    BY <1>1, <1>2, <1>3
  <2> QED BY <2>1, <2>2, <2>3, <1>3
<1>5. /\ IsFiniteSet(Ideal!Recent(k)) /\ Held[k] = Cardinality(Ideal!Recent(k))
      /\ Held'[k] = Cardinality(Ideal!Recent(k)')
  BY HeldAreRecent, HeldAreRecentNext
<1> QED BY <1>4, <1>5, FS_AddElement

\* To the rest of the server the limiter is a WindowCounter: an admission raises
\* the key's count, only below the limit, and nothing else raises one.
THEOREM LimiterImplementsCounter == Spec => Counter!Spec
<1>1. Init => Counter!Init
  <2> SUFFICES ASSUME Init, NEW k \in Keys PROVE Len(Prune(<<>>)) = 0
    BY DEF Init, Counter!Init, Held
  <2>1. now \in Nat /\ <<>> \in Seq(Nat) /\ Len(<<>>) = 0
    BY DEF Init
  <2>2. FirstValid(<<>>) \in 1..(Len(<<>>) + 1)
    BY <2>1, FirstValidStops
  <2>3. Len(SubSeq(<<>>, FirstValid(<<>>), Len(<<>>))) = Len(<<>>) - FirstValid(<<>>) + 1
    BY <2>1, <2>2, SuffixProperties, Zenon
  <2> QED BY <2>1, <2>2, <2>3 DEF Prune
<1>2. TypeOK /\ WindowInv /\ TypeOK' /\ WindowInv' /\ [Next]_vars => [Counter!Next]_Held
  <2> SUFFICES ASSUME TypeOK, WindowInv, TypeOK', WindowInv', [Next]_vars
               PROVE  Counter!Next
    OBVIOUS
  <2>h. Held \in [Keys -> Nat] /\ Held' \in [Keys -> Nat]
    <3>1. (TypeOK => Held \in [Keys -> Nat])'
      BY HeldIsNat, PTL
    <3> QED BY <3>1, HeldIsNat
  <2>n. now \in Nat /\ now' \in Nat
    BY LimiterAssumption DEF TypeOK
  <2>1. CASE hist' = hist /\ now <= now'
    <3>1. \A k \in Keys : Held'[k] <= Held[k]
      BY <2>1, HeldFalls
    <3> QED BY <2>h, <3>1 DEF Counter!Next, Counter!AgeOut
  <2>2. ASSUME NEW k \in Keys, Allow(k), hist' # hist PROVE Counter!Next
    <3>1. ~(Len(Prune(entries[k])) >= Limit) /\ now' = now
          /\ hist' = [hist EXCEPT ![k] = Append(hist[k], now)]
      BY <2>2 DEF Allow
    <3>2. Held[k] < Limit
      BY <3>1, <2>h, LimitIsNat DEF Held
    <3>3. Held'[k] = Held[k] + 1
      BY <3>1, HeldRises DEF TypeOK
    <3>4. ASSUME NEW q \in Keys \ {k} PROVE Held'[q] = Held[q]
      <4>1. hist'[q] = hist[q]
        BY <3>1 DEF TypeOK
      <4>2. Ideal!Recent(q)' = Ideal!Recent(q)
        BY <4>1, <3>1 DEF Ideal!Recent
      <4> QED BY <4>2, HeldAreRecent, HeldAreRecentNext
    <3>5. Held' = [Held EXCEPT ![k] = Held[k] + 1]
      BY <3>3, <3>4, <2>h
    <3> QED BY <3>2, <3>5 DEF Counter!Next, Counter!Allow
  <2>3. CASE ~\E k \in Keys : Allow(k)
    BY <2>1, <2>3, <2>n DEF Next, Tick, CleanupEvery, GC, CleanerExit, StopSwap, StopClose, window, vars
  <2>4. ASSUME NEW k \in Keys, Allow(k), hist' = hist PROVE Counter!Next
    BY <2>1, <2>4, <2>n DEF Allow
  <2> QED BY <2>2, <2>3, <2>4
<1> QED BY <1>1, <1>2, LimiterTypeCorrect, WindowInvariant, PTL DEF Spec, Counter!Spec

(***************************************************************************)
(* Memory.                                                                 *)
(***************************************************************************)
\* What Allow keeps for a key is never longer than the limit: a denied request
\* leaves no timestamp behind, so flooding a key costs no memory, whether or not
\* a cleaner ever runs.
MemoryBounded == \A k \in Keys : Len(entries[k]) <= Limit

LEMMA PruneShortens ==
    ASSUME now \in Nat, NEW e \in Seq(Nat)
    PROVE  Prune(e) \in Seq(Nat) /\ Len(Prune(e)) <= Len(e)
<1>1. FirstValid(e) \in 1..(Len(e) + 1)
  BY FirstValidStops
<1>2. /\ SubSeq(e, FirstValid(e), Len(e)) \in Seq(Nat)
      /\ Len(SubSeq(e, FirstValid(e), Len(e))) = Len(e) - FirstValid(e) + 1
  BY <1>1, SuffixProperties, Zenon
<1>3. Prune(e) \in Seq(Nat) /\ Len(Prune(e)) = Len(e) - FirstValid(e) + 1
  BY <1>2, Zenon DEF Prune
<1> HIDE DEF Prune
<1> QED BY <1>1, <1>3

\* The limiter's memory is bounded by Limit timestamps per key, for every limit,
\* window and rate of requests.
THEOREM LimiterMemoryIsBounded == Spec => []MemoryBounded
<1>1. Init => MemoryBounded
  BY LimitIsNat DEF Init, MemoryBounded
<1>2. TypeOK /\ MemoryBounded /\ [Next]_vars => MemoryBounded'
  <2> SUFFICES ASSUME TypeOK, MemoryBounded, [Next]_vars, NEW q \in Keys
               PROVE  Len(entries'[q]) <= Limit
    BY DEF MemoryBounded
  <2>1. /\ entries[q] \in Seq(Nat) /\ now \in Nat /\ DOMAIN entries = Keys
        /\ entries \in [Keys -> Seq(Nat)]
    BY LimiterAssumption DEF TypeOK
  <2>2. /\ Prune(entries[q]) \in Seq(Nat) /\ Len(Prune(entries[q])) <= Len(entries[q])
        /\ Len(entries[q]) <= Limit
    BY <2>1, PruneShortens DEF MemoryBounded
  <2>3. Len(Prune(entries[q])) <= Limit
    BY <2>1, <2>2, LimitIsNat
  <2>4. ASSUME NEW k \in Keys, Allow(k) PROVE Len(entries'[q]) <= Limit
    <3>1. \/ entries'[q] = entries[q]
          \/ entries'[q] = Prune(entries[q])
          \/ /\ ~(Len(Prune(entries[q])) >= Limit)
             /\ entries'[q] = Append(Prune(entries[q]), now)
      BY <2>4, <2>1 DEF Allow
    <3> QED BY <3>1, <2>1, <2>2, <2>3, LimitIsNat
  <2>5. ASSUME NEW c \in 1..made, GC(c) PROVE Len(entries'[q]) <= Limit
    BY <2>5, <2>3 DEF GC
  <2>6. CASE UNCHANGED entries
    BY <2>6, <2>2
  <2> QED BY <2>4, <2>5, <2>6 DEF Next, Tick, CleanupEvery, CleanerExit, StopSwap, StopClose,
        window, vars
<1> QED BY <1>1, <1>2, LimiterTypeCorrect, PTL DEF Spec

(***************************************************************************)
(* Stopping the cleaner.                                                   *)
(***************************************************************************)
StopInv == ClosedOnce /\ NoOrphanCleaner

LEMMA StopInvariant == Spec => []StopInv
<1>1. Init => StopInv
  BY DEF Init, StopInv, ClosedOnce, NoOrphanCleaner
<1>2. TypeOK /\ StopInv /\ [Next]_vars => StopInv'
  <2> SUFFICES ASSUME TypeOK, StopInv, [Next]_vars PROVE StopInv'
    OBVIOUS
  <2> USE LimiterAssumption DEF TypeOK, StopInv, stopping
  <2>1. CASE UNCHANGED stopping
    BY <2>1 DEF ClosedOnce, NoOrphanCleaner
  <2>2. CASE CleanupEvery
    BY <2>2 DEF CleanupEvery, ClosedOnce, NoOrphanCleaner
  <2>3. ASSUME NEW c \in 1..made, CleanerExit(c) PROVE StopInv'
    BY <2>3 DEF CleanerExit, ClosedOnce, NoOrphanCleaner
  <2>4. ASSUME NEW p \in Stoppers, StopSwap(p) PROVE StopInv'
    <3>1. ClosedOnce'
      BY <2>4 DEF StopSwap, ClosedOnce
    <3>2. NoOrphanCleaner'
      BY <2>4 DEF StopSwap, NoOrphanCleaner
    <3> QED BY <3>1, <3>2
  <2>5. ASSUME NEW p \in Stoppers, StopClose(p) PROVE StopInv'
    <3>1. ClosedOnce'
      BY <2>5 DEF StopClose, ClosedOnce
    <3>2. NoOrphanCleaner'
      BY <2>5 DEF StopClose, NoOrphanCleaner
    <3> QED BY <3>1, <3>2
  <2>6. CASE Tick \/ (\E k \in Keys : Allow(k)) \/ (\E c \in 1..made : GC(c))
    BY <2>1, <2>6 DEF Tick, Allow, GC
  <2> QED BY <2>1, <2>2, <2>3, <2>4, <2>5, <2>6 DEF Next, vars
<1> QED BY <1>1, <1>2, LimiterTypeCorrect, PTL DEF Spec

\* Any number of concurrent Stop calls close each stop channel at most once.
THEOREM StopNeverPanics == Spec => []ClosedOnce
BY StopInvariant, PTL DEF StopInv

\* CleanupEvery and Stop in any order leave no cleaner that cannot be stopped.
THEOREM CleanersStayReachable == Spec => []NoOrphanCleaner
BY StopInvariant, PTL DEF StopInv
=============================================================================
