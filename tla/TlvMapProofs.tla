---------------------------- MODULE TlvMapProofs ----------------------------
(***************************************************************************)
(* A tlv.Map from NewMap through any calls of Set, with keys and values of *)
(* any kind: it is a dictionary, has no key twice, and keeps its order.    *)
(***************************************************************************)
EXTENDS TlvMap, TLAPS

CONSTANTS MapKeys, MapValues

VARIABLE entries

NewMap == entries = <<>>

Next == \E key \in MapKeys, v \in MapValues : entries' = Set(entries, key, v)

Spec == NewMap /\ [][Next]_entries

\* The entries are pairs of a key and a value.
IsMap == entries \in Seq(MapKeys \X MapValues)

\* No key is in the map twice: what Get finds first is all there is.
UniqueKeys == \A i, j \in DOMAIN entries : entries[i][1] = entries[j][1] => i = j

\* A key keeps its place for ever: Iter, and what Encode writes, go by first insertion.
OrderKept ==
    [][\A i \in DOMAIN entries : i \in DOMAIN entries' /\ entries'[i][1] = entries[i][1]]_entries

Dict == INSTANCE Dictionary WITH dict <- [k \in Keys(entries) |-> Get(entries, k)]

(***************************************************************************)
(* Set, on any sequence of entries.                                        *)
(***************************************************************************)
\* Set on a key that is there changes no length and no key.
LEMMA SetOverwrites ==
    ASSUME NEW m \in Seq(MapKeys \X MapValues), NEW key \in Keys(m), NEW v \in MapValues
    PROVE  /\ Set(m, key, v) \in Seq(MapKeys \X MapValues)
           /\ DOMAIN Set(m, key, v) = DOMAIN m
           /\ \A i \in DOMAIN m : Set(m, key, v)[i] = IF m[i][1] = key THEN <<key, v>> ELSE m[i]
<1> DEFINE n == Set(m, key, v)
<1>1. n = [i \in DOMAIN m |-> IF m[i][1] = key THEN <<key, v>> ELSE m[i]]
  BY DEF Set
<1>2. DOMAIN m = 1..Len(m) /\ Len(m) \in Nat
  OBVIOUS
<1>3. key \in MapKeys
  BY DEF Keys
<1>4. \A i \in DOMAIN m : n[i] \in MapKeys \X MapValues
  BY <1>1, <1>2, <1>3
<1>5. n \in [1..Len(m) -> MapKeys \X MapValues]
  BY <1>1, <1>2, <1>4
<1>6. n \in Seq(MapKeys \X MapValues)
  BY <1>2, <1>5
<1> QED BY <1>1, <1>6

\* Set on a new key adds one entry after the others.
LEMMA SetAppends ==
    ASSUME NEW m \in Seq(MapKeys \X MapValues), NEW x \in MapKeys \X MapValues
    PROVE  /\ Append(m, x) \in Seq(MapKeys \X MapValues)
           /\ \A i \in DOMAIN m : Append(m, x)[i] = m[i]
           /\ \E e : e \notin DOMAIN m /\ DOMAIN Append(m, x) = DOMAIN m \cup {e} /\ Append(m, x)[e] = x
<1>1. /\ Append(m, x) \in Seq(MapKeys \X MapValues)
      /\ \A i \in DOMAIN m : Append(m, x)[i] = m[i]
      /\ Len(m) + 1 \notin DOMAIN m
      /\ DOMAIN Append(m, x) = DOMAIN m \cup {Len(m) + 1}
      /\ Append(m, x)[Len(m) + 1] = x
  OBVIOUS
<1> QED BY <1>1, Zenon

\* Get finds the entry, wherever it is.
LEMMA GetFinds ==
    ASSUME NEW m, NEW k, NEW i \in DOMAIN m, m[i][1] = k,
           \A j \in DOMAIN m : m[j][1] = k => j = i
    PROVE  Get(m, k) = m[i][2]
BY DEF Get

\* A read after Set sees that Set and no other key.
LEMMA GetAfterSet ==
    ASSUME NEW m \in Seq(MapKeys \X MapValues), NEW key \in MapKeys, NEW v \in MapValues,
           \A i, j \in DOMAIN m : m[i][1] = m[j][1] => i = j
    PROVE  LET n == Set(m, key, v) IN
           /\ n \in Seq(MapKeys \X MapValues)
           /\ \A i, j \in DOMAIN n : n[i][1] = n[j][1] => i = j
           /\ Keys(n) = Keys(m) \cup {key}
           /\ \A k \in Keys(n) : Get(n, k) = IF k = key THEN v ELSE Get(m, k)
<1> DEFINE n == Set(m, key, v)
<1>1. CASE key \in Keys(m)
  <2>1. /\ n \in Seq(MapKeys \X MapValues) /\ DOMAIN n = DOMAIN m
        /\ \A i \in DOMAIN m : n[i] = IF m[i][1] = key THEN <<key, v>> ELSE m[i]
    BY <1>1, SetOverwrites
  <2> HIDE DEF n
  <2>2. \A i \in DOMAIN m : n[i][1] = m[i][1]
    BY <2>1
  <2>3. \A i, j \in DOMAIN n : n[i][1] = n[j][1] => i = j
    BY <2>1, <2>2
  <2>4. Keys(n) = Keys(m) \cup {key}
    BY <1>1, <2>1, <2>2 DEF Keys
  <2>5. ASSUME NEW k \in Keys(n) PROVE Get(n, k) = IF k = key THEN v ELSE Get(m, k)
    <3>1. PICK i \in DOMAIN m : k = m[i][1] /\ k = n[i][1]
      BY <2>1, <2>2 DEF Keys
    <3>2. Get(n, k) = n[i][2]
      <4>1. i \in DOMAIN n /\ \A j \in DOMAIN n : n[j][1] = k => j = i
        BY <2>1, <2>3, <3>1
      <4> QED BY <3>1, <4>1, GetFinds, Zenon
    <3>3. Get(m, k) = m[i][2]
      <4>1. \A j \in DOMAIN m : m[j][1] = k => j = i
        BY <3>1
      <4> QED BY <3>1, <4>1, GetFinds, Zenon
    <3> QED BY <2>1, <3>1, <3>2, <3>3
  <2> QED BY <2>1, <2>3, <2>4, <2>5 DEF n
<1>2. CASE key \notin Keys(m)
  <2>0. /\ n \in Seq(MapKeys \X MapValues)
        /\ \A i \in DOMAIN m : n[i] = m[i]
        /\ \E e : e \notin DOMAIN m /\ DOMAIN n = DOMAIN m \cup {e} /\ n[e] = <<key, v>>
    <3> DEFINE x == <<key, v>>
    <3>1. n = Append(m, x) /\ x \in MapKeys \X MapValues
      BY <1>2 DEF Set
    <3> HIDE DEF n, x
    <3>2. /\ Append(m, x) \in Seq(MapKeys \X MapValues)
          /\ \A i \in DOMAIN m : Append(m, x)[i] = m[i]
          /\ \E e : e \notin DOMAIN m /\ DOMAIN Append(m, x) = DOMAIN m \cup {e} /\ Append(m, x)[e] = x
      BY <3>1, SetAppends, Zenon
    <3> QED BY <3>1, <3>2, Zenon DEF x
  <2> HIDE DEF n
  <2>1. PICK e : /\ n \in Seq(MapKeys \X MapValues) /\ DOMAIN n = DOMAIN m \cup {e}
                 /\ \A i \in DOMAIN m : n[i] = m[i]
                 /\ n[e] = <<key, v>> /\ e \notin DOMAIN m
    BY <2>0
  <2>2. \A i \in DOMAIN m : n[i][1] # key
    BY <1>2, <2>1 DEF Keys
  <2>3. \A i, j \in DOMAIN n : n[i][1] = n[j][1] => i = j
    BY <2>1, <2>2
  <2>4. Keys(n) = Keys(m) \cup {key}
    BY <2>1 DEF Keys
  <2>5. ASSUME NEW k \in Keys(n) PROVE Get(n, k) = IF k = key THEN v ELSE Get(m, k)
    <3>1. CASE k = key
      <4>1. n[e][1] = k /\ n[e][2] = v /\ e \in DOMAIN n
        BY <2>1, <3>1
      <4>2. Get(n, k) = n[e][2]
        BY <2>1, <2>3, <4>1, GetFinds
      <4> QED BY <3>1, <4>1, <4>2
    <3>2. CASE k # key
      <4>1. PICK i \in DOMAIN m : k = m[i][1] /\ n[i] = m[i] /\ i \in DOMAIN n
        BY <2>1, <3>2 DEF Keys
      <4>2. Get(n, k) = n[i][2]
        <5>1. \A j \in DOMAIN n : n[j][1] = k => j = i
          BY <2>3, <4>1
        <5> QED BY <4>1, <5>1, GetFinds
      <4>3. Get(m, k) = m[i][2]
        <5>1. \A j \in DOMAIN m : m[j][1] = k => j = i
          BY <4>1
        <5> QED BY <4>1, <5>1, GetFinds, Zenon
      <4> QED BY <3>2, <4>1, <4>2, <4>3
    <3> QED BY <3>1, <3>2
  <2> QED BY <2>1, <2>3, <2>4, <2>5 DEF n
<1> QED BY <1>1, <1>2

(***************************************************************************)
(* The map.                                                                *)
(***************************************************************************)
LEMMA MapInvariant == Spec => [](IsMap /\ UniqueKeys)
<1>1. NewMap => IsMap /\ UniqueKeys
  BY DEF NewMap, IsMap, UniqueKeys
<1>2. IsMap /\ UniqueKeys /\ [Next]_entries => (IsMap /\ UniqueKeys)'
  <2> SUFFICES ASSUME IsMap, UniqueKeys, [Next]_entries PROVE (IsMap /\ UniqueKeys)'
    OBVIOUS
  <2>1. ASSUME NEW key \in MapKeys, NEW v \in MapValues, entries' = Set(entries, key, v)
        PROVE  (IsMap /\ UniqueKeys)'
    BY <2>1, GetAfterSet DEF IsMap, UniqueKeys
  <2>2. CASE UNCHANGED entries
    BY <2>2 DEF IsMap, UniqueKeys
  <2> QED BY <2>1, <2>2 DEF Next
<1> QED BY <1>1, <1>2, PTL DEF Spec

\* No map, of a program or of the decoder, ever has a key twice, even when the bytes
\* it is decoded from do: Encode never writes one.
THEOREM KeysAreUnique == Spec => []UniqueKeys
BY MapInvariant, PTL

\* Setting a key again moves nothing, so the encoding of a map keeps its order.
THEOREM SetKeepsOrder == Spec => OrderKept
<1>1. IsMap /\ [Next]_entries =>
        [\A i \in DOMAIN entries : i \in DOMAIN entries' /\ entries'[i][1] = entries[i][1]]_entries
  <2> SUFFICES ASSUME IsMap, NEW key \in MapKeys, NEW v \in MapValues,
                      entries' = Set(entries, key, v), NEW i \in DOMAIN entries
               PROVE  i \in DOMAIN entries' /\ entries'[i][1] = entries[i][1]
    BY DEF Next
  <2>1. CASE key \in Keys(entries)
    <3>1. /\ DOMAIN entries' = DOMAIN entries
          /\ \A j \in DOMAIN entries :
                entries'[j] = IF entries[j][1] = key THEN <<key, v>> ELSE entries[j]
      BY <2>1, SetOverwrites DEF IsMap
    <3> QED BY <3>1
  <2>2. CASE key \notin Keys(entries)
    <3>1. entries' = Append(entries, <<key, v>>) /\ <<key, v>> \in MapKeys \X MapValues
      BY <2>2 DEF Set
    <3>2. /\ DOMAIN entries \subseteq DOMAIN entries'
          /\ \A j \in DOMAIN entries : entries'[j] = entries[j]
      BY <3>1, SetAppends DEF IsMap
    <3> QED BY <3>2
  <2> QED BY <2>1, <2>2
<1> QED BY <1>1, MapInvariant, PTL DEF Spec, OrderKept

\* Map implements a dictionary: Get of a key yields what was Set last under it, and
\* no Set is visible under another key.
THEOREM MapIsDictionary == Spec => Dict!Spec
<1> DEFINE dict == [k \in Keys(entries) |-> Get(entries, k)]
<1>1. NewMap => Dict!Init
  BY DEF NewMap, Dict!Init, Keys
<1>2. IsMap /\ UniqueKeys /\ [Next]_entries => [Dict!Next]_dict
  <2> SUFFICES ASSUME IsMap, UniqueKeys, [Next]_entries PROVE Dict!Next \/ dict' = dict
    OBVIOUS
  <2>1. ASSUME NEW key \in MapKeys, NEW v \in MapValues, entries' = Set(entries, key, v)
        PROVE  Dict!Put(key, v)
    <3>1. /\ Keys(entries') = Keys(entries) \cup {key}
          /\ \A k \in Keys(entries') : Get(entries', k) = IF k = key THEN v ELSE Get(entries, k)
      BY <2>1, GetAfterSet DEF IsMap, UniqueKeys
    <3> QED BY <3>1 DEF Dict!Put
  <2>2. CASE UNCHANGED entries
    BY <2>2
  <2> QED BY <2>1, <2>2 DEF Next, Dict!Next
<1> QED BY <1>1, <1>2, MapInvariant, PTL DEF Spec, Dict!Spec
=============================================================================
