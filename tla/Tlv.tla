-------------------------------- MODULE Tlv --------------------------------
(***************************************************************************)
(* The TLV codec: what tlv.Encode writes for a value, what the three       *)
(* decoders make of bytes (decodeReader on a stream, DecodeBytes on a      *)
(* buffer, decodeValueBytes on what is nested in either), and DecodeAll,   *)
(* which reads values from a stream until its end.  The stream may end     *)
(* anywhere, and may come from another implementation.                     *)
(*                                                                         *)
(* A value is <<type, data>>.  One type stands for those that differ only  *)
(* in what they call their bytes: "string" (string, bytes), "uint16" (all  *)
(* integers, floats and timestamps: big-endian, of fixed width).  The data *)
(* of an array is the sequence of its elements, that of a map the sequence *)
(* of its <<key, value>> entries.  A byte holds 2 * Base values, a varint  *)
(* digit Base of them, and a varint at most VarintLen digits.              *)
(***************************************************************************)
EXTENDS Integers, Sequences, SequencesExt, TlvMap

CONSTANTS
    Base,            \* 128
    VarintLen,       \* binary.MaxVarintLen64, 10
    MaxPayload,      \* 524288
    MaxDecodeDepth,  \* 64
    Values,          \* values a program encodes
    MaxValues,       \* bound: values on a stream
    Chunks,          \* bytes another implementation may write at a time
    MaxForeign       \* bound: how often it does

ASSUME TlvAssumption ==
    /\ Base \in Nat \ {0, 1} /\ VarintLen \in Nat \ {0}
    /\ MaxPayload \in Nat /\ MaxDecodeDepth \in Nat

Byte == 2 * Base
Word == 2 * Base^(VarintLen - 1)     \* 2^64: the last digit of a varint is 0 or 1

Types == <<"string", "uint16", "bool", "array", "map", "null">>
TypeCode(t) == CHOOSE i \in DOMAIN Types : Types[i] = t

(***************************************************************************)
(* Encoding.                                                               *)
(***************************************************************************)
RECURSIVE PutUvarint(_)
PutUvarint(n) == IF n < Base THEN <<n>> ELSE <<Base + (n % Base)>> \o PutUvarint(n \div Base)

RECURSIVE marshalValue(_)
marshalPayload(v) ==
    CASE v[1] = "uint16" -> <<v[2][1] \div Byte, v[2][1] % Byte>>
      [] v[1] = "array" -> FlattenSeq([i \in DOMAIN v[2] |-> marshalValue(v[2][i])])
      [] v[1] = "map" -> FlattenSeq([i \in DOMAIN v[2] |->
                             marshalValue(<<"string", v[2][i][1]>>) \o marshalValue(v[2][i][2])])
      [] OTHER -> v[2]

marshalValue(v) ==
    LET p == marshalPayload(v) IN <<TypeCode(v[1])>> \o PutUvarint(Len(p)) \o p

(***************************************************************************)
(* Decoding.  A decoder gives <<"ok", value, bytes used>>, or <<"eof">>    *)
(* (io.EOF), <<"error">> (any other) or <<"panic">>.                       *)
(***************************************************************************)
Error == <<"error">>
Panic == <<"panic">>
Failed(x) == x[1] # "ok"

RECURSIVE Digits(_, _, _)
Digits(b, i, x) ==
    IF i > Len(b) THEN <<0, 0>>
    ELSE IF i > VarintLen \/ (i = VarintLen /\ b[i] \in 2..(Base - 1)) THEN <<0, -i>>
    ELSE IF b[i] < Base THEN <<x + b[i] * Base^(i - 1), i>>
    ELSE Digits(b, i + 1, x + (b[i] - Base) * Base^(i - 1))

\* binary.Uvarint (external): the number and its length, none or negative if there
\* is no number.
Uvarint(b) == Digits(b, 1, 0)

Fixed(p) == p[1] * Byte + p[2]

RECURSIVE decodeValue(_, _, _)
decodeValueBytes(b, depth) ==
    LET u == Uvarint(Tail(b))
        start == 1 + u[2]
    IN IF u[1] > MaxPayload \/ u[2] <= 0 \/ Len(b) < start + u[1] THEN Error
       ELSE LET v == decodeValue(b[1], SubSeq(b, start + 1, start + u[1]), depth + 1)
            IN IF Failed(v) THEN Error ELSE <<"ok", v[2], start + u[1]>>

RECURSIVE Elements(_, _, _)
Elements(b, depth, elems) ==
    IF b = <<>> THEN <<"ok", <<"array", elems>>>>
    ELSE LET v == decodeValueBytes(b, depth)
         IN IF Failed(v) THEN Error
            ELSE Elements(SubSeq(b, v[3] + 1, Len(b)), depth, Append(elems, v[2]))

\* A map passes its depth on one higher than an array does.
RECURSIVE Entries(_, _, _)
Entries(b, depth, m) ==
    IF b = <<>> THEN <<"ok", <<"map", m>>>>
    ELSE LET k == decodeValueBytes(b, depth + 1)
             rest == SubSeq(b, k[3] + 1, Len(b))
             v == decodeValueBytes(rest, depth + 1)
         IN IF Failed(k) THEN Error
            ELSE IF k[2][1] # "string" \/ rest = <<>> THEN Error
            ELSE IF Failed(v) THEN Error
            ELSE Entries(SubSeq(rest, v[3] + 1, Len(rest)), depth, Set(m, k[2][2], v[2]))

decodeValue(t, p, depth) ==
    IF depth > MaxDecodeDepth \/ t \notin DOMAIN Types THEN Error
    ELSE CASE Types[t] = "string" -> <<"ok", <<"string", p>>>>
           [] Types[t] = "uint16" -> IF Len(p) < 2 THEN Error ELSE <<"ok", <<"uint16", <<Fixed(p)>>>>>>
           [] Types[t] = "bool" -> IF Len(p) < 1 THEN Error
                                   ELSE <<"ok", <<"bool", <<IF p[1] # 0 THEN 1 ELSE 0>>>>>>
           [] Types[t] = "null" -> <<"ok", <<"null", <<>>>>>>
           [] Types[t] = "array" -> Elements(p, depth, <<>>)
           [] Types[t] = "map" -> Entries(p, depth, <<>>)

\* The end of the buffer is computed in 64 bits; slicing from its start to an end
\* before it panics.
DecodeBytes(b) ==
    LET u == Uvarint(Tail(b))
        start == 1 + u[2]
        end == (start + u[1]) % Word
    IN IF b = <<>> THEN Error
       ELSE IF u[2] <= 0 \/ Len(b) < end THEN Error
       ELSE IF end < start THEN Panic
       ELSE decodeValue(b[1], SubSeq(b, start + 1, end), 0)

\* Off by one: a whole value that the stream ends with is taken for the end of the stream.
MutdecodeReader(b) ==
    LET u == Uvarint(Tail(b))
        start == 1 + u[2]
        v == decodeValue(b[1], SubSeq(b, start + 1, start + u[1]), 0)
    IN IF Len(b) <= 1 THEN <<"eof">>
       ELSE IF u[2] <= 0 \/ u[1] > MaxPayload THEN Error
       ELSE IF Len(b) <= start + u[1] THEN <<"eof">>
       ELSE IF Failed(v) THEN Error ELSE <<"ok", v[2], start + u[1]>>

\* The end of the stream is io.EOF when the read that meets it got nothing: before
\* the type, the length or the payload.  Inside one of them it is another error.
decodeReader(b) ==
    LET u == Uvarint(Tail(b))
        start == 1 + u[2]
        v == decodeValue(b[1], SubSeq(b, start + 1, start + u[1]), 0)
    IN IF Len(b) <= 1 THEN <<"eof">>
       ELSE IF u[2] <= 0 \/ u[1] > MaxPayload THEN Error
       ELSE IF u[1] > 0 /\ Len(b) = start THEN <<"eof">>
       ELSE IF Len(b) < start + u[1] THEN Error
       ELSE IF Failed(v) THEN Error ELSE <<"ok", v[2], start + u[1]>>

(***************************************************************************)
(* A stream, its writer and DecodeAll.                                     *)
(***************************************************************************)
VARIABLES
    written,    \* the values encoded onto the stream
    wire,       \* the bytes on it
    open,       \* the writer may still write
    rest,       \* what DecodeAll has not read yet
    vals,       \* what it has decoded
    foreign,    \* chunks another implementation wrote
    rpc         \* reading, or how it returned: eof, error

vars == <<written, foreign, wire, open, rest, vals, rpc>>

Init ==
    /\ written = <<>> /\ foreign = 0 /\ wire = <<>> /\ open = TRUE
    /\ rest = <<>> /\ vals = <<>> /\ rpc = "reading"

Encode(v) ==
    /\ open /\ Len(written) < MaxValues /\ foreign = 0
    /\ written' = Append(written, v) /\ wire' = wire \o marshalValue(v)
    /\ UNCHANGED <<foreign, open, rest, vals, rpc>>

\* Another implementation writes what it likes.
Foreign(x) ==
    /\ open /\ written = <<>> /\ foreign < MaxForeign
    /\ foreign' = foreign + 1 /\ wire' = wire \o x
    /\ UNCHANGED <<written, open, rest, vals, rpc>>

\* The stream ends, with its first n bytes delivered.
End(n) ==
    /\ open /\ open' = FALSE
    /\ wire' = SubSeq(wire, 1, n) /\ rest' = SubSeq(wire, 1, n)
    /\ UNCHANGED <<written, foreign, vals, rpc>>

DecodeAll ==
    LET v == decodeReader(rest) IN
    /\ ~open /\ rpc = "reading"
    /\ IF Failed(v)
       THEN rpc' = v[1] /\ UNCHANGED <<vals, rest>>
       ELSE vals' = Append(vals, v[2]) /\ rest' = SubSeq(rest, v[3] + 1, Len(rest)) /\ UNCHANGED rpc
    /\ UNCHANGED <<written, foreign, wire, open>>

Next ==
    \/ \E v \in Values : Encode(v)
    \/ \E x \in Chunks : Foreign(x)
    \/ \E n \in 0..Len(wire) : End(n)
    \/ DecodeAll

Spec == Init /\ [][Next]_vars

(***************************************************************************)
(* Properties.                                                             *)
(***************************************************************************)
\* How deep a decoder has to go for v: an array is one level, a map two.
RECURSIVE Depth(_)
Depth(v) ==
    LET Deepest(S) == CHOOSE d \in S : \A e \in S : e <= d IN
    CASE v[1] \notin {"array", "map"} \/ v[2] = <<>> -> 0
      [] v[1] = "array" -> 1 + Deepest({Depth(v[2][i]) : i \in DOMAIN v[2]})
      [] v[1] = "map" -> 2 + Deepest({Depth(v[2][i][2]) : i \in DOMAIN v[2]})

\* The values a reader takes: not too deep, and what is nested in them is no larger
\* than they are.
Decodable(v) == Depth(v) <= MaxDecodeDepth /\ Len(marshalPayload(v)) <= MaxPayload

\* The values that are whole on the wire.
Whole == {i \in 0..Len(written) :
             Len(FlattenSeq([j \in 1..i |-> marshalValue(written[j])])) <= Len(wire)}

\* What DecodeAll reads of a stream that a program wrote with Encode, and that may
\* have been cut: the values written, in order; all that arrived whole, if it
\* returns without an error; and it fails only at a value that it may not take or
\* that the cut went through.  (It need not fail there.)  DecodeBytes panics on none
\* of the values.
DecodesWhatWasWritten ==
    written # <<>> =>
        /\ IsPrefix(vals, written)
        /\ rpc = "eof" => Len(vals) + 1 \notin Whole
        /\ rpc = "error" => Len(vals) + 1 \notin Whole \/ ~Decodable(written[Len(vals) + 1])
        /\ \A i \in DOMAIN vals : Decodable(vals[i])
        /\ \A i \in DOMAIN written : DecodeBytes(marshalValue(written[i])) # Panic

\* Of any bytes, whoever wrote them: the two decoders of whole values take the same
\* ones, up to the reader's limit on the size, and a value they take encodes to
\* bytes that decode to it again, and are no more than those it came from.  No map
\* among them has a key twice, even if the bytes do.  DecodeBytes takes no value
\* whose payload is not all there, however long the payload claims to be; it panics
\* only for a claim that no buffer can meet, and the reader answers that with an error.
DecodesToNormalForm ==
    LET v == DecodeBytes(wire)
        r == decodeReader(wire)
        claimed == Uvarint(Tail(wire))[1]
    IN written = <<>> =>
        /\ ~Failed(r) => v = <<"ok", r[2]>>
        /\ v = Panic => r = Error /\ claimed > MaxPayload /\ claimed > Len(wire)
        /\ ~Failed(v) => /\ DecodeBytes(marshalValue(v[2])) = v
                         /\ Len(marshalValue(v[2])) <= Len(wire)
                         /\ v[2][1] = "map" => IsInjective([i \in DOMAIN v[2][2] |-> v[2][2][i][1]])
                         /\ claimed < Len(wire)
                         /\ Failed(r) => claimed > MaxPayload
=============================================================================
