------------------------- MODULE AdaptiveCompression -------------------------
(* The adaptive page runtime: the codec chosen for the keys and the values of *)
(* a page from their analysis, the packed payload and its block scales, and   *)
(* recompression.  A value is an integer in units of 1/Unit, with Unit and    *)
(* Grain multiples of 7 * 127, so that every quantised value is an integer    *)
(* too; a scale max/qmax is kept as max.                                      *)
EXTENDS Integers, FiniteSets, FiniteSetsExt, Sequences, SequencesExt

CONSTANTS Unit,         \* the unit: a value v stands for v / Unit
          Grain,        \* bound: the values encoded are multiples of it
          Count,        \* values of a page
          Multiples,    \* bound: the multiples of Grain encoded
          Configs,      \* bound: [policy, min_bits, max_bits, block_size, max_page_error]
          MaxOps        \* bound: calls of a behaviour

VARIABLES config, counters,
          page,         \* the last encoded page, its keys and its values
          source,       \* what it was encoded from
          ops

adaptiveVars == <<config, counters, page, source, ops>>

Codecs == {2, 4, 8, 16}     \* the codes of int2, int4, int8 and raw fp16 are their widths
Indices == 0 .. Count - 1
Magnitude(x) == IF x < 0 THEN -x ELSE x
LargestOf(f, S) == Max({Magnitude(f[i]) : i \in S} \cup {0})

Rounded(a, b) ==
  LET up == (2 * a + b) \div (2 * b) IN IF (2 * a + b) % (2 * b) = 0 /\ up % 2 = 1 THEN up - 1 ELSE up
Bounded(x, lo, hi) == IF x < lo THEN lo ELSE IF x > hi THEN hi ELSE x

Qmax(codec) == CASE codec = 2 -> 1 [] codec = 4 -> 7 [] codec = 8 -> 127 [] OTHER -> 1

\* estimated_int*_error <= max_page_error, with the error in units of 1/Unit.
Satisfies(codec, max, limit) ==
  CASE codec = 2 -> max <= 3 * limit [] codec = 4 -> max <= 15 * limit
    [] codec = 8 -> max <= 255 * limit [] OTHER -> TRUE

Choose(max, min_bits, max_bits) ==
  LET fit == {c \in Codecs : c >= min_bits /\ c <= max_bits /\ Satisfies(c, max, config.max_page_error)}
  IN IF fit = {} THEN 16 ELSE Min(fit)

-----------------------------------------------------------------------------
(* Packing: codec bits per value, low bits first, in two's complement.       *)

BlockOf(i) == {j \in Indices : j \div config.block_size = i \div config.block_size}

\* Mutant: one scale for the whole page, though a block has its own.
StoredByPage(value, i, codec) ==
  LET max == LargestOf(value, Indices)
      q   == IF max = 0 THEN 0 ELSE Rounded(value[i] * Qmax(codec), max)
  IN IF codec = 16 THEN Rounded(value[i], Unit) ELSE Bounded(q, -(2 ^ (codec - 1)), 2 ^ (codec - 1) - 1)

Stored(value, i, codec) ==
  LET max == LargestOf(value, BlockOf(i))
      q   == IF max = 0 THEN 0 ELSE Rounded(value[i] * Qmax(codec), max)
  IN IF codec = 16 THEN Rounded(value[i], Unit) ELSE Bounded(q, -(2 ^ (codec - 1)), 2 ^ (codec - 1) - 1)

Pack(value, codec) ==
  LET perByte == IF codec = 16 THEN 1 ELSE 8 \div codec
      field(i) == (Stored(value, i, codec) % (2 ^ codec)) * 2 ^ ((i % perByte) * codec)
  IN [codec |-> codec, block |-> config.block_size,
      payload |-> [b \in 0 .. (Count + perByte - 1) \div perByte - 1 |->
                     MapThenSumSet(field, {i \in Indices : i \div perByte = b})],
      scales |-> [b \in 0 .. (Count - 1) \div config.block_size |->
                     LargestOf(value, {i \in Indices : i \div config.block_size = b})]]

Unpacked(half, i) ==
  LET perByte == IF half.codec = 16 THEN 1 ELSE 8 \div half.codec
      raw == (half.payload[i \div perByte] \div 2 ^ ((i % perByte) * half.codec)) % (2 ^ half.codec)
  IN IF raw >= 2 ^ (half.codec - 1) THEN raw - 2 ^ half.codec ELSE raw

Decoded(half, i) ==
  IF half.codec = 16 THEN Unpacked(half, i) * Unit
  ELSE (Unpacked(half, i) * half.scales[i \div half.block]) \div Qmax(half.codec)

-----------------------------------------------------------------------------

NoPage == <<>>
Halves == {"k", "v"}
EncodedBytes(codec) == (Count * codec + 7) \div 8

\* cf_adaptive_encode, once the input is known to be finite and a codec is chosen for each half.
EncodeInto(src, chosen) ==
  LET raw   == 8 * Count
      bytes == EncodedBytes(chosen["k"]) + EncodedBytes(chosen["v"])
  IN /\ page' = [h \in Halves |-> Pack(src[h], chosen[h])]
     /\ source' = src
     /\ counters' = [counters EXCEPT
          !.pages = [c \in Codecs |-> @[c] + Cardinality({h \in Halves : chosen[h] = c})],
          !.saved = @ + (IF bytes < raw THEN raw - bytes ELSE 0)]

\* A caller encodes into a page it has not filled yet.
Encode(src) ==
  /\ page = NoPage
  /\ ops < MaxOps /\ ops' = ops + 1
  /\ LET codec(h) == IF config.policy = "fixed_int4" THEN 4
                     ELSE Choose(LargestOf(src[h], Indices), config.min_bits, config.max_bits)
     IN EncodeInto(src, [h \in Halves |-> codec(h)])
  /\ UNCHANGED config

\* A NaN or an infinity in the keys or the values: the output is cleared.
EncodeNotFinite ==
  /\ ops < MaxOps /\ ops' = ops + 1
  /\ page' = NoPage /\ source' = NoPage
  /\ UNCHANGED <<config, counters>>

DecodedHalf(half) == [i \in Indices |-> Decoded(half, i)]

\* The bounds are the codec's own width, under the quality policy.
Recompress(codec) ==
  /\ page # NoPage
  /\ ops < MaxOps /\ ops' = ops + 1
  /\ LET src == [h \in Halves |-> DecodedHalf(page[h])]
     IN EncodeInto(src, [h \in Halves |-> Choose(LargestOf(src[h], Indices), codec, codec)])
  /\ UNCHANGED config

AdaptiveInit ==
  /\ config \in Configs /\ config.min_bits <= config.max_bits
  /\ counters = [pages |-> [c \in Codecs |-> 0], saved |-> 0]
  /\ page = NoPage /\ source = NoPage /\ ops = 0

\* Any keys, and values that are all the same.
Inputs ==
  LET values == {m * Grain : m \in Multiples}
  IN {[k |-> f, v |-> [i \in Indices |-> x]] : f \in [Indices -> values], x \in values}

AdaptiveNext ==
  \/ \E src \in Inputs : Encode(src)
  \/ EncodeNotFinite
  \/ \E codec \in Codecs : Recompress(codec)

-----------------------------------------------------------------------------

\* A page decodes, half by half, to within half a quantisation step of what it
\* was encoded from, whatever codecs the halves took and however the values
\* fell into blocks and bytes; a recompressed page to within half a step of what
\* it decoded to before; raw pages round to whole numbers.
PageFaithful ==
  page # NoPage =>
    \A h \in Halves, i \in Indices :
      LET half == page[h]
          apart == 2 * Magnitude(source[h][i] - Decoded(half, i))
      IN apart * Qmax(half.codec) <= IF half.codec = 16 THEN Unit ELSE LargestOf(source[h], BlockOf(i))
=============================================================================
