-------------------------------- MODULE Codecs --------------------------------
(* The stream codecs and the kernels that decode them inline: fixed-width     *)
(* quantised KV pages, the int4 reference pages, block-Huffman rows, block    *)
(* rANS and base-plus-delta leaves.  A value is an integer; a scale max/qmax  *)
(* is kept as max, so that quantisation is exact rational arithmetic.         *)
EXTENDS Integers, FiniteSets, FiniteSetsExt, Sequences, SequencesExt

CONSTANTS W,                \* bits of a word (32), a multiple of the code widths
          Widths,           \* code widths of a quantised page (4 and 8)
          Tokens, Dim,      \* a page: tokens and channels
          Values,           \* bound: the values quantised
          BlockSizes,       \* symbols of a block
          CodeBook,         \* external: symbol -> its Huffman code, a sequence of bits
          Freq,             \* external: symbol -> rANS frequency
          L, Radix          \* rANS: renormalisation bound (2^23) and digit (2^8)

VARIABLES input, coded

codecVars == <<input, coded>>

Elements == 0 .. Tokens * Dim - 1
Abs(x) == IF x < 0 THEN -x ELSE x
Clamp(x, lo, hi) == IF x < lo THEN lo ELSE IF x > hi THEN hi ELSE x
MaxAbs(f, S) == Max({Abs(f[i]) : i \in S} \cup {0})
Channel(i) == {j \in Elements : j % Dim = i % Dim}
Row(i) == {j \in Elements : j \div Dim = i \div Dim}

\* a / b to the nearest integer: ties to even (lrint), or away from zero (lround).
NearestEven(a, b) ==
  LET up == (2 * a + b) \div (2 * b) IN IF (2 * a + b) % (2 * b) = 0 /\ up % 2 = 1 THEN up - 1 ELSE up
NearestAway(a, b) == IF a < 0 THEN -((b - 2 * a) \div (2 * b)) ELSE (2 * a + b) \div (2 * b)

Quantize(v, max, qmax) == IF max = 0 THEN 0 ELSE Clamp(NearestEven(v * qmax, max), -(qmax + 1), qmax)
QuantizeReference(v, max) == IF max = 0 THEN 0 ELSE Clamp(NearestAway(v * 7, max), -7, 7)

\* The int4 reference page: two nibbles a byte, in two's complement, low one first.
PackedNibbles(q) ==
  LET placed(i) == (q[i] % 16) * 16 ^ (i % 2)
  IN [b \in 0 .. (Tokens * Dim - 1) \div 2 |-> MapThenSumSet(placed, {i \in Elements : i \div 2 = b})]

Nibble(packed, i) ==
  LET raw == (packed[i \div 2] \div 16 ^ (i % 2)) % 16 IN IF raw >= 8 THEN raw - 16 ELSE raw

SealReference(value) ==
  [k |-> PackedNibbles([i \in Elements |-> QuantizeReference(value[i], MaxAbs(value, Channel(i)))]),
   v |-> PackedNibbles([i \in Elements |-> QuantizeReference(value[i], MaxAbs(value, Row(i)))])]

-----------------------------------------------------------------------------
(* Fixed-width symbols, most significant first within a word.                *)

EncodeSymbols(symbol, bits) ==
  LET count == Cardinality(DOMAIN symbol)
      placed(i) == symbol[i] * 2 ^ (W - bits - ((i * bits) % W))
  IN [w \in 0 .. (count * bits + W - 1) \div W - 1 |->
        MapThenSumSet(placed, {i \in DOMAIN symbol : (i * bits) \div W = w})]

EncodePage(value, bits, block) ==
  LET qmax == 2 ^ (bits - 1) - 1
      zero == 2 ^ (bits - 1)
      kmax(i) == MaxAbs(value, Channel(i))
      vmax(i) == MaxAbs(value, Row(i))
  IN [kscale |-> [i \in Elements |-> kmax(i)], vscale |-> [i \in Elements |-> vmax(i)],
      k |-> EncodeSymbols([i \in Elements |-> Quantize(value[i], kmax(i), qmax) + zero], bits),
      v |-> EncodeSymbols([i \in Elements |-> Quantize(value[i], vmax(i), qmax) + zero], bits),
      offsets |-> [b \in 0 .. (Tokens * Dim - 1) \div block |-> b * block * bits],
      lut |-> [look \in 0 .. 2 ^ bits - 1 |-> [symbol |-> look, length |-> bits]]]

\* The fixed-width fast path: the symbol at a row start and a channel.
Extracted(words, row, d, bits) ==
  LET bit == row * Dim * bits + d * bits
  IN (words[bit \div W] \div 2 ^ (W - bits - (bit % W))) % (2 ^ bits)

-----------------------------------------------------------------------------
(* Table decoding of a stream of codes, block by block.                      *)

BitAt(words, at) == (words[at \div W] \div 2 ^ (W - 1 - (at % W))) % 2

DecodeAt(words, lut, maxlen, at) ==
  lut[FoldLeft(LAMBDA look, n : 2 * look + BitAt(words, at + n - 1), 0, [n \in 1 .. maxlen |-> n])]

Advanced(words, lut, maxlen, at) == at + DecodeAt(words, lut, maxlen, at).length

\* Mutant: a row is read from the start of its block.
RowBitPositionOfBlock(words, offsets, lut, maxlen, block, flat) == offsets[flat \div block]

RowBitPosition(words, offsets, lut, maxlen, block, flat) ==
  FoldLeft(LAMBDA at, n : Advanced(words, lut, maxlen, at), offsets[flat \div block],
           [n \in 1 .. flat % block |-> n])

\* n symbols from a bit position on, across block boundaries.
Decoded(words, lut, maxlen, from, n) ==
  LET step(acc, i) == LET hit == DecodeAt(words, lut, maxlen, acc.at)
                      IN [at |-> acc.at + hit.length, out |-> Append(acc.out, hit.symbol)]
  IN FoldLeft(step, [at |-> from, out |-> <<>>], [i \in 1 .. n |-> i]).out

\* The first n symbols of a row, which may start within a block.
RowDecoded(words, row, n) ==
  Decoded(words, coded.lut, input.bits,
          RowBitPosition(words, coded.offsets, coded.lut, input.bits, input.block, row * Dim), n)

\* Each block from its own offset: what the materialising kernels do.
DecodedDense(words, offsets, lut, maxlen, block, n) ==
  FlattenSeq([b \in 1 .. (n + block - 1) \div block |->
    Decoded(words, lut, maxlen, offsets[b - 1], Min({block, n - (b - 1) * block}))])

MaxLength == Max({Len(CodeBook[x]) : x \in DOMAIN CodeBook})

HuffmanStream(symbols, block) ==
  LET code == [i \in 1 .. Len(symbols) |-> CodeBook[symbols[i]]]
      bits == FlattenSeq(code) \o [i \in 1 .. MaxLength + W |-> 0]
      start(i) == Len(FlattenSeq(SubSeq(code, 1, i)))
      bit(w, j) == bits[w * W + j + 1] * 2 ^ (W - 1 - j)
      value(bs) == FoldLeft(LAMBDA x, b : 2 * x + b, 0, bs)
      prefix(x, look) == value(CodeBook[x]) = look \div 2 ^ (MaxLength - Len(CodeBook[x]))
      hit(look) == CHOOSE x \in DOMAIN CodeBook : prefix(x, look)
  IN [words |-> [w \in 0 .. Len(bits) \div W - 1 |-> MapThenSumSet(LAMBDA j : bit(w, j), 0 .. W - 1)],
      offsets |-> [b \in 0 .. (Len(symbols) - 1) \div block |-> start(b * block)],
      lut |-> [look \in 0 .. 2 ^ MaxLength - 1 |-> [symbol |-> hit(look), length |-> Len(CodeBook[hit(look)])]]]

-----------------------------------------------------------------------------
(* Block rANS: each block from its own state and byte offset.                *)

Total == MapThenSumSet(LAMBDA x : Freq[x], DOMAIN Freq)
Cum(x) == MapThenSumSet(LAMBDA y : Freq[y], {y \in DOMAIN Freq : y < x})
SlotSymbol(slot) == CHOOSE x \in DOMAIN Freq : slot \in Cum(x) .. Cum(x) + Freq[x] - 1

RECURSIVE Emitted(_, _)
Emitted(state, x) ==
  IF state.x < (L \div Total) * Radix * Freq[x] THEN state
  ELSE Emitted([x |-> state.x \div Radix, data |-> <<state.x % Radix>> \o state.data], x)

EncodeBlock(symbols) ==
  LET put(acc, x) == LET e == Emitted(acc, x)
                     IN [e EXCEPT !.x = (e.x \div Freq[x]) * Total + (e.x % Freq[x]) + Cum(x)]
  IN FoldLeft(put, [x |-> L, data |-> <<>>], Reverse(symbols))

RECURSIVE Refilled(_, _, _)
Refilled(state, data, at) ==
  IF state >= L THEN [x |-> state, at |-> at]
  ELSE Refilled(state * Radix + data[at + 1], data, at + 1)

DecodeBlock(data, state, at, count) ==
  LET get(acc, n) ==
        LET slot == acc.x % Total
            x    == SlotSymbol(slot)
            r    == Refilled(Freq[x] * (acc.x \div Total) + slot - Cum(x), data, acc.at)
        IN [x |-> r.x, at |-> r.at, out |-> Append(acc.out, x)]
  IN FoldLeft(get, [x |-> state, at |-> at, out |-> <<>>], [n \in 1 .. count |-> n])

Blocks(symbols, block) ==
  [b \in 1 .. (Len(symbols) + block - 1) \div block |->
     EncodeBlock(SubSeq(symbols, (b - 1) * block + 1, Min({b * block, Len(symbols)})))]

RansStream(symbols, block) ==
  LET blocks == Blocks(symbols, block)
      data(b) == blocks[b].data
  IN [data |-> FlattenSeq([b \in DOMAIN blocks |-> data(b)]),
      byteOff |-> [b \in DOMAIN blocks |-> Len(FlattenSeq([c \in 1 .. b - 1 |-> data(c)]))],
      state |-> [b \in DOMAIN blocks |-> blocks[b].x]]

RansDecoded(stream, n, block) ==
  FlattenSeq([b \in DOMAIN stream.state |->
    DecodeBlock(stream.data, stream.state[b], stream.byteOff[b], Min({block, n - (b - 1) * block})).out])

-----------------------------------------------------------------------------
(* Base plus delta: a leaf overrides the base at its positions.              *)

DeltaStream(leaves) ==
  LET sorted(leaf) == SetToSortSeq(DOMAIN leaf, <)
  IN [pos   |-> FlattenSeq([n \in DOMAIN leaves |-> sorted(leaves[n])]),
      val   |-> FlattenSeq([n \in DOMAIN leaves |->
                  [i \in 1 .. Len(sorted(leaves[n])) |-> leaves[n][sorted(leaves[n])[i]]]]),
      start |-> [n \in DOMAIN leaves |-> Len(FlattenSeq([c \in 1 .. n - 1 |-> sorted(leaves[c])]))],
      len   |-> [n \in DOMAIN leaves |-> Cardinality(DOMAIN leaves[n])]]

RECURSIVE LowerBound(_, _, _, _, _)
LowerBound(pos, start, lo, hi, at) ==
  LET mid == (lo + hi) \div 2
  IN IF lo >= hi THEN lo
     ELSE IF pos[start + mid + 1] < at THEN LowerBound(pos, start, mid + 1, hi, at)
     ELSE LowerBound(pos, start, lo, mid, at)

\* The leaf's own value at a position, or the base's.
DeltaFetched(base, stream, leaf, at) ==
  LET start == stream.start[leaf]
      lo    == LowerBound(stream.pos, start, 0, stream.len[leaf], at)
  IN IF lo < stream.len[leaf] /\ stream.pos[start + lo + 1] = at THEN stream.val[start + lo + 1]
     ELSE IF at < Len(base) THEN base[at + 1] ELSE -1

-----------------------------------------------------------------------------

CONSTANT MaxSymbols   \* bound: symbols of a stream, positions of a base and of a leaf

Streams == UNION {[1 .. n -> DOMAIN Freq] : n \in 1 .. MaxSymbols}
Bases == {[i \in 1 .. n |-> i] : n \in 0 .. MaxSymbols - 1}
Leaves == {[at \in S |-> 10 + at] : S \in SUBSET (0 .. MaxSymbols - 1)}

CodecInit ==
  /\ coded = <<>>
  /\ \/ input \in [kind : {"page"}, value : [Elements -> Values], bits : Widths, block : BlockSizes]
     \/ input \in [kind : {"huffman", "rans"}, symbols : Streams, block : BlockSizes]
     \/ input \in [kind : {"delta"}, base : Bases, leaves : [1 .. 2 -> Leaves]]

Encode ==
  /\ coded = <<>>
  /\ coded' = CASE input.kind = "page"    -> EncodePage(input.value, input.bits, input.block)
                [] input.kind = "huffman" -> HuffmanStream(input.symbols, input.block)
                [] input.kind = "rans"    -> RansStream(input.symbols, input.block)
                [] OTHER                  -> DeltaStream(input.leaves)
  /\ UNCHANGED input

CodecNext == Encode

CodecSpec == CodecInit /\ [][CodecNext]_codecVars

-----------------------------------------------------------------------------

\* Twice qmax times the distance of a value from its dequantised symbol, which
\* is to be at most the scale max: half a quantisation step.
Distance(v, q, max, qmax) == 2 * Abs(v * qmax - q * max)

\* Whatever row and channel a kernel starts at, the fast path and the table
\* path read the same symbol, for keys scaled by channel and values by token,
\* and it dequantises to within half a step; the reference page does as well.
PagesDecode ==
  coded # <<>> /\ input.kind = "page" =>
    LET bits == input.bits
        qmax == 2 ^ (bits - 1) - 1
        zero == 2 ^ (bits - 1)
        reference == SealReference(input.value)
        tabled(words, row, d) == RowDecoded(words, row, d + 1)[d + 1]
    IN \A i \in Elements :
         LET k == Extracted(coded.k, i \div Dim, i % Dim, bits)
             v == Extracted(coded.v, i \div Dim, i % Dim, bits)
         IN /\ k = tabled(coded.k, i \div Dim, i % Dim) /\ v = tabled(coded.v, i \div Dim, i % Dim)
            /\ Distance(input.value[i], k - zero, coded.kscale[i], qmax) <= coded.kscale[i]
            /\ Distance(input.value[i], v - zero, coded.vscale[i], qmax) <= coded.vscale[i]
            /\ Distance(input.value[i], Nibble(reference.k, i), coded.kscale[i], 7) <= coded.kscale[i]
            /\ Distance(input.value[i], Nibble(reference.v, i), coded.vscale[i], 7) <= coded.vscale[i]

\* A row decoded from the middle of a block across block boundaries is the row
\* the block-by-block decoder materialises, and both are what was encoded;
\* rANS blocks decode independently of each other; a leaf reads as the base
\* with its own positions overridden, beyond the end of the base too.
StreamsDecode ==
  coded # <<>> =>
    CASE input.kind = "huffman" ->
           LET n == Len(input.symbols)
               row(from) == RowBitPosition(coded.words, coded.offsets, coded.lut, MaxLength, input.block, from)
           IN /\ DecodedDense(coded.words, coded.offsets, coded.lut, MaxLength, input.block, n) = input.symbols
              /\ \A from \in 0 .. n - 1 :
                   Decoded(coded.words, coded.lut, MaxLength, row(from), n - from) = SubSeq(input.symbols, from + 1, n)
      [] input.kind = "rans" -> RansDecoded(coded, Len(input.symbols), input.block) = input.symbols
      [] input.kind = "delta" ->
           \A leaf \in 1 .. 2, at \in 0 .. MaxSymbols :
             DeltaFetched(input.base, coded, leaf, at) =
               IF at \in DOMAIN input.leaves[leaf] THEN input.leaves[leaf][at]
               ELSE IF at < Len(input.base) THEN input.base[at + 1] ELSE -1
      [] OTHER -> TRUE

\* Quantised pages read the same by both paths to half a step, and streams decode
\* to what was encoded from wherever a kernel starts.
DecodersExact == PagesDecode /\ StreamsDecode
=============================================================================
