------------------------------ MODULE TextIndex ------------------------------
(* The compressed full-text index: a suffix array by prefix doubling (on the *)
(* host or on the GPU), the BWT of the sentinelled stream, a wavelet matrix  *)
(* over RRR bitvectors, and backward search and LF-walks over it.  Arrays    *)
(* are functions from 0, as in the source.                                   *)
EXTENDS Integers, FiniteSets, FiniteSetsExt, Sequences, SequencesExt

CONSTANTS T, S, K,      \* RRR: bits of a block, blocks of a superblock, superblocks of an anchor
          CB,           \* bits of a class in the class stream (4 in the source)
          W,            \* bits of a word (32)
          SB,           \* words of a packed superblock (8)
          DeltaSpan,    \* values of a superblock delta (2^16)
          KeySpan,      \* values of half a sort key (2^32)
          SaSample,     \* suffix array values that are multiples of it are kept
          Vocab,        \* symbols of the stream
          TextLengths,      \* bound: lengths of the streams indexed
          MaxPattern    \* bound: symbols of a pattern

VARIABLES s,        \* the stream plus one, and its sentinel 0
          builder,  \* which of the two suffix-array builders runs
          phase, k, rank,
          index,    \* the built index, with the suffix array and the BWT it was built from
          job       \* the search in progress

textVars == <<s, builder, phase, k, rank, index, job>>

N == Cardinality(DOMAIN s)
Positions == 0 .. N - 1
PositionSeq == [i \in 1 .. N |-> i - 1]
CeilDiv(a, b) == (a + b - 1) \div b
Ones(bits, from, to) == Cardinality({x \in from .. to - 1 : bits[x] = 1})

\* A rank, or a symbol, shifted by one fits into half a sort key.
ASSUME KeysFit ==
  /\ Vocab \in Nat /\ KeySpan \in Nat /\ Vocab + 1 < KeySpan
  /\ \A n \in TextLengths : n \in Nat /\ n + 1 < KeySpan

-----------------------------------------------------------------------------
(* Suffix array: rank orders the suffixes by their first k symbols.          *)

\* Mutant: the second half is the next suffix's rank, not the one k further on.
KeyNext(i) ==
  IF builder = "host" THEN <<rank[i], IF i + 1 < N THEN rank[i + 1] ELSE -1>>
  ELSE <<rank[i] * KeySpan + (IF i + 1 < N THEN rank[i + 1] + 1 ELSE 0)>>

Key(i) ==
  IF builder = "host" THEN <<rank[i], IF i + k < N THEN rank[i + k] ELSE -1>>
  ELSE <<rank[i] * KeySpan + (IF i + k < N THEN rank[i + k] + 1 ELSE 0)>>

KeyLess(a, b) == \E d \in DOMAIN a : a[d] < b[d] /\ \A e \in 1 .. d - 1 : a[e] = b[e]

Reranked ==
  LET key == [i \in Positions |-> Key(i)]
  IN [i \in Positions |-> Cardinality({key[j] : j \in {x \in Positions : KeyLess(key[x], key[i])}})]

Distinct(r) == \A i, j \in Positions : r[i] = r[j] => i = j

Double ==
  /\ phase = "sort"
  /\ rank' = Reranked
  /\ k' = 2 * k
  /\ phase' = IF Distinct(rank') \/ (builder = "gpu" /\ k' >= N) THEN "build" ELSE "sort"
  /\ UNCHANGED <<s, builder, index, job>>

SuffixArray == [j \in Positions |-> CHOOSE i \in Positions : rank[i] = j]
Bwt(sa) == [i \in Positions |-> s[(sa[i] + N - 1) % N]]

-----------------------------------------------------------------------------
(* The RRR encoding of one plane: a class per block and its offset among the *)
(* words of that class, packed into words, and samples at superblocks.       *)

Binom[c \in 0 .. T, i \in 0 .. T] ==
  IF i = 0 THEN 1 ELSE IF c = 0 THEN 0 ELSE Binom[c - 1, i - 1] + Binom[c - 1, i]

Width[c \in 0 .. T] == Min({w \in 0 .. T : 2 ^ w >= Binom[T, c]})

\* A stream of words into which fields [at, val] were or-ed, LSB first.
Packed(fields, nwords) ==
  LET low(f) == (f.val * 2 ^ (f.at % W)) % (2 ^ W)
      high(f) == f.val \div 2 ^ (W - (f.at % W))
  IN [j \in 0 .. nwords - 1 |->
        MapThenSumSet(low, {f \in fields : f.at \div W = j})
          + MapThenSumSet(high, {f \in fields : f.at \div W + 1 = j})]

Rrr(plane) ==
  LET nblocks == CeilDiv(N, T)
      nsb     == CeilDiv(nblocks, S)
      set(b)  == {c \in 0 .. T - 1 : b * T + c < N /\ plane[b * T + c] = 1}
      class   == [b \in 0 .. nblocks - 1 |-> Cardinality(set(b))]
      offset(b) == LET term(c) == Binom[c, Cardinality({d \in set(b) : d <= c})]
                   IN MapThenSumSet(term, set(b))
      upto(f(_), b) == MapThenSumSet(f, 0 .. b - 1)
      bits(b) == Width[class[b]]
      start   == [b \in 0 .. nblocks |-> upto(bits, b)]
      ones(b) == class[b]
      sample(i) == Min({i * S, nblocks})
  IN [classes |-> Packed({[at |-> b * CB, val |-> class[b]] : b \in 0 .. nblocks - 1},
                         CeilDiv(nblocks * CB, W) + 1),
      offsets |-> Packed({[at |-> start[b], val |-> offset(b)] : b \in 0 .. nblocks - 1},
                         CeilDiv(start[nblocks], W) + 2),
      sbrank  |-> [i \in 0 .. nsb |-> upto(ones, sample(i))],
      sboff   |-> [i \in 0 .. nsb |-> start[sample(i)]],
      zeros   |-> N - upto(ones, nblocks)]

TwoLevel(cum) ==
  LET anchor(i) == cum[(i \div K) * K]
  IN [anchors |-> [a \in 0 .. CeilDiv(Cardinality(DOMAIN cum), K) - 1 |-> cum[a * K]],
      delta   |-> [i \in DOMAIN cum |-> (cum[i] - anchor(i)) % DeltaSpan]]

-----------------------------------------------------------------------------
(* The wavelet matrix: level by level, a plane of bits and a stable partition *)

PlaneOf(cur, bits, lvl) == [i \in Positions |-> (cur[i] \div 2 ^ (bits - 1 - lvl)) % 2]

Partitioned(cur, plane) ==
  LET zero(i) == plane[i] = 0
      one(i)  == plane[i] = 1
      sorted  == SelectSeq(PositionSeq, zero) \o SelectSeq(PositionSeq, one)
  IN [i \in Positions |-> cur[sorted[i + 1]]]

Levels == 0 .. index.bits - 1

BuildLevel ==
  /\ phase = "wavelet" /\ Cardinality(DOMAIN index.planes) < index.bits
  /\ LET lvl   == Cardinality(DOMAIN index.planes)
         plane == PlaneOf(index.cur, index.bits, lvl)
     IN index' = [index EXCEPT !.planes = [l \in 0 .. lvl |-> IF l = lvl THEN plane ELSE @[l]],
                               !.rrr    = [l \in 0 .. lvl |-> IF l = lvl THEN Rrr(plane) ELSE @[l]],
                               !.cur    = Partitioned(@, plane)]
  /\ UNCHANGED <<s, builder, phase, k, rank, job>>

Wavelet(rrr) ==
  LET words(l) == Cardinality(DOMAIN rrr[l].offsets)
      base     == [l \in Levels |-> MapThenSumSet(words, 0 .. l - 1)]
      level(w) == Max({l \in Levels : base[l] <= w})
  IN [offsets |-> [w \in 0 .. MapThenSumSet(words, Levels) - 1 |-> rrr[level(w)].offsets[w - base[level(w)]]],
      offbase |-> [l \in Levels |-> base[l] * W],
      rank    |-> [l \in Levels |-> TwoLevel(rrr[l].sbrank)],
      off     |-> [l \in Levels |-> TwoLevel(rrr[l].sboff)]]

\* The packed directory of a plane: ones before each superblock of SB words.
PackedSamples(plane) == [j \in 0 .. CeilDiv(CeilDiv(N, W), SB) |-> Ones(plane, 0, Min({j * SB * W, N}))]

\* The two-level directory of a plane: ones before a group of words, and before
\* each word within its group, with a sentinel for the position N.
Directory(plane) ==
  [coarse |-> [g \in 0 .. CeilDiv(N, W) \div SB |-> Ones(plane, 0, Min({g * SB * W, N}))],
   fine   |-> [w \in 0 .. CeilDiv(N, W) |-> Ones(plane, (w \div SB) * SB * W, Min({w * W, N}))]]

Marks(sa) == [i \in Positions |-> IF sa[i] % SaSample = 0 THEN 1 ELSE 0]
\* Mutant: samples kept in the order of the text.
SamplesInTextOrder(sa) == [j \in 0 .. (N - 1) \div SaSample |-> j * SaSample]

Samples(sa) ==
  LET kept(i) == sa[i] % SaSample = 0
      slots   == SelectSeq(PositionSeq, kept)
  IN [j \in 0 .. Len(slots) - 1 |-> sa[slots[j + 1]]]

Counts(bwt, sigma) == [c \in 0 .. sigma - 1 |-> Cardinality({i \in Positions : bwt[i] < c})]

Empty == [i \in {} |-> 0]

StartBuild ==
  LET sa    == SuffixArray
      bwt   == Bwt(sa)
      sigma == Max({bwt[i] : i \in Positions}) + 1
  IN /\ phase = "build"
     /\ index' = [sa |-> sa, bwt |-> bwt, sigma |-> sigma, bits |-> Min({b \in 1 .. sigma : 2 ^ b >= sigma}),
                  cur |-> bwt, planes |-> Empty, rrr |-> Empty]
     /\ phase' = "wavelet"
     /\ UNCHANGED <<s, builder, k, rank, job>>

Assemble ==
  /\ phase = "wavelet" /\ DOMAIN index.planes = Levels
  /\ index' = [w |-> Wavelet(index.rrr), C |-> Counts(index.bwt, index.sigma),
               sup |-> [l \in Levels |-> PackedSamples(index.planes[l])],
               dir |-> [l \in Levels |-> Directory(index.planes[l])],
               marks |-> Marks(index.sa), msb |-> PackedSamples(Marks(index.sa)),
               sval |-> Samples(index.sa)] @@ index
  /\ phase' = "ready"
  /\ UNCHANGED <<s, builder, k, rank, job>>

-----------------------------------------------------------------------------
(* Reading the RRR streams.                                                  *)

ClassAt(classes, j) == (classes[(j * CB) \div W] \div (2 ^ ((j * CB) % W))) % (2 ^ CB)

\* Mutant: the bits that spill into the next word are lost.
ReadBitsInWord(stream, at, width) ==
  IF width = 0 THEN 0 ELSE (stream[at \div W] \div 2 ^ (at % W)) % (2 ^ width)

ReadBits(stream, at, width) ==
  LET b == at % W
      low == stream[at \div W] \div 2 ^ b
      high == IF b + width > W THEN stream[at \div W + 1] * 2 ^ (W - b) ELSE 0
  IN IF width = 0 THEN 0 ELSE (low + high) % (2 ^ width)

\* The word of a class with the given offset, as its set of ones: the highest
\* one is the greatest c with Binom[c, i] <= r, and so on down.
DecodeWord(class, off) ==
  LET ones[i \in 0 .. class, r \in 0 .. off] ==
        IF i = 0 THEN {}
        ELSE LET c == Max({x \in 0 .. T - 1 : Binom[x, i] <= r})
             IN {c} \cup ones[i - 1, r - Binom[c, i]]
  IN ones[class, off]

\* Rank and offset position at a superblock, moved on to block blk by its classes.
Scanned(rrr, rank0, bit0, blk) ==
  LET before == (blk \div S) * S .. blk - 1
      class(j) == ClassAt(rrr.classes, j)
      bits(j)  == Width[ClassAt(rrr.classes, j)]
  IN [rank |-> rank0 + MapThenSumSet(class, before), bit |-> bit0 + MapThenSumSet(bits, before)]

Block(rrr, stream, base, at, blk) ==
  LET class == ClassAt(rrr.classes, blk)
  IN DecodeWord(class, ReadBits(stream, base + at.bit, Width[class]))

Partial(rrr, stream, base, at, pos) ==
  at.rank + IF pos % T = 0 THEN 0
            ELSE Cardinality({c \in Block(rrr, stream, base, at, pos \div T) : c < pos % T})

\* One RRR bitvector, with a sample per superblock.
RrrRank1(lvl, pos) ==
  LET rrr == index.rrr[lvl]
      sb  == (pos \div T) \div S
  IN Partial(rrr, rrr.offsets, 0, Scanned(rrr, rrr.sbrank[sb], rrr.sboff[sb], pos \div T), pos)

\* A level of the wavelet, whose samples are an anchor and a delta.
Sampled(lvl, blk) ==
  LET sb   == blk \div S
      rank_ == index.w.rank[lvl]
      off  == index.w.off[lvl]
  IN Scanned(index.rrr[lvl], rank_.anchors[sb \div K] + rank_.delta[sb], off.anchors[sb \div K] + off.delta[sb], blk)

Rank1Lvl(lvl, pos) ==
  Partial(index.rrr[lvl], index.w.offsets, index.w.offbase[lvl], Sampled(lvl, pos \div T), pos)

\* The same and the bit at pos, always decoding the block.
Rank1AndBit(lvl, pos) ==
  LET at == Sampled(lvl, pos \div T)
      word == Block(index.rrr[lvl], index.w.offsets, index.w.offbase[lvl], at, pos \div T)
  IN [rank |-> at.rank + Cardinality({c \in word : c < pos % T}), bit |-> IF pos % T \in word THEN 1 ELSE 0]

\* The packed plane: a superblock sample and the words after it.
PackedRank1(plane, sup, pos) ==
  LET blk == (pos \div W) \div SB IN sup[blk] + Ones(plane, blk * SB * W, pos)

TwoLevelRank1(plane, dir, pos) ==
  LET word == pos \div W IN dir.coarse[word \div SB] + dir.fine[word] + Ones(plane, word * W, pos)

-----------------------------------------------------------------------------
(* Access and rank walk down the levels.                                     *)

LevelSeq == [l \in 1 .. index.bits |-> l - 1]
Zeros(lvl) == index.rrr[lvl].zeros

\* One level of access: r ones before position at, and the bit there.
Below(lvl, at, r, bit) ==
  [val |-> 2 * at.val + bit, i |-> IF bit = 1 THEN Zeros(lvl) + r ELSE at.i - r]

Access(i) ==
  LET down(at, lvl) == LET both == Rank1AndBit(lvl, at.i) IN Below(lvl, at, both.rank, both.bit)
  IN FoldLeft(down, [val |-> 0, i |-> i], LevelSeq).val

AccessTwoRanks(i) ==
  LET down(at, lvl) == LET r0 == Rank1Lvl(lvl, at.i) IN Below(lvl, at, r0, Rank1Lvl(lvl, at.i + 1) - r0)
  IN FoldLeft(down, [val |-> 0, i |-> i], LevelSeq).val

AccessPacked(i) ==
  LET down(at, lvl) == Below(lvl, at, PackedRank1(index.planes[lvl], index.sup[lvl], at.i), index.planes[lvl][at.i])
  IN FoldLeft(down, [val |-> 0, i |-> i], LevelSeq).val

\* The token ids the embedding gathers read: in the kernel that copies the row, or
\* from a buffer of every token, which the compressed gather does without.
EmbeddingToken(i) == AccessPacked(i)
DecodedAll == [i \in Positions |-> Access(i)]

\* Occurrences of c before i, from the ones that rank1[lvl][x] counts before x in a level.
Narrowed(rank1, c, i) ==
  LET bit(lvl) == (c \div 2 ^ (index.bits - 1 - lvl)) % 2
      move(lvl, x) == IF bit(lvl) = 1 THEN Zeros(lvl) + rank1[lvl][x] ELSE x - rank1[lvl][x]
      down(pq, lvl) == <<move(lvl, pq[1]), move(lvl, pq[2])>>
      ends == FoldLeft(down, <<0, i>>, LevelSeq)
  IN ends[2] - ends[1]

Rank(c, i) == Narrowed([lvl \in Levels |-> [x \in 0 .. N |-> Rank1Lvl(lvl, x)]], c, i)
RankLinear(c, i) ==
  Narrowed([lvl \in Levels |-> [x \in 0 .. N |-> PackedRank1(index.planes[lvl], index.sup[lvl], x)]], c, i)
RankTwoLevel(c, i) ==
  Narrowed([lvl \in Levels |-> [x \in 0 .. N |-> TwoLevelRank1(index.planes[lvl], index.dir[lvl], x)]], c, i)

-----------------------------------------------------------------------------
(* Backward search: one symbol of the pattern at a time, from its end; then  *)
(* an LF-walk from a row of the range to a row whose position is kept.       *)

NoJob == [pat |-> <<>>, used |-> 0, lo |-> 0, hi |-> 0]
Symbols == 1 .. Vocab
Patterns == UNION {[1 .. m -> Symbols] : m \in 1 .. MaxPattern}

StartSearch(pat) ==
  /\ phase = "ready"
  /\ phase' = "search"
  /\ job' = [NoJob EXCEPT !.pat = pat, !.hi = N]
  /\ UNCHANGED <<s, builder, k, rank, index>>

Backward ==
  /\ phase = "search" /\ job.used < Len(job.pat)
  /\ LET c == job.pat[Len(job.pat) - job.used]
     IN job' = [job EXCEPT !.used = @ + 1,
                  !.lo = IF c >= index.sigma THEN 0
                         ELSE IF job.lo < job.hi THEN index.C[c] + Rank(c, job.lo) ELSE @,
                  !.hi = IF c >= index.sigma THEN 0
                         ELSE IF job.lo < job.hi THEN index.C[c] + Rank(c, job.hi) ELSE @]
  /\ UNCHANGED <<s, builder, phase, k, rank, index>>

StartWalk(row) ==
  /\ phase = "search" /\ job.used = Len(job.pat)
  /\ row \in job.lo .. job.hi - 1
  /\ phase' = "walk"
  /\ job' = [pat |-> job.pat, row |-> row, p |-> row, steps |-> 0]
  /\ UNCHANGED <<s, builder, k, rank, index>>

Marked(p) == index.marks[p] = 1

Walk ==
  /\ phase = "walk" /\ ~Marked(job.p)
  /\ LET c == Access(job.p)
     IN job' = [job EXCEPT !.p = index.C[c] + Rank(c, job.p), !.steps = @ + 1]
  /\ UNCHANGED <<s, builder, phase, k, rank, index>>

\* The position located, once the walk is at a kept row.
Located == (index.sval[PackedRank1(index.marks, index.msb, job.p)] + job.steps) % N

-----------------------------------------------------------------------------

\* Streams of the given lengths that repeat a word of two symbols and then another.
Streams(n) ==
  {[i \in 0 .. n |-> IF i = n THEN 0 ELSE 1 + (IF i < n \div 2 THEN u[1 + (i % Len(u))] ELSE v[1 + (i % Len(v))])] :
     u, v \in UNION {[1 .. m -> 0 .. Vocab - 1] : m \in 1 .. 2}}

TextInit ==
  /\ \E n \in TextLengths : s \in Streams(n)
  /\ builder \in {"host", "gpu"}
  /\ phase = "sort" /\ k = 1 /\ rank = s
  /\ index = <<>> /\ job = NoJob

TextNext ==
  \/ Double \/ StartBuild \/ BuildLevel \/ Assemble
  \/ \E pat \in Patterns : StartSearch(pat)
  \/ Backward
  \/ \E row \in Positions : StartWalk(row)
  \/ Walk

-----------------------------------------------------------------------------

SuffixAt(i, len) == [d \in 1 .. Min({len, N - i}) |-> s[i + d - 1]]

Precedes(a, b) ==
  \E d \in 1 .. Len(b) :
    /\ d > Len(a) \/ a[d] < b[d]
    /\ \A e \in 1 .. d - 1 : e <= Len(a) /\ a[e] = b[e]

\* Prefix doubling: before the round with step k the ranks order the suffixes
\* by their first k symbols and no further, in both builders, so the array they
\* stop at is the suffix array and the two builders agree.
RanksOrderPrefixes ==
  phase \in {"sort", "build"} =>
    \A i, j \in Positions : rank[i] < rank[j] <=> Precedes(SuffixAt(i, k), SuffixAt(j, k))

\* Every way of reading the index gives what the plain BWT gives: the two-rank
\* and one-decode accesses, the packed one, and the rank of every directory,
\* at every position and for every symbol, the end of the stream included.
ReadersAgree ==
  phase = "ready" =>
    /\ \A i \in Positions :
         DecodedAll[i] = index.bwt[i] /\ AccessTwoRanks(i) = index.bwt[i] /\ EmbeddingToken(i) = index.bwt[i]
    /\ \A c \in 0 .. index.sigma - 1, i \in 0 .. N :
         LET plain == Cardinality({x \in 0 .. i - 1 : index.bwt[x] = c})
         IN Rank(c, i) = plain /\ RankLinear(c, i) = plain /\ RankTwoLevel(c, i) = plain
    /\ \A lvl \in Levels, i \in 0 .. N : RrrRank1(lvl, i) = Ones(index.planes[lvl], 0, i)

\* During a backward search the range is exactly the rows of the suffixes that
\* start with the symbols consumed; during an LF-walk the row reached is that
\* many symbols before the row asked for, fewer than SaSample away, and the
\* position located is one where the pattern occurs.
SearchExact ==
  /\ phase = "search" =>
       LET tail == SubSeq(job.pat, Len(job.pat) - job.used + 1, Len(job.pat))
       IN job.lo .. job.hi - 1 = {r \in Positions : SuffixAt(index.sa[r], job.used) = tail}
  /\ phase = "walk" =>
       /\ (index.sa[job.p] + job.steps) % N = index.sa[job.row]
       /\ job.steps < SaSample
       /\ Marked(job.p) => SuffixAt(Located, Len(job.pat)) = job.pat
=============================================================================
