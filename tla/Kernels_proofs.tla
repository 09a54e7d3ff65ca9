---------------------------- MODULE Kernels_proofs ----------------------------
(***************************************************************************)
(* Theorems of Kernels: the suffix array by prefix doubling, for any       *)
(* stream and both builders; layouts of pages, for any heads, capacity and *)
(* range of positions; and adaptive pages, for any number of values, block *)
(* size and unit.                                                          *)
(***************************************************************************)
EXTENDS Kernels, FoldTheorems, SequenceTheorems

\* What follows the stream sorts before every symbol.
At(x) == IF x < N THEN s[x] ELSE -1

\* The order of the suffixes of two positions by their first m symbols.
Before(i, j, m) == \E d \in 0 .. m - 1 : At(i + d) < At(j + d) /\ \A e \in 0 .. d - 1 : At(i + e) = At(j + e)
Same(i, j, m)   == \A d \in 0 .. m - 1 : At(i + d) = At(j + d)

\* A stream of n symbols and its sentinel.
StreamTyped(n) == n \in Nat /\ s \in [0 .. n -> Nat]

LEMMA StreamFacts ==
  ASSUME NEW n, StreamTyped(n)
  PROVE  /\ N = n + 1 /\ Positions = 0 .. n /\ N \in Nat /\ IsFiniteSet(Positions) /\ Cardinality(Positions) = N
         /\ \A x \in Nat : At(x) \in Int /\ At(x) >= -1 /\ (x < N => At(x) = s[x] /\ s[x] \in Nat) /\ (x >= N => At(x) = -1)
<1>1. 0 \in Int /\ n \in Int /\ DOMAIN s = 0 .. n /\ n \in Nat
  BY DEF StreamTyped
<1>2. IsFiniteSet(0 .. n) /\ Cardinality(0 .. n) = n - 0 + 1
  BY ONLY <1>1, FS_Interval
<1>3. N = n + 1
  BY <1>1, <1>2 DEF N
<1>4. Positions = 0 .. n
  BY <1>1, <1>3 DEF Positions
<1>5. ASSUME NEW x \in Nat
      PROVE  At(x) \in Int /\ At(x) >= -1 /\ (x < N => At(x) = s[x] /\ s[x] \in Nat) /\ (x >= N => At(x) = -1)
  BY <1>1, <1>3 DEF At, StreamTyped
<1> QED
  BY <1>1, <1>2, <1>3, <1>4, <1>5

LEMMA PositionFacts ==
  ASSUME NEW n, StreamTyped(n), NEW i \in Positions
  PROVE  i \in Nat /\ i < N /\ N \in Nat /\ N - i \in Nat
<1>1. n \in Nat /\ N = n + 1 /\ i \in 0 .. n
  BY StreamFacts DEF StreamTyped
<1> QED
  BY <1>1

\* The symbols of two suffixes come in one of three orders.
LEMMA Trichotomy ==
  ASSUME NEW n, StreamTyped(n), NEW i \in Nat, NEW j \in Nat, NEW m \in Nat
  PROVE  /\ Before(i, j, m) \/ Before(j, i, m) \/ Same(i, j, m)
         /\ ~(Before(i, j, m) /\ Before(j, i, m))
         /\ ~(Before(i, j, m) /\ Same(i, j, m))
<1>1. \A d \in 0 .. m - 1 : At(i + d) \in Int /\ At(j + d) \in Int
  BY StreamFacts
<1>2. Before(i, j, m) \/ Before(j, i, m) \/ Same(i, j, m)
<2> DEFINE apart == {d \in 0 .. m - 1 : At(i + d) # At(j + d)}
<2>1. CASE apart = {}
  BY <2>1 DEF Same
<2>2. CASE apart # {}
<3>1. apart \subseteq Nat
  OBVIOUS
<3>2. PICK d \in apart : \A e \in apart : d <= e
<4> HIDE DEF apart
<4> QED
  BY <3>1, <2>2, LeastExists
<3>3. \A e \in 0 .. d - 1 : At(i + e) = At(j + e) /\ At(j + e) = At(i + e)
  BY <3>2
<3>4. At(i + d) < At(j + d) \/ At(j + d) < At(i + d)
  BY <1>1, <3>2
<3> QED
  BY <3>2, <3>3, <3>4 DEF Before
<2> QED
  BY <2>1, <2>2
<1>3. ASSUME Before(i, j, m), Before(j, i, m) PROVE FALSE
<2>1. PICK d \in 0 .. m - 1 : At(i + d) < At(j + d) /\ \A e \in 0 .. d - 1 : At(i + e) = At(j + e)
  BY <1>3 DEF Before
<2>2. PICK f \in 0 .. m - 1 : At(j + f) < At(i + f) /\ \A e \in 0 .. f - 1 : At(j + e) = At(i + e)
  BY <1>3 DEF Before
<2>3. d < f \/ d = f \/ f < d
  OBVIOUS
<2>4. CASE d < f
<3>1. d \in 0 .. f - 1
  BY <2>4
<3>2. At(j + d) = At(i + d)
  BY <2>2, <3>1
<3>3. At(i + d) \in Int /\ At(j + d) \in Int
  BY <1>1
<3>4. At(i + d) < At(j + d)
  BY <2>1
<3> QED
  BY ONLY <3>2, <3>3, <3>4
<2>5. CASE d = f
  BY <1>1, <2>1, <2>2, <2>5
<2>6. CASE f < d
<3>1. f \in 0 .. d - 1
  BY <2>6
<3>2. At(i + f) = At(j + f)
  BY <2>1, <3>1
<3>3. At(i + f) \in Int /\ At(j + f) \in Int
  BY <1>1
<3>4. At(j + f) < At(i + f)
  BY <2>2
<3> QED
  BY ONLY <3>2, <3>3, <3>4
<2> QED
  BY <2>3, <2>4, <2>5, <2>6
<1>4. ASSUME Before(i, j, m), Same(i, j, m) PROVE FALSE
  BY <1>1, <1>4 DEF Before, Same
<1> QED
  BY <1>2, <1>3, <1>4

\* Two prefixes are ordered by their first halves, then by their second ones.
LEMMA BeforeSplit ==
  ASSUME NEW i \in Nat, NEW j \in Nat, NEW m \in Nat
  PROVE  Before(i, j, 2 * m) <=> Before(i, j, m) \/ (Same(i, j, m) /\ Before(i + m, j + m, m))
<1>1. ASSUME Before(i, j, 2 * m) PROVE Before(i, j, m) \/ (Same(i, j, m) /\ Before(i + m, j + m, m))
<2>1. PICK d \in 0 .. 2 * m - 1 : At(i + d) < At(j + d) /\ \A e \in 0 .. d - 1 : At(i + e) = At(j + e)
  BY <1>1 DEF Before
<2>2. CASE d < m
<3>1. d \in 0 .. m - 1
  BY <2>2
<3> QED
  BY <2>1, <3>1 DEF Before
<2>3. CASE d >= m
<3>1. Same(i, j, m)
  BY <2>1, <2>3 DEF Same
<3>2. PICK f \in 0 .. m - 1 : d = m + f
<4>1. d - m \in 0 .. m - 1 /\ d = m + (d - m)
  BY <2>3
<4> QED
  BY <4>1
<3>3. \A x \in Nat : i + (m + x) = (i + m) + x /\ j + (m + x) = (j + m) + x
  OBVIOUS
<3>4. At((i + m) + f) < At((j + m) + f)
  BY <2>1, <3>2, <3>3
<3>5. ASSUME NEW e \in 0 .. f - 1 PROVE At((i + m) + e) = At((j + m) + e)
<4>1. m + e \in 0 .. d - 1 /\ e \in Nat
  BY <3>2
<4> QED
  BY <2>1, <3>3, <4>1
<3> QED
  BY <3>1, <3>4, <3>5 DEF Before
<2> QED
  BY <2>2, <2>3
<1>2. ASSUME Before(i, j, m) PROVE Before(i, j, 2 * m)
<2>1. PICK d \in 0 .. m - 1 : At(i + d) < At(j + d) /\ \A e \in 0 .. d - 1 : At(i + e) = At(j + e)
  BY <1>2 DEF Before
<2>2. d \in 0 .. 2 * m - 1
  OBVIOUS
<2> QED
  BY <2>1, <2>2 DEF Before
<1>3. ASSUME Same(i, j, m), Before(i + m, j + m, m) PROVE Before(i, j, 2 * m)
<2>1. PICK f \in 0 .. m - 1 : At((i + m) + f) < At((j + m) + f) /\ \A e \in 0 .. f - 1 : At((i + m) + e) = At((j + m) + e)
  BY <1>3 DEF Before
<2>2. \A x \in Nat : i + (m + x) = (i + m) + x /\ j + (m + x) = (j + m) + x
  OBVIOUS
<2>3. m + f \in 0 .. 2 * m - 1 /\ At(i + (m + f)) < At(j + (m + f))
  BY <2>1, <2>2
<2>4. ASSUME NEW e \in 0 .. (m + f) - 1 PROVE At(i + e) = At(j + e)
<3>1. CASE e < m
  BY <1>3, <3>1 DEF Same
<3>2. CASE e >= m
<4>1. e - m \in 0 .. f - 1 /\ e - m \in Nat /\ i + e = (i + m) + (e - m) /\ j + e = (j + m) + (e - m)
  BY <3>2
<4> QED
  BY <2>1, <4>1
<3> QED
  BY <3>1, <3>2
<2> QED
  BY <2>3, <2>4 DEF Before
<1> QED
  BY <1>1, <1>2, <1>3

\* SuffixAt as far as the stream goes, symbol by symbol.
LEMMA SuffixIs ==
  ASSUME NEW n, StreamTyped(n), NEW i \in Positions, NEW m \in Nat
  PROVE  /\ Len(SuffixAt(i, m)) \in Nat
         /\ \A d \in Nat : d < Len(SuffixAt(i, m)) <=> d < m /\ i + d < N
         /\ \A d \in Nat : d < m /\ i + d < N => SuffixAt(i, m)[d + 1] = At(i + d)
<1>1. PICK len \in Nat : len = Min({m, N - i}) /\ \A d \in Nat : d < len <=> d < m /\ i + d < N
<2>1. N - i \in Nat /\ i \in Nat /\ N \in Nat
  BY PositionFacts
<2>2. m <= N - i \/ N - i < m
  BY <2>1
<2>3. CASE m <= N - i
<3>1. m = Min({m, N - i})
  BY <2>1, <2>3 DEF Min
<3> QED
  BY <2>1, <2>3, <3>1
<2>4. CASE N - i < m
<3>1. N - i = Min({m, N - i})
  BY <2>1, <2>4 DEF Min
<3> QED
  BY <2>1, <2>4, <3>1
<2> QED
  BY <2>3, <2>4, <2>2
<1>2. SuffixAt(i, m) = [d \in 1 .. len |-> s[i + d - 1]]
  BY <1>1 DEF SuffixAt
<1>3. Len(SuffixAt(i, m)) = len
  BY <1>1, <1>2
<1>4. ASSUME NEW d \in Nat, d < m, i + d < N PROVE SuffixAt(i, m)[d + 1] = At(i + d)
<2>1. d + 1 \in 1 .. len
  BY <1>1, <1>4
<2>2. i + (d + 1) - 1 = i + d /\ i \in Nat
  BY PositionFacts
<2>3. SuffixAt(i, m)[d + 1] = s[i + d]
  BY <1>2, <2>1, <2>2
<2> QED
  BY <1>4, <2>3 DEF At
<1> QED
  BY <1>1, <1>3, <1>4

\* The order of suffixes as sequences, a prefix before what it is a prefix of, is
\* the order of the symbols they give with what follows the stream below them all.
LEMMA PrecedesIs ==
  ASSUME NEW n, StreamTyped(n), NEW i \in Positions, NEW j \in Positions, NEW m \in Nat
  PROVE  Precedes(SuffixAt(i, m), SuffixAt(j, m)) <=> Before(i, j, m)
<1> DEFINE a == SuffixAt(i, m)
           b == SuffixAt(j, m)
<1>1. /\ Len(a) \in Nat /\ Len(b) \in Nat /\ i \in Nat /\ j \in Nat /\ N \in Nat
      /\ \A d \in Nat : d < Len(a) <=> d < m /\ i + d < N
      /\ \A d \in Nat : d < Len(b) <=> d < m /\ j + d < N
      /\ \A d \in Nat : d < m /\ i + d < N => a[d + 1] = At(i + d)
      /\ \A d \in Nat : d < m /\ j + d < N => b[d + 1] = At(j + d)
<2>1. i \in Nat /\ j \in Nat /\ N \in Nat
  BY PositionFacts
<2> QED
  BY <2>1, SuffixIs
<1>2. \A x \in Nat : At(x) \in Int /\ At(x) >= -1 /\ (x < N => At(x) \in Nat) /\ (x >= N => At(x) = -1)
  BY StreamFacts
<1> HIDE DEF a, b
<1>3. ASSUME Precedes(a, b) PROVE Before(i, j, m)
<2>1. PICK d1 \in 1 .. Len(b) : /\ d1 > Len(a) \/ a[d1] < b[d1]
                                /\ \A e \in 1 .. d1 - 1 : e <= Len(a) /\ a[e] = b[e]
  BY <1>3 DEF Precedes
<2>2. PICK d \in Nat : d1 = d + 1
  BY <1>1
<2>3. d < Len(b) /\ d < m /\ j + d < N /\ b[d1] = At(j + d) /\ At(j + d) \in Nat
<3>1. d < Len(b)
  BY <1>1, <2>2
<3>2. d < m /\ j + d < N
  BY <1>1, <3>1
<3>3. b[d1] = At(j + d)
  BY <1>1, <2>2, <3>2
<3>4. j + d \in Nat
  BY <1>1
<3> QED
  BY <1>2, <3>1, <3>2, <3>3, <3>4
<2>4. At(i + d) < At(j + d)
<3>1. CASE d1 > Len(a)
<4>1. i + d >= N /\ i + d \in Nat
  BY <1>1, <2>2, <2>3, <3>1
<4>2. At(i + d) = -1
  BY <1>2, <4>1
<4> QED
  BY <2>3, <4>2
<3>2. CASE d1 <= Len(a)
<4>1. i + d < N /\ a[d1] = At(i + d)
<5>1. d < Len(a)
  BY <1>1, <2>2, <3>2
<5>2. d < m /\ i + d < N
  BY <1>1, <5>1
<5> QED
  BY <1>1, <2>2, <5>2
<4> QED
  BY <1>1, <2>1, <2>3, <3>2, <4>1
<3> QED
  BY <1>1, <3>1, <3>2
<2>5. ASSUME NEW e \in 0 .. d - 1 PROVE At(i + e) = At(j + e)
<3>1. e \in Nat /\ e + 1 \in 1 .. d1 - 1 /\ e < m /\ e < Len(b)
  BY <1>1, <2>2, <2>3
<3>2. e + 1 <= Len(a) /\ a[e + 1] = b[e + 1]
  BY <2>1, <3>1
<3>3. e < Len(a)
  BY <1>1, <3>1, <3>2
<3>4. a[e + 1] = At(i + e) /\ b[e + 1] = At(j + e)
  BY <1>1, <3>1, <3>3
<3> QED
  BY <3>2, <3>4
<2>6. d \in 0 .. m - 1
  BY <2>3
<2> QED
  BY <2>4, <2>5, <2>6 DEF Before
<1>4. ASSUME Before(i, j, m) PROVE Precedes(a, b)
<2>1. PICK d \in 0 .. m - 1 : At(i + d) < At(j + d) /\ \A e \in 0 .. d - 1 : At(i + e) = At(j + e)
  BY <1>4 DEF Before
<2>2. d \in Nat /\ d < m /\ i + d \in Nat /\ j + d \in Nat
  BY <1>1
<2>3. j + d < N
  BY <1>1, <1>2, <2>1, <2>2
<2>4. d + 1 \in 1 .. Len(b) /\ b[d + 1] = At(j + d)
  BY <1>1, <2>2, <2>3
<2>5. d + 1 > Len(a) \/ a[d + 1] < b[d + 1]
<3>1. CASE i + d < N
  BY <1>1, <2>1, <2>2, <2>4, <3>1
<3>2. CASE i + d >= N
<4>1. ~(d < Len(a))
  BY <1>1, <2>2, <3>2
<4> QED
  BY <1>1, <2>2, <4>1
<3> QED
  BY <1>1, <2>2, <3>1, <3>2
<2>6. ASSUME NEW e \in 1 .. (d + 1) - 1 PROVE e <= Len(a) /\ a[e] = b[e]
<3>1. PICK f \in Nat : e = f + 1
  OBVIOUS
<3>2. f \in 0 .. d - 1 /\ f < m /\ i + f \in Nat /\ j + f \in Nat /\ j + f < N
  BY <1>1, <2>2, <2>3, <3>1
<3>3. At(i + f) = At(j + f)
  BY <2>1, <3>2
<3>4. i + f < N
  BY <1>1, <1>2, <3>2, <3>3
<3> QED
  BY <1>1, <3>1, <3>2, <3>3, <3>4
<2> QED
  BY <2>4, <2>5, <2>6 DEF Precedes
<1> QED
  BY <1>3, <1>4 DEF a, b

-----------------------------------------------------------------------------
(* A round of prefix doubling: keys order positions by their first 2k symbols. *)

\* The ranks are numbers that fit, as symbols do before the first round.
RanksTyped(n) ==
  /\ StreamTyped(n) /\ builder \in {"host", "gpu"} /\ k \in Nat \ {0}
  /\ KeySpan \in Nat /\ n + 1 < KeySpan
  /\ rank \in [Positions -> Nat] /\ \A x \in Positions : rank[x] + 1 < KeySpan

\* The ranks order the suffixes by their first m symbols.
Ordered(m) == \A i, j \in Positions : rank[i] < rank[j] <=> Before(i, j, m)

RankAt(x) == IF x < N THEN rank[x] ELSE -1
Less(i, j) == rank[i] < rank[j] \/ (rank[i] = rank[j] /\ RankAt(i + k) < RankAt(j + k))

LEMMA RankTypes ==
  ASSUME NEW n, RanksTyped(n), NEW i \in Positions
  PROVE  /\ rank[i] \in Nat /\ rank[i] + 1 < KeySpan
         /\ RankAt(i + k) \in Int /\ RankAt(i + k) + 1 \in Nat /\ RankAt(i + k) + 1 < KeySpan
<1>1. KeySpan \in Nat /\ k \in Nat /\ n \in Nat /\ n + 1 < KeySpan /\ StreamTyped(n)
  BY DEF RanksTyped, StreamTyped
<1>2. \A x \in Positions : rank[x] \in Nat /\ rank[x] + 1 < KeySpan
  BY DEF RanksTyped
<1>3. i \in Nat /\ N = n + 1 /\ Positions = 0 .. n
  BY <1>1, StreamFacts, PositionFacts
<1>4. CASE i + k < N
<2>1. i + k \in Positions /\ RankAt(i + k) = rank[i + k]
  BY <1>1, <1>3, <1>4 DEF RankAt
<2> QED
  BY <1>1, <1>2, <2>1
<1>5. CASE ~(i + k < N)
  BY <1>1, <1>2, <1>5 DEF RankAt
<1> QED
  BY <1>4, <1>5

\* The second half of a GPU key decides only between equal first halves.
LEMMA HalvesOrder ==
  ASSUME NEW span \in Nat, NEW a \in Nat, NEW b \in Nat, NEW x \in Nat, NEW y \in Nat, x < span, y < span
  PROVE  /\ a * span + x < b * span + y <=> a < b \/ (a = b /\ x < y)
         /\ a * span + x \in Int /\ b * span + y \in Int
<1>1. \A c, d \in Nat : c < d => c * span + span <= d * span
  <2> SUFFICES ASSUME NEW c \in Nat, NEW d \in Nat, c < d PROVE c * span + span <= d * span
    OBVIOUS
  <2>1. PICK e \in Nat : d = c + 1 + e
    <3>1. d - c - 1 \in Nat /\ d = c + 1 + (d - c - 1)
      OBVIOUS
    <3> QED
      BY <3>1
  <2>2. d * span = c * span + span + e * span /\ e * span \in Nat
    BY <2>1
  <2> QED
    BY <2>2
<1>2. a * span \in Nat /\ b * span \in Nat
  OBVIOUS
<1>3. a < b => a * span + span <= b * span
  BY <1>1
<1>4. b < a => b * span + span <= a * span
  BY <1>1
<1>5. a = b => a * span = b * span
  OBVIOUS
<1>6. PICK u \in Nat, v \in Nat : u = a * span /\ v = b * span
  BY <1>2
<1>7. /\ a < b => u + span <= v
      /\ b < a => v + span <= u
      /\ a = b => u = v
  BY <1>3, <1>4, <1>5, <1>6
<1>8. u + x < v + y <=> a < b \/ (a = b /\ x < y)
  BY <1>7
<1> QED
  BY <1>6, <1>8

LEMMA KeyIs ==
  ASSUME NEW n, RanksTyped(n), NEW i \in Positions, NEW j \in Positions
  PROVE  /\ KeyLess(Key(i), Key(j)) <=> Less(i, j)
         /\ rank[i] = rank[j] /\ RankAt(i + k) = RankAt(j + k) => Key(i) = Key(j)
<1>1. /\ rank[i] \in Nat /\ rank[j] \in Nat /\ RankAt(i + k) \in Int /\ RankAt(j + k) \in Int
      /\ RankAt(i + k) + 1 \in Nat /\ RankAt(i + k) + 1 < KeySpan
      /\ RankAt(j + k) + 1 \in Nat /\ RankAt(j + k) + 1 < KeySpan
      /\ KeySpan \in Nat
  BY RankTypes DEF RanksTyped
<1>2. CASE builder = "host"
<2>1. Key(i) = <<rank[i], RankAt(i + k)>> /\ Key(j) = <<rank[j], RankAt(j + k)>>
  BY <1>2 DEF Key, RankAt
<2> DEFINE a == <<rank[i], RankAt(i + k)>>
           b == <<rank[j], RankAt(j + k)>>
<2>2. DOMAIN a = {1, 2} /\ a[1] = rank[i] /\ a[2] = RankAt(i + k) /\ b[1] = rank[j] /\ b[2] = RankAt(j + k)
  OBVIOUS
<2> HIDE DEF a, b
<2>3. 1 .. 1 - 1 = {} /\ 1 .. 2 - 1 = {1}
  OBVIOUS
<2>4. KeyLess(a, b) <=> \/ a[1] < b[1] /\ \A e \in 1 .. 1 - 1 : a[e] = b[e]
                        \/ a[2] < b[2] /\ \A e \in 1 .. 2 - 1 : a[e] = b[e]
  BY Zenon, <2>2 DEF KeyLess
<2>5. KeyLess(a, b) <=> Less(i, j)
  BY <2>2, <2>3, <2>4 DEF Less
<2> QED
  BY <2>1, <2>5 DEF a, b
<1>3. CASE builder = "gpu"
<2> DEFINE u == rank[i] * KeySpan + (RankAt(i + k) + 1)
           v == rank[j] * KeySpan + (RankAt(j + k) + 1)
<2>1. Key(i) = <<u>> /\ Key(j) = <<v>>
<3>1. \A x : (IF x < N THEN rank[x] + 1 ELSE 0) = (IF x < N THEN rank[x] ELSE -1) + 1
  OBVIOUS
<3>2. Key(i) = <<rank[i] * KeySpan + (IF i + k < N THEN rank[i + k] + 1 ELSE 0)>>
  BY Zenon, <1>3 DEF Key
<3>3. Key(j) = <<rank[j] * KeySpan + (IF j + k < N THEN rank[j + k] + 1 ELSE 0)>>
  BY Zenon, <1>3 DEF Key
<3> QED
  BY Zenon, <3>1, <3>2, <3>3 DEF RankAt
<2>2. u < v <=> Less(i, j)
<3>1. u < v <=> rank[i] < rank[j] \/ (rank[i] = rank[j] /\ RankAt(i + k) + 1 < RankAt(j + k) + 1)
<4>1. PICK a \in Nat, b \in Nat, x \in Nat, y \in Nat, span \in Nat :
        /\ a = rank[i] /\ b = rank[j] /\ x = RankAt(i + k) + 1 /\ y = RankAt(j + k) + 1 /\ span = KeySpan
        /\ x < span /\ y < span
  BY <1>1
<4>2. a * span + x < b * span + y <=> a < b \/ (a = b /\ x < y)
  BY <4>1, HalvesOrder
<4> QED
  BY Zenon, <4>1, <4>2
<3>2. RankAt(i + k) + 1 < RankAt(j + k) + 1 <=> RankAt(i + k) < RankAt(j + k)
  BY <1>1
<3> QED
  BY Zenon, <3>1, <3>2 DEF Less
<2>3. rank[i] = rank[j] /\ RankAt(i + k) = RankAt(j + k) => u = v
  OBVIOUS
<2> HIDE DEF u, v
<2>4. DOMAIN <<u>> = {1} /\ <<u>>[1] = u /\ <<v>>[1] = v /\ 1 .. 1 - 1 = {}
  OBVIOUS
<2>5. KeyLess(<<u>>, <<v>>) <=> u < v
<3>1. KeyLess(<<u>>, <<v>>) <=> <<u>>[1] < <<v>>[1] /\ \A e \in 1 .. 1 - 1 : <<u>>[e] = <<v>>[e]
  BY Zenon, <2>4 DEF KeyLess
<3> QED
  BY <2>4, <3>1
<2> QED
  BY <2>1, <2>2, <2>3, <2>5
<1> QED
  BY <1>2, <1>3 DEF RanksTyped

\* Ranks of the first k symbols, taken at a position and k further on, order the
\* first 2k: what ends inside them comes before what goes on.
LEMMA LessOrders ==
  ASSUME NEW n, RanksTyped(n), Ordered(k), NEW i \in Positions, NEW j \in Positions
  PROVE  Less(i, j) <=> Before(i, j, 2 * k)
<1>1. StreamTyped(n) /\ k \in Nat /\ k # 0
  BY DEF RanksTyped
<1>2. i \in Nat /\ j \in Nat /\ N \in Nat /\ n \in Nat /\ Positions = 0 .. n /\ N = n + 1
  BY <1>1, PositionFacts, StreamFacts DEF StreamTyped
<1>3. rank[i] \in Nat /\ rank[j] \in Nat
  BY DEF RanksTyped
<1>4. rank[i] < rank[j] <=> Before(i, j, k)
  BY DEF Ordered
<1>5. rank[i] = rank[j] <=> Same(i, j, k)
<2>1. rank[j] < rank[i] <=> Before(j, i, k)
  BY DEF Ordered
<2>2. /\ Before(i, j, k) \/ Before(j, i, k) \/ Same(i, j, k)
      /\ ~(Before(i, j, k) /\ Same(i, j, k)) /\ ~(Before(j, i, k) /\ Same(j, i, k))
  BY <1>1, <1>2, Trichotomy
<2>3. Same(i, j, k) => Same(j, i, k)
  BY DEF Same
<2> QED
  BY <1>3, <1>4, <2>1, <2>2, <2>3
<1>6. RankAt(i + k) < RankAt(j + k) <=> Before(i + k, j + k, k)
<2>1. \A x \in Nat : At(x) \in Int /\ At(x) >= -1 /\ (x < N => At(x) \in Nat) /\ (x >= N => At(x) = -1)
  BY <1>1, StreamFacts
<2>2. i + k \in Nat /\ j + k \in Nat
  BY <1>1, <1>2
<2>3. CASE i + k < N /\ j + k < N
<3>1. i + k \in Positions /\ j + k \in Positions
  BY <1>2, <2>2, <2>3
<3> QED
  BY <2>3, <3>1 DEF Ordered, RankAt
<2>4. CASE ~(i + k < N) /\ j + k < N
<3>1. RankAt(i + k) = -1 /\ RankAt(j + k) \in Nat
<4>1. j + k \in Positions
  BY <1>2, <2>2, <2>4
<4> QED
  BY <2>4, <4>1 DEF RankAt, RanksTyped
<3>2. At((i + k) + 0) < At((j + k) + 0)
  BY <1>2, <2>1, <2>2, <2>4
<3>3. 0 \in 0 .. k - 1 /\ 0 .. 0 - 1 = {}
  BY <1>1
<3>4. Before(i + k, j + k, k)
  BY <3>2, <3>3 DEF Before
<3> QED
  BY <3>1, <3>4
<2>5. CASE ~(j + k < N)
<3>1. ~(RankAt(i + k) < RankAt(j + k))
  BY <2>5, RankTypes DEF RankAt
<3>2. ASSUME Before(i + k, j + k, k) PROVE FALSE
<4>1. PICK d \in 0 .. k - 1 : At((i + k) + d) < At((j + k) + d)
  BY <3>2 DEF Before
<4>2. d \in Nat /\ (i + k) + d \in Nat /\ (j + k) + d \in Nat /\ (j + k) + d >= N
  BY <1>2, <2>2, <2>5
<4>3. At((j + k) + d) = -1 /\ At((i + k) + d) >= -1 /\ At((i + k) + d) \in Int
  BY <2>1, <4>2
<4> QED
  BY <4>1, <4>3
<3> QED
  BY <3>1, <3>2
<2> QED
  BY <2>3, <2>4, <2>5
<1> QED
  BY <1>1, <1>2, <1>4, <1>5, <1>6, BeforeSplit DEF Less

LEMMA LessChain ==
  ASSUME NEW n, RanksTyped(n), NEW a \in Positions, NEW b \in Positions, NEW c \in Positions
  PROVE  /\ ~Less(a, a)
         /\ Less(a, b) /\ Less(b, c) => Less(a, c)
         /\ Less(a, b) \/ Less(b, a) \/ (rank[a] = rank[b] /\ RankAt(a + k) = RankAt(b + k))
<1>1. /\ rank[a] \in Nat /\ rank[b] \in Nat /\ rank[c] \in Nat
      /\ RankAt(a + k) \in Int /\ RankAt(b + k) \in Int /\ RankAt(c + k) \in Int
  BY RankTypes
<1> QED
  BY <1>1 DEF Less

\* The keys before the one of a position: their number is its rank.
KeysBefore(i) == {Key(j) : j \in {x \in Positions : Less(x, i)}}

LEMMA KeysCounted ==
  ASSUME NEW n, RanksTyped(n), NEW i \in Positions
  PROVE  IsFiniteSet(KeysBefore(i)) /\ Cardinality(KeysBefore(i)) \in Nat /\ Cardinality(KeysBefore(i)) < N
<1> DEFINE others == Positions \ {i}
           below  == {x \in Positions : Less(x, i)}
           f      == [x \in below |-> Key(x)]
<1>1. StreamTyped(n)
  BY DEF RanksTyped
<1>2. IsFiniteSet(Positions) /\ Cardinality(Positions) = N /\ N \in Nat
  BY <1>1, StreamFacts
<1>3. IsFiniteSet(others) /\ Cardinality(others) = N - 1
  BY <1>2, FS_RemoveElement
<1>4. below \subseteq others
  BY LessChain
<1>5. IsFiniteSet(below) /\ Cardinality(below) <= N - 1 /\ Cardinality(below) \in Nat
  BY <1>3, <1>4, FS_Subset, FS_CardinalityType
<1>6. f \in Surjection(below, KeysBefore(i))
  BY DEF Surjection, KeysBefore
<1>7. IsFiniteSet(KeysBefore(i)) /\ Cardinality(KeysBefore(i)) <= Cardinality(below)
<2> HIDE DEF below, f
<2> QED
  BY <1>5, <1>6, FS_Surjection
<1>8. Cardinality(KeysBefore(i)) \in Nat
  BY <1>7, FS_CardinalityType
<1> QED
  BY <1>2, <1>5, <1>7, <1>8

\* Counting keys turns their order into one of ranks.
LEMMA RerankedIs ==
  ASSUME NEW n, RanksTyped(n)
  PROVE  /\ Reranked \in [Positions -> Nat]
         /\ \A i \in Positions : Reranked[i] < N
         /\ \A i, j \in Positions : Reranked[i] < Reranked[j] <=> Less(i, j)
<1>1. Reranked = [i \in Positions |-> Cardinality(KeysBefore(i))]
<2> DEFINE keys == [i \in Positions |-> Key(i)]
<2>1. ASSUME NEW i \in Positions
      PROVE  {keys[j] : j \in {x \in Positions : KeyLess(keys[x], keys[i])}} = KeysBefore(i)
  <3>1. \A x \in Positions : KeyLess(keys[x], keys[i]) <=> Less(x, i)
    BY KeyIs
  <3>2. {x \in Positions : KeyLess(keys[x], keys[i])} = {x \in Positions : Less(x, i)}
    BY <3>1
  <3>3. {keys[j] : j \in {x \in Positions : Less(x, i)}} = KeysBefore(i)
    BY DEF KeysBefore
  <3> QED
    BY Zenon, <3>2, <3>3
<2>2. Reranked = [i \in Positions |-> Cardinality({keys[j] : j \in {x \in Positions : KeyLess(keys[x], keys[i])}})]
  BY DEF Reranked
<2> HIDE DEF keys
<2> QED
  BY <2>1, <2>2
<1>2. \A i \in Positions : /\ Reranked[i] = Cardinality(KeysBefore(i)) /\ IsFiniteSet(KeysBefore(i))
                           /\ Cardinality(KeysBefore(i)) \in Nat /\ Cardinality(KeysBefore(i)) < N
  BY <1>1, KeysCounted
<1>3. ASSUME NEW i \in Positions, NEW j \in Positions, Less(i, j) PROVE Reranked[i] < Reranked[j]
<2>1. KeysBefore(i) \subseteq KeysBefore(j)
  BY <1>3, LessChain DEF KeysBefore
<2>2. Key(i) \in KeysBefore(j)
  BY <1>3 DEF KeysBefore
<2>3. Key(i) \notin KeysBefore(i)
<3> SUFFICES ASSUME NEW x \in Positions, Less(x, i), Key(x) = Key(i) PROVE FALSE
  BY DEF KeysBefore
<3>1. KeyLess(Key(x), Key(i)) /\ ~KeyLess(Key(i), Key(i))
  BY KeyIs, LessChain
<3> QED
  BY <3>1
<2>4. Cardinality(KeysBefore(i)) <= Cardinality(KeysBefore(j)) /\ Cardinality(KeysBefore(i)) # Cardinality(KeysBefore(j))
  BY <1>2, <2>1, <2>2, <2>3, FS_Subset
<2> QED
  BY <1>2, <2>4
<1>4. ASSUME NEW i \in Positions, NEW j \in Positions, ~Less(i, j) PROVE ~(Reranked[i] < Reranked[j])
<2>1. CASE Less(j, i)
  BY <1>2, <1>3, <2>1
<2>2. CASE rank[i] = rank[j] /\ RankAt(i + k) = RankAt(j + k)
<3>1. \A x \in Positions : Less(x, i) <=> Less(x, j)
  BY <2>2 DEF Less
<3>2. KeysBefore(i) = KeysBefore(j)
  BY <3>1 DEF KeysBefore
<3> QED
  BY <1>2, <3>2
<2> QED
  BY <1>4, <2>1, <2>2, LessChain
<1>5. Reranked \in [Positions -> Nat]
  BY <1>1, <1>2
<1> QED
  BY <1>2, <1>3, <1>4, <1>5

-----------------------------------------------------------------------------

\* Until the suffix array is read off the ranks.
Sorting == \E n \in Nat : RanksTyped(n) /\ Ordered(k)
SortInv == phase \in {"sort", "build"} => Sorting

\* Any text that a sort key has room for, not just those the runs index.
AnyText ==
  /\ \E n \in Nat : n + 1 < KeySpan /\ s \in [0 .. n -> 0 .. Vocab]
  /\ builder \in {"host", "gpu"} /\ phase = "sort" /\ k = 1 /\ rank = s
  /\ index = <<>> /\ job = NoJob

LEMMA StreamsAreTexts == TextInit => AnyText
<1> SUFFICES ASSUME TextInit PROVE AnyText
  OBVIOUS
<1>1. PICK n \in TextLengths : s \in Streams(n)
  BY DEF TextInit
<1>2. n \in Nat /\ n + 1 < KeySpan /\ KeySpan \in Nat /\ Vocab \in Nat /\ Vocab + 1 < KeySpan
  BY KeysFit
<1>3. PICK u \in UNION {[1 .. m -> 0 .. Vocab - 1] : m \in 1 .. 2},
           v \in UNION {[1 .. m -> 0 .. Vocab - 1] : m \in 1 .. 2} :
        s = [i \in 0 .. n |-> IF i = n THEN 0 ELSE 1 + (IF i < n \div 2 THEN u[1 + (i % Len(u))] ELSE v[1 + (i % Len(v))])]
  BY <1>1 DEF Streams
<1>4. ASSUME NEW w \in UNION {[1 .. m -> 0 .. Vocab - 1] : m \in 1 .. 2}, NEW i \in Nat
      PROVE  w[1 + (i % Len(w))] \in 0 .. Vocab - 1
<2>1. PICK m \in 1 .. 2 : w \in [1 .. m -> 0 .. Vocab - 1]
  OBVIOUS
<2>2. Len(w) = m
  BY <2>1
<2>3. 1 + (i % m) \in 1 .. m
  BY <2>1
<2> QED
  BY <2>1, <2>2, <2>3
<1>5. DOMAIN s = 0 .. n /\ s = [i \in 0 .. n |-> s[i]] /\ \A i \in 0 .. n : s[i] \in 0 .. Vocab
<2>1. ASSUME NEW i \in 0 .. n PROVE s[i] \in 0 .. Vocab
<3>1. i \in Nat
  BY <1>2
<3>2. PICK x \in 0 .. Vocab - 1 : x = u[1 + (i % Len(u))]
  BY Zenon, <1>4, <3>1
<3>3. PICK y \in 0 .. Vocab - 1 : y = v[1 + (i % Len(v))]
  BY Zenon, <1>4, <3>1
<3>4. s[i] = IF i = n THEN 0 ELSE 1 + (IF i < n \div 2 THEN x ELSE y)
  BY Zenon, <1>3, <3>2, <3>3
<3> QED
  BY <1>2, <3>4
<2>2. DOMAIN s = 0 .. n /\ s = [i \in 0 .. n |-> s[i]]
  BY <1>3
<2> QED
  BY <2>1, <2>2
<1>6. s \in [0 .. n -> 0 .. Vocab]
  BY ONLY <1>5
<1> QED
  BY <1>2, <1>6 DEF TextInit, AnyText

LEMMA SortedInit == AnyText => SortInv
<1> SUFFICES ASSUME AnyText PROVE Sorting
  BY DEF SortInv
<1>1. PICK n \in Nat : n + 1 < KeySpan /\ s \in [0 .. n -> 0 .. Vocab]
  BY DEF AnyText
<1>2. n \in Nat /\ n + 1 < KeySpan /\ KeySpan \in Nat /\ Vocab \in Nat /\ Vocab + 1 < KeySpan
  BY <1>1, KeysFit
<1>3. DOMAIN s = 0 .. n /\ s = [i \in 0 .. n |-> s[i]] /\ \A i \in 0 .. n : s[i] \in 0 .. Vocab
  BY <1>1
<1>4. StreamTyped(n)
<2>1. \A i \in 0 .. n : s[i] \in Nat
  BY <1>2, <1>3
<2> QED
  BY <1>2, <1>3, <2>1 DEF StreamTyped
<1>5. Positions = 0 .. n /\ N = n + 1
  BY <1>4, StreamFacts
<1>6. k = 1 /\ rank = s /\ builder \in {"host", "gpu"}
  BY DEF AnyText
<1>7. RanksTyped(n)
  BY <1>2, <1>3, <1>4, <1>5, <1>6 DEF RanksTyped, StreamTyped
<1>8. Ordered(1)
<2> SUFFICES ASSUME NEW i \in Positions, NEW j \in Positions PROVE rank[i] < rank[j] <=> Before(i, j, 1)
  BY DEF Ordered
<2>1. At(i + 0) = s[i] /\ At(j + 0) = s[j]
  BY <1>2, <1>5 DEF At
<2>2. 0 .. 1 - 1 = {0} /\ 0 .. 0 - 1 = {}
  OBVIOUS
<2>3. Before(i, j, 1) <=> At(i + 0) < At(j + 0) /\ \A e \in 0 .. 0 - 1 : At(i + e) = At(j + e)
  BY Zenon, <2>2 DEF Before
<2> QED
  BY Zenon, <1>6, <2>1, <2>2, <2>3
<1> QED
  BY <1>2, <1>6, <1>7, <1>8 DEF Sorting

\* A round doubles the symbols the ranks tell apart.
LEMMA DoubleSorts == ASSUME Sorting, Double PROVE Sorting'
<1>1. PICK n \in Nat : RanksTyped(n) /\ Ordered(k)
  BY DEF Sorting
<1>2. rank' = Reranked /\ k' = 2 * k /\ s' = s /\ builder' = builder
  BY DEF Double
<1>3. N' = N /\ Positions' = Positions
  BY <1>2 DEF N, Positions
<1>4. StreamTyped(n) /\ N = n + 1
  BY <1>1, StreamFacts DEF RanksTyped
<1>5. RanksTyped(n)'
<2>1. \A x \in Positions : Reranked[x] \in Nat /\ Reranked[x] + 1 < KeySpan
  BY <1>1, <1>4, RerankedIs DEF RanksTyped
<2>2. StreamTyped(n)'
  BY <1>2, <1>4 DEF StreamTyped
<2>3. k' \in Nat \ {0}
  BY <1>1, <1>2 DEF RanksTyped
<2> QED
  BY <1>1, <1>2, <1>3, <2>1, <2>2, <2>3, RerankedIs DEF RanksTyped
<1>6. Ordered(k)'
<2>1. PICK m : m = 2 * k /\ k' = m
  BY <1>2
<2> SUFFICES ASSUME NEW i \in Positions, NEW j \in Positions PROVE Reranked[i] < Reranked[j] <=> Before(i, j, k)'
  BY <1>2, <1>3 DEF Ordered
<2>2. Before(i, j, k)' <=> Before(i, j, m)
  BY <1>2, <1>3, <2>1 DEF Before, At
<2>3. Reranked[i] < Reranked[j] <=> Before(i, j, 2 * k)
  BY <1>1, RerankedIs, LessOrders
<2> QED
  BY <2>1, <2>2, <2>3
<1> QED
  BY <1>5, <1>6 DEF Sorting

LEMMA SortStep == SortInv /\ [TextNext]_textVars => SortInv'
<1> SUFFICES ASSUME SortInv, [TextNext]_textVars, phase' \in {"sort", "build"} PROVE Sorting'
  BY DEF SortInv
<1>1. CASE UNCHANGED textVars
<2>1. Sorting
  BY <1>1 DEF SortInv, textVars
<2>2. PICK n \in Nat : RanksTyped(n) /\ Ordered(k)
  BY <2>1 DEF Sorting
<2>3. /\ s' = s /\ builder' = builder /\ k' = k /\ rank' = rank /\ N' = N /\ Positions' = Positions
  BY <1>1 DEF textVars, N, Positions
<2>4. RanksTyped(n)'
  BY <2>2, <2>3 DEF RanksTyped, StreamTyped
<2>5. Ordered(k)'
  BY <2>2, <2>3 DEF Ordered, Before, At
<2> QED
  BY <2>4, <2>5 DEF Sorting
<1>2. CASE TextNext
<2>1. CASE Double
  BY <2>1, DoubleSorts DEF SortInv, Double
<2>2. StartBuild \/ BuildLevel \/ Assemble => phase' \notin {"sort", "build"}
  BY DEF StartBuild, BuildLevel, Assemble
<2>3. (\E pat \in Patterns : StartSearch(pat)) => phase' \notin {"sort", "build"}
  BY DEF StartSearch
<2>4. Backward \/ (\E row \in Positions : StartWalk(row)) \/ Walk => phase' \notin {"sort", "build"}
  BY DEF Backward, StartWalk, Walk
<2> QED
  BY <1>2, <2>1, <2>2, <2>3, <2>4 DEF TextNext
<1> QED
  BY <1>1, <1>2

LEMMA SortStart == KernelsInit => SortInv
<1>1. TextIdle => SortInv
  BY DEF TextIdle, SortInv
<1> QED
  BY <1>1, StreamsAreTexts, SortedInit DEF KernelsInit

LEMMA SortOrders == SortInv => RanksOrderPrefixes
<1> SUFFICES ASSUME SortInv, phase \in {"sort", "build"} PROVE RanksOrderPrefixes
  BY DEF RanksOrderPrefixes
<1>1. PICK n \in Nat : RanksTyped(n) /\ Ordered(k)
  BY DEF SortInv, Sorting
<1>2. \A i, j \in Positions : Precedes(SuffixAt(i, k), SuffixAt(j, k)) <=> Before(i, j, k)
  BY <1>1, PrecedesIs DEF RanksTyped
<1> QED
  BY <1>1, <1>2 DEF RanksOrderPrefixes, Ordered

\* For any text over any vocabulary, a sentinel at its end or not, and either
\* builder: before the round with step k the ranks order the suffixes by exactly
\* their first k symbols, so the host's pairs and the GPU's packed keys sort alike
\* and what they stop at is the suffix array (cf_cpu_suffix_array,
\* cf_gpu_suffix_array).
THEOREM AnyTextOrdered == AnyText /\ [][TextNext]_textVars => []RanksOrderPrefixes
  BY SortedInit, SortStep, SortOrders, PTL

\* The same of the streams the runs index (cf_cpu_suffix_array, cf_gpu_suffix_array).
THEOREM PrefixesOrdered == KernelsSpec => []RanksOrderPrefixes
<1>1. KernelsNext => [TextNext]_textVars
  BY DEF KernelsNext
<1>2. UNCHANGED kernelsVars => UNCHANGED textVars
  BY DEF kernelsVars
<1> QED
  BY SortStart, SortStep, SortOrders, <1>1, <1>2, PTL DEF KernelsSpec

-----------------------------------------------------------------------------
(* Layouts of pages, for any heads, capacity and range of positions.         *)

Adds(it, ps) ==
  it = [q \in SUBSET DOMAIN ps |-> IF q = {} THEN 0 ELSE it[q \ {LastOf(q)}] + ps[LastOf(q)].count]

LEMMA SealedIs == ASSUME NEW ps PROVE Layout!SealedTokens(ps) = (CHOOSE it : Adds(it, ps))[DOMAIN ps]
  BY DEF Layout!SealedTokens, Layout!FoldLeft, Layout!MapThenFoldSet, Layout!Max, LastOf, Adds

\* The tokens sealed, page by page.
Counted(ps, n) == DOMAIN ps = 1 .. n /\ \A i \in 1 .. n : ps[i].count \in Nat
Totals(t, n, ps) ==
  /\ t \in [0 .. n -> Nat] /\ t[0] = 0 /\ Layout!SealedTokens(ps) = t[n]
  /\ \A i \in 1 .. n : t[i] = t[i - 1] + ps[i].count

LEMMA TotalsExist ==
  ASSUME NEW n \in Nat, NEW ps, Counted(ps, n)
  PROVE  \E t : Totals(t, n, ps)
<1> DEFINE step == [z \in Nat \X (1 .. n) |-> z[1] + ps[z[2]].count]
           chosen == CHOOSE it : Adds(it, ps)
<1>1. DOMAIN ps = 1 .. n /\ \A i \in 1 .. n : ps[i].count \in Nat
  BY DEF Counted
<1>2. step \in [Nat \X (1 .. n) -> Nat] /\ \A x \in Nat, i \in 1 .. n : step[<<x, i>>] = x + ps[i].count
  BY <1>1
<1>3. 1 .. n \subseteq Int /\ IsFiniteSet(1 .. n)
<2>1. 1 \in Int /\ n \in Int
  OBVIOUS
<2> QED
  BY <2>1, FS_Interval
<1> HIDE DEF step
<1>4. \E it \in [SUBSET (1 .. n) -> Nat] : Folds(it, 0, step, SUBSET (1 .. n))
  BY <1>2, <1>3, FoldExists
<1>5. PICK it \in [SUBSET (1 .. n) -> Nat] : Folds(it, 0, step, SUBSET (1 .. n))
  BY <1>4
<1>6. ASSUME NEW q \in SUBSET (1 .. n), q # {}
      PROVE  step[<<it[q \ {LastOf(q)}], LastOf(q)>>] = it[q \ {LastOf(q)}] + ps[LastOf(q)].count
<2>1. IsFiniteSet(q) /\ q \subseteq Int
  BY <1>3, FS_Subset
<2>2. LastOf(q) \in 1 .. n
  BY <1>6, <2>1, LastExists
<2> QED
  BY <1>2, <1>5, <2>2
<1>7. Adds(it, ps)
  BY <1>1, <1>5, <1>6 DEF Folds, Adds
<1>8. Adds(chosen, ps)
  BY <1>7
<1> HIDE DEF chosen
<1> DEFINE t == [i \in 0 .. n |-> chosen[1 .. i]]
<1>9. t[0] = 0
  BY <1>1, <1>8 DEF Adds
<1>10. ASSUME NEW i \in 1 .. n PROVE t[i] = t[i - 1] + ps[i].count
<2>1. LastOf(1 .. i) = i /\ (1 .. i) \ {i} = 1 .. i - 1 /\ 1 .. i # {}
  <3>1. i \in Nat \ {0}
    OBVIOUS
  <3> QED
    BY ONLY <3>1, LastOfPrefix
<2>2. 1 .. i \in SUBSET (1 .. n) /\ i - 1 \in 0 .. n
  OBVIOUS
<2>3. chosen[1 .. i] = chosen[(1 .. i) \ {i}] + ps[i].count
  BY ONLY <1>8, <2>1, <2>2, <1>1 DEF Adds
<2>4. t[i] = chosen[1 .. i] /\ t[i - 1] = chosen[1 .. i - 1]
  BY <2>2
<2> QED
  BY ONLY <2>1, <2>3, <2>4
<1>11. Layout!SealedTokens(ps) = t[n] /\ DOMAIN t = 0 .. n /\ t = [i \in 0 .. n |-> t[i]]
  BY <1>1, SealedIs DEF chosen
<1> HIDE DEF t
<1> DEFINE bad == {i \in 0 .. n : t[i] \notin Nat}
<1>12. bad = {}
<2> SUFFICES ASSUME bad # {} PROVE FALSE
  OBVIOUS
<2>1. bad \subseteq Nat
  OBVIOUS
<2>2. PICK i \in bad : \A j \in bad : i <= j
  <3> HIDE DEF bad
  <3> QED
    BY ONLY <2>1, bad # {}, LeastExists
<2>3. i \in 1 .. n /\ i - 1 \notin bad /\ i - 1 \in 0 .. n
  BY <1>9, <2>2
<2>4. t[i - 1] \in Nat /\ ps[i].count \in Nat
  BY <1>1, <2>3
<2> QED
  BY <1>10, <2>2, <2>3, <2>4
<1>13. t \in [0 .. n -> Nat]
  BY <1>11, <1>12
<1> QED
  BY <1>9, <1>10, <1>11, <1>13 DEF Totals

\* A page added adds its tokens.
LEMMA SealedAppends ==
  ASSUME NEW n \in Nat, NEW ps, Counted(ps, n), NEW qs, Counted(qs, n + 1), \A i \in 1 .. n : qs[i] = ps[i]
  PROVE  /\ Layout!SealedTokens(qs) = Layout!SealedTokens(ps) + qs[n + 1].count
         /\ Layout!SealedTokens(ps) \in Nat
<1>1. PICK t : Totals(t, n, ps)
  BY TotalsExist
<1>2. PICK u : Totals(u, n + 1, qs)
  BY TotalsExist
<1> DEFINE bad == {i \in 0 .. n : u[i] # t[i]}
<1>3. bad = {}
<2> SUFFICES ASSUME bad # {} PROVE FALSE
  OBVIOUS
<2>1. bad \subseteq Nat
  OBVIOUS
<2>2. PICK i \in bad : \A j \in bad : i <= j
  <3> HIDE DEF bad
  <3> QED
    BY ONLY <2>1, bad # {}, LeastExists
<2>3. i \in 1 .. n /\ i - 1 \in 0 .. n /\ i - 1 \notin bad
  BY <1>1, <1>2, <2>2 DEF Totals
<2>4. t[i] = t[i - 1] + ps[i].count /\ u[i] = u[i - 1] + qs[i].count /\ qs[i] = ps[i] /\ u[i - 1] = t[i - 1]
  BY <1>1, <1>2, <2>3 DEF Totals
<2> QED
  BY <2>2, <2>4
<1>4. u[n] = t[n] /\ t[n] \in Nat
  BY <1>1, <1>3 DEF Totals
<1>5. u[n + 1] = u[n] + qs[n + 1].count
<2>1. n + 1 \in 1 .. n + 1 /\ (n + 1) - 1 = n
  OBVIOUS
<2> QED
  BY <1>2, <2>1 DEF Totals
<1> QED
  BY <1>1, <1>2, <1>4, <1>5 DEF Totals

LEMMA AppendIs ==
  ASSUME NEW U, NEW n \in Nat, NEW q \in [1 .. n -> U], NEW x \in U
  PROVE  /\ Append(q, x) \in [1 .. n + 1 -> U] /\ Len(Append(q, x)) = n + 1
         /\ \A i \in 1 .. n : Append(q, x)[i] = q[i]
<1>1. q \in Seq(U) /\ Len(q) = n
  OBVIOUS
<1>2. /\ Append(q, x) \in Seq(U) /\ Len(Append(q, x)) = n + 1
      /\ \A i \in 1 .. n : Append(q, x)[i] = q[i]
  BY <1>1
<1>3. Append(q, x) \in [1 .. n + 1 -> U]
<2>1. Append(q, x) \in [1 .. Len(Append(q, x)) -> U]
  BY ONLY <1>2, LenProperties
<2> QED
  BY ONLY <1>2, <2>1
<1> QED
  BY <1>2, <1>3

\* The positions that the pages ps hold, each with its head.
Places  == (0 .. PagedHeads - 1) \X (0 .. TokenMax)
Held(ps) ==
  {h \in Places : \E i \in DOMAIN ps : ps[i].head = h[1] /\ h[2] \in ps[i].begin .. Layout!End(ps[i]) - 1}

LEMMA HeldIs == {h \in Places : h[2] \in Layout!Stored(h[1])} = Held(views)
<1>1. ASSUME NEW h \in Places
      PROVE  h[2] \in Layout!Stored(h[1])
             <=> \E i \in DOMAIN views : views[i].head = h[1] /\ h[2] \in views[i].begin .. Layout!End(views[i]) - 1
<2>1. h[2] \in 0 .. TokenMax
  BY DEF Places
<2>2. h[2] \in Layout!Stored(h[1])
      <=> \E p \in Layout!ToSet(views) : p.head = h[1] /\ h[2] \in p.begin .. Layout!End(p) - 1
  BY <2>1 DEF Layout!Stored
<2> QED
  BY ONLY <2>2 DEF Layout!ToSet
<1> QED
  BY <1>1 DEF Held

LEMMA PlacesFinite == IsFiniteSet(Places)
<1>1. 0 \in Int /\ PagedHeads - 1 \in Int /\ TokenMax \in Int
  BY LayoutConstants
<1>2. IsFiniteSet(0 .. PagedHeads - 1) /\ IsFiniteSet(0 .. TokenMax)
  BY <1>1, FS_Interval
<1> QED
  BY <1>2, FS_Product DEF Places

\* A page that fits the range of positions and a head of the model holds as many
\* positions as it has tokens.
LEMMA FreshCounted ==
  ASSUME NEW p \in Layout!Page, Layout!ValidatePage(p), p.head < PagedHeads
  PROVE  /\ {p.head} \X (p.begin .. Layout!End(p) - 1) \subseteq Places
         /\ IsFiniteSet({p.head} \X (p.begin .. Layout!End(p) - 1))
         /\ Cardinality({p.head} \X (p.begin .. Layout!End(p) - 1)) = p.count
<1>1. p.begin \in 0 .. TokenMax /\ p.count \in 0 .. Capacity + 1 /\ p.head \in 0 .. PagedHeads
  BY DEF Layout!Page
<1>2. p.begin \in Nat /\ p.count \in Nat /\ p.head \in 0 .. PagedHeads - 1
  BY <1>1, LayoutConstants
<1>3. Layout!End(p) = p.begin + p.count /\ p.count # 0 /\ p.begin <= TokenMax - p.count
  BY DEF Layout!End, Layout!ValidatePage
<1>4. p.begin .. Layout!End(p) - 1 \subseteq 0 .. TokenMax
  BY <1>2, <1>3, LayoutConstants
<1>5. p.begin \in Int /\ Layout!End(p) - 1 \in Int
  BY <1>2, <1>3
<1>6. /\ IsFiniteSet(p.begin .. Layout!End(p) - 1)
      /\ Cardinality(p.begin .. Layout!End(p) - 1)
         = IF p.begin > Layout!End(p) - 1 THEN 0 ELSE Layout!End(p) - 1 - p.begin + 1
  BY <1>5, FS_Interval
<1>7. Cardinality(p.begin .. Layout!End(p) - 1) = p.count
  BY <1>2, <1>3, <1>6
<1>8. IsFiniteSet({p.head}) /\ Cardinality({p.head}) = 1
  BY FS_Singleton
<1>9. /\ IsFiniteSet({p.head} \X (p.begin .. Layout!End(p) - 1))
      /\ Cardinality({p.head} \X (p.begin .. Layout!End(p) - 1)) = 1 * p.count
<2> DEFINE here  == {p.head}
           range == p.begin .. Layout!End(p) - 1
<2>1. IsFiniteSet(here) /\ IsFiniteSet(range) /\ Cardinality(here) = 1 /\ Cardinality(range) = p.count
  BY <1>6, <1>7, <1>8
<2> HIDE DEF here, range
<2>2. IsFiniteSet(here \X range) /\ Cardinality(here \X range) = Cardinality(here) * Cardinality(range)
  BY ONLY <2>1, FS_Product
<2>3. IsFiniteSet(here \X range) /\ Cardinality(here \X range) = 1 * p.count
  BY ONLY <2>1, <2>2
<2> QED
  BY <2>3 DEF here, range
<1> QED
  BY <1>2, <1>4, <1>9 DEF Places

\* What a page adds to the positions held, when no page overlaps it.
LEMMA HeldGrows ==
  ASSUME NEW n \in Nat, NEW ps, DOMAIN ps = 1 .. n, NEW qs, DOMAIN qs = 1 .. n + 1, Len(qs) = n + 1,
         \A i \in 1 .. n : qs[i] = ps[i], \A i \in 1 .. n + 1 : qs[i] \in Layout!Page,
         NEW tail, Layout!ValidateLayout(qs, tail)
  PROVE  Cardinality(Held(qs)) = Cardinality(Held(ps)) + qs[n + 1].count
<1> DEFINE p == qs[n + 1]
           fresh == {p.head} \X (p.begin .. Layout!End(p) - 1)
<1>1. n + 1 \in 1 .. n + 1 /\ p \in Layout!Page
  OBVIOUS
<1>2. Layout!ValidatePage(p) /\ p.head < PagedHeads
  BY <1>1 DEF Layout!ValidateLayout
<1>3. fresh \subseteq Places /\ IsFiniteSet(fresh) /\ Cardinality(fresh) = p.count
  BY <1>1, <1>2, FreshCounted
<1>4. ASSUME NEW i \in 1 .. n PROVE ~ Layout!Overlap(qs[i], p)
<2>1. i \in DOMAIN qs /\ n + 1 \in i + 1 .. Len(qs)
  OBVIOUS
<2> QED
  BY <2>1 DEF Layout!ValidateLayout
<1>5. Held(qs) = Held(ps) \cup fresh
<2>1. ASSUME NEW h \in Places
      PROVE  (\E i \in 1 .. n + 1 : qs[i].head = h[1] /\ h[2] \in qs[i].begin .. Layout!End(qs[i]) - 1)
             <=> \/ \E i \in 1 .. n : ps[i].head = h[1] /\ h[2] \in ps[i].begin .. Layout!End(ps[i]) - 1
                 \/ p.head = h[1] /\ h[2] \in p.begin .. Layout!End(p) - 1
  <3>1. 1 .. n + 1 = (1 .. n) \cup {n + 1}
    OBVIOUS
  <3> QED
    BY ONLY <3>1, \A i \in 1 .. n : qs[i] = ps[i]
<2>2. ASSUME NEW h \in Places
      PROVE  h \in fresh <=> p.head = h[1] /\ h[2] \in p.begin .. Layout!End(p) - 1
  BY DEF Places
<2> HIDE DEF fresh, p
<2> QED
  BY <1>3, <2>1, <2>2 DEF Held
<1>6. Held(ps) \cap fresh = {}
<2> SUFFICES ASSUME NEW h \in Held(ps), h \in fresh PROVE FALSE
  OBVIOUS
<2>1. PICK i \in 1 .. n : ps[i].head = h[1] /\ h[2] \in ps[i].begin .. Layout!End(ps[i]) - 1
  BY DEF Held
<2>2. h[1] = p.head /\ h[2] \in p.begin .. Layout!End(p) - 1
  OBVIOUS
<2>3. qs[i] = ps[i] /\ qs[i] \in Layout!Page /\ i \in 1 .. n + 1
  OBVIOUS
<2>4. p.head = qs[i].head /\ h[2] \in qs[i].begin .. Layout!End(qs[i]) - 1
  BY <2>1, <2>2, <2>3
<2>5. /\ qs[i].begin \in Nat /\ qs[i].count \in Nat /\ p.begin \in Nat /\ p.count \in Nat
      /\ Layout!End(p) = p.begin + p.count /\ Layout!End(qs[i]) = qs[i].begin + qs[i].count
  BY <1>1, <2>3, LayoutConstants DEF Layout!Page, Layout!End
<2>6. qs[i].begin < Layout!End(p) /\ p.begin < Layout!End(qs[i])
<3> DEFINE a == qs[i].begin
           b == Layout!End(qs[i])
           c == p.begin
           d == Layout!End(p)
           x == h[2]
<3>1. a \in Nat /\ b \in Nat /\ c \in Nat /\ d \in Nat /\ x \in a .. b - 1 /\ x \in c .. d - 1
  <4>1. a \in Nat /\ b \in Nat /\ c \in Nat /\ d \in Nat
    BY ONLY <2>5
  <4>2. x \in a .. b - 1 /\ x \in c .. d - 1
    BY ONLY <2>2, <2>4, ZenonT(20)
  <4> QED
    BY ONLY <4>1, <4>2
<3> HIDE DEF a, b, c, d, x
<3>2. a < d /\ c < b
  BY ONLY <3>1
<3> QED
  BY <3>2 DEF a, b, c, d
<2>7. Layout!Overlap(qs[i], p)
  BY <2>4, <2>6 DEF Layout!Overlap
<2> QED
  BY <1>4, <2>7
<1>7. IsFiniteSet(Held(ps))
  BY PlacesFinite, FS_Subset DEF Held
<1> HIDE DEF fresh
<1>8. Cardinality(Held(ps) \cup fresh) = Cardinality(Held(ps)) + Cardinality(fresh) - Cardinality(Held(ps) \cap fresh)
  BY <1>3, <1>7, FS_Union
<1>9. Cardinality(Held(ps)) \in Nat /\ Cardinality({}) = 0 /\ p.count \in Nat
  BY <1>1, <1>7, FS_CardinalityType, FS_EmptySet, LayoutConstants DEF Layout!Page
<1> HIDE DEF p
<1>10. Cardinality(Held(qs)) = Cardinality(Held(ps)) + p.count
<2>1. Cardinality(fresh) = p.count /\ Cardinality(Held(ps) \cap fresh) = 0
  BY <1>3, <1>6, <1>9
<2>2. Cardinality(Held(qs)) = Cardinality(Held(ps)) + p.count - 0
  BY ONLY <1>5, <1>8, <2>1
<2> QED
  BY ONLY <1>9, <2>2
<1> QED
  BY <1>10 DEF p

\* A tail that begins after every page, with positions that do not wrap, shares
\* none with them.
LEMMA TailApart ==
  ASSUME NEW n \in Nat, views \in [1 .. n -> Layout!Page], viewTail \in [begin : 0 .. TokenMax, count : 0 .. Capacity],
         Layout!ValidateLayout(views, viewTail), NEW head
  PROVE  Layout!Stored(head) \cap Layout!InTail = {}
<1> SUFFICES ASSUME NEW r \in Layout!Stored(head), r \in Layout!InTail PROVE FALSE
  OBVIOUS
<1>1. PICK i \in 1 .. n : r \in views[i].begin .. Layout!End(views[i]) - 1
  BY DEF Layout!Stored, Layout!ToSet
<1>2. /\ views[i].count # 0 /\ views[i].begin <= TokenMax - views[i].count
      /\ (Layout!End(views[i])) % (TokenMax + 1) <= viewTail.begin
  BY <1>1 DEF Layout!ValidateLayout, Layout!ValidatePage, Layout!U32
<1>3. PICK a \in Nat, b \in Nat, c \in Nat, d \in Nat :
        a = views[i].begin /\ b = views[i].count /\ c = viewTail.begin /\ d = viewTail.count
<2>1. views[i] \in Layout!Page
  OBVIOUS
<2>2. views[i].begin \in Nat /\ views[i].count \in Nat /\ viewTail.begin \in Nat /\ viewTail.count \in Nat
  BY <2>1, LayoutConstants DEF Layout!Page
<2> QED
  BY ONLY <2>2
<1>4. Layout!End(views[i]) = a + b
  BY <1>3 DEF Layout!End
<1>5. a + b <= TokenMax /\ (a + b) % (TokenMax + 1) <= c
  BY <1>2, <1>3, <1>4, LayoutConstants
<1>6. (a + b) % (TokenMax + 1) = a + b
  BY <1>5, LayoutConstants
<1>7. r \in a .. a + b - 1 /\ r \in c .. c + d - 1
  BY ONLY <1>1, <1>3, <1>4, r \in Layout!InTail DEF Layout!InTail
<1> QED
  BY ONLY <1>3, <1>5, <1>6, <1>7

-----------------------------------------------------------------------------

\* What holds of a layout: its pages are pages, and while it validates it has
\* sealed as many tokens as it holds positions.
LayoutInv ==
  part = "layout" =>
    /\ viewTail \in [begin : 0 .. TokenMax, count : 0 .. Capacity]
    /\ \E n \in Nat : views \in [1 .. n -> Layout!Page]
    /\ Layout!ValidateLayout(views, viewTail) => Layout!SealedTokens(views) = Cardinality(Held(views))

LEMMA PagesCounted ==
  ASSUME NEW n \in Nat, NEW ps, ps \in [1 .. n -> Layout!Page]
  PROVE  Counted(ps, n)
  BY LayoutConstants DEF Counted, Layout!Page

LEMMA LayoutStart == KernelsInit => LayoutInv
<1> SUFFICES ASSUME KernelsInit, part = "layout"
             PROVE  /\ viewTail \in [begin : 0 .. TokenMax, count : 0 .. Capacity]
                    /\ \E n \in Nat : views \in [1 .. n -> Layout!Page]
                    /\ Layout!SealedTokens(views) = Cardinality(Held(views))
  BY DEF LayoutInv
<1>1. views = <<>> /\ viewTail \in [begin : 0 .. TokenMax, count : 0 .. Capacity]
  BY DEF KernelsInit, Layout!PagesInit
<1>2. views \in [1 .. 0 -> Layout!Page] /\ 0 \in Nat
  BY <1>1
<1>3. PICK t : Totals(t, 0, views)
  BY <1>2, PagesCounted, TotalsExist
<1>4. Layout!SealedTokens(views) = 0
  BY <1>3 DEF Totals
<1>5. Held(views) = {}
  BY <1>1 DEF Held
<1> QED
  BY <1>1, <1>2, <1>4, <1>5, FS_EmptySet

LEMMA LayoutStep == LayoutInv /\ [KernelsNext]_kernelsVars => LayoutInv'
<1> SUFFICES ASSUME LayoutInv, [KernelsNext]_kernelsVars, part' = "layout" PROVE LayoutInv'
  BY DEF LayoutInv
<1>1. CASE UNCHANGED <<part, views, viewTail>>
  BY <1>1 DEF LayoutInv
<1>2. CASE part = "layout" /\ Layout!PagesNext
<2>1. PICK p \in Layout!Page : Layout!AddPage(p)
  BY <1>2 DEF Layout!PagesNext
<2>2. Layout!ValidateLayout(views, viewTail) /\ views' = Append(views, p) /\ viewTail' = viewTail
  BY <2>1 DEF Layout!AddPage
<2>3. PICK n \in Nat : views \in [1 .. n -> Layout!Page]
  BY <1>2 DEF LayoutInv
<2>4. /\ views' \in [1 .. n + 1 -> Layout!Page] /\ Len(views') = n + 1
      /\ \A i \in 1 .. n : views'[i] = views[i]
<3>1. /\ Append(views, p) \in [1 .. n + 1 -> Layout!Page] /\ Len(Append(views, p)) = n + 1
      /\ \A i \in 1 .. n : Append(views, p)[i] = views[i]
  BY <2>3, AppendIs
<3> QED
  BY ONLY <2>2, <3>1
<2>5. Layout!SealedTokens(views) = Cardinality(Held(views))
  BY <1>2, <2>2 DEF LayoutInv
<2>6. ASSUME Layout!ValidateLayout(views, viewTail)'
      PROVE  Layout!SealedTokens(views') = Cardinality(Held(views'))
<3>1. Layout!ValidateLayout(views', viewTail)
  BY <2>2, <2>6
<3>2. Counted(views, n) /\ Counted(views', n + 1)
  BY <2>3, <2>4, PagesCounted
<3>3. Layout!SealedTokens(views') = Layout!SealedTokens(views) + views'[n + 1].count
  BY <2>4, <3>2, SealedAppends
<3>4. Cardinality(Held(views')) = Cardinality(Held(views)) + views'[n + 1].count
  BY <2>3, <2>4, <3>1, HeldGrows
<3> QED
  BY <2>5, <3>3, <3>4
<2>7. viewTail' \in [begin : 0 .. TokenMax, count : 0 .. Capacity]
  BY <1>2, <2>2 DEF LayoutInv
<2>8. n + 1 \in Nat
  OBVIOUS
<2> QED
  BY <2>4, <2>6, <2>7, <2>8 DEF LayoutInv
<1> QED
  BY <1>1, <1>2 DEF KernelsNext, kernelsVars, pagesVars

\* A layout that validates holds, for every head, each position at most once,
\* none of them in the tail, and the statistics count exactly those it holds,
\* for any number of heads, capacity and range of positions and however many
\* pages: the wrapping end of a page hides no overlap (cf_kv_validate_layout,
\* cf_kv_collect_stats).
THEOREM LayoutsHold == KernelsSpec => []LayoutsDisjoint
<1>1. LayoutInv => LayoutsDisjoint
<2> SUFFICES ASSUME LayoutInv, part = "layout", Layout!ValidateLayout(views, viewTail)
             PROVE  /\ Layout!SealedTokens(views)
                         = Layout!Cardinality({h \in (0 .. PagedHeads - 1) \X (0 .. TokenMax) : h[2] \in Layout!Stored(h[1])})
                    /\ \A h \in 0 .. PagedHeads - 1 : Layout!Stored(h) \cap Layout!InTail = {}
  BY DEF LayoutsDisjoint, Layout!LayoutsDisjoint
<2>1. PICK n \in Nat : views \in [1 .. n -> Layout!Page]
  BY DEF LayoutInv
<2>2. \A h \in 0 .. PagedHeads - 1 : Layout!Stored(h) \cap Layout!InTail = {}
  BY <2>1, TailApart DEF LayoutInv
<2>3. Layout!SealedTokens(views) = Cardinality({h \in (0 .. PagedHeads - 1) \X (0 .. TokenMax) : h[2] \in Layout!Stored(h[1])})
  BY HeldIs DEF LayoutInv, Places
<2> QED
  BY <2>2, <2>3 DEF Layout!Cardinality, Cardinality
<1> QED
  BY LayoutStart, LayoutStep, <1>1, PTL DEF KernelsSpec

-----------------------------------------------------------------------------
(* Adaptive pages, for any number of values, block size, unit and configs.    *)

LEMMA Times ==
  ASSUME NEW b \in Nat, NEW x \in Int, NEW y \in Int, x <= y
  PROVE  b * x \in Int /\ b * y \in Int /\ b * x <= b * y
  OBVIOUS

\* Rounding to nearest is off by half a unit at most, ties included.
LEMMA RoundedIs ==
  ASSUME NEW a \in Int, NEW b \in Nat \ {0}
  PROVE  /\ Adaptive!Rounded(a, b) \in Int
         /\ 2 * (a - b * Adaptive!Rounded(a, b)) <= b /\ -b <= 2 * (a - b * Adaptive!Rounded(a, b))
<1>1. PICK x \in Int, d \in Nat \ {0} : x = 2 * a + b /\ d = 2 * b
  OBVIOUS
<1>2. PICK up \in Int, rest \in Int : up = x \div d /\ rest = x % d
  BY <1>1
<1>3. x = d * up + rest /\ 0 <= rest /\ rest < d
  BY <1>1, <1>2
<1>4. PICK m \in Int : m = b * up
  BY <1>2
<1>5. d * up = 2 * m
  BY <1>1, <1>2, <1>4
<1>6. 2 * a + b = 2 * m + rest /\ rest < 2 * b
  BY <1>1, <1>3, <1>5
<1>7. Adaptive!Rounded(a, b) = IF rest = 0 /\ up % 2 = 1 THEN up - 1 ELSE up
  BY <1>1, <1>2 DEF Adaptive!Rounded
<1>8. CASE rest = 0 /\ Adaptive!Rounded(a, b) = up - 1
<2>1. b * (up - 1) = m - b
  BY <1>2, <1>4
<2> QED
  BY <1>2, <1>4, <1>6, <1>8, <2>1
<1>9. CASE Adaptive!Rounded(a, b) = up
  BY <1>2, <1>3, <1>4, <1>6, <1>9
<1> QED
  BY <1>7, <1>8, <1>9

\* A quotient of at most q rounds to at most q, and q itself to q.
LEMMA RoundedWithin ==
  ASSUME NEW a \in Int, NEW b \in Nat \ {0}, NEW q \in Nat, a <= b * q, -a <= b * q
  PROVE  /\ Adaptive!Rounded(a, b) \in Int /\ -q <= Adaptive!Rounded(a, b) /\ Adaptive!Rounded(a, b) <= q
         /\ a = b * q => Adaptive!Rounded(a, b) = q
         /\ -a = b * q => Adaptive!Rounded(a, b) = -q
<1>1. PICK r \in Int : r = Adaptive!Rounded(a, b)
  BY RoundedIs
<1>2. PICK m \in Int, p \in Int : m = b * r /\ p = b * q
  BY <1>1
<1>3. 2 * (a - m) <= b /\ -b <= 2 * (a - m) /\ a <= p /\ -a <= p
  BY <1>1, <1>2, RoundedIs
<1>4. (q + 1 <= r => p + b <= m) /\ (r <= q - 1 => m <= p - b)
<2>1. b * (q + 1) = p + b /\ b * (q - 1) = p - b
  BY <1>2
<2> QED
  BY <1>1, <1>2, <2>1, Times
<1>5. (r <= -q - 1 => m <= -p - b) /\ (-q + 1 <= r => -p + b <= m)
<2>1. b * (-q - 1) = -p - b /\ b * (-q + 1) = -p + b
  BY <1>2
<2> QED
  BY <1>1, <1>2, <2>1, Times
<1>6. r <= q /\ -q <= r /\ (a = p => r = q) /\ (-a = p => r = -q)
<2>1. r <= q
  BY <1>1, <1>2, <1>3, <1>4
<2>2. -q <= r
  BY <1>1, <1>2, <1>3, <1>5
<2>3. a = p => r = q
  BY <1>1, <1>2, <1>3, <1>4
<2>4. -a = p => r = -q
  BY <1>1, <1>2, <1>3, <1>5
<2> QED
  BY <2>1, <2>2, <2>3, <2>4
<1> QED
  BY <1>1, <1>2, <1>6

-----------------------------------------------------------------------------

\* The largest magnitude is one of those of the set, or 0 when it is empty.
Largest(f, D, m) ==
  /\ m \in Nat /\ \A i \in D : -m <= f[i] /\ f[i] <= m
  /\ m = 0 \/ \E i \in D : f[i] = m \/ f[i] = -m

LEMMA LargestIs ==
  ASSUME NEW f, NEW D, IsFiniteSet(D), \A i \in D : f[i] \in Int
  PROVE  Largest(f, D, Adaptive!LargestOf(f, D))
<1> DEFINE size  == [i \in D |-> Adaptive!Magnitude(f[i])]
           sizes == {size[i] : i \in D} 
           all   == {Adaptive!Magnitude(f[i]) : i \in D} \cup {0}
<1>1. \A i \in D : size[i] \in Nat /\ -size[i] <= f[i] /\ f[i] <= size[i] /\ (f[i] = size[i] \/ f[i] = -size[i])
  BY DEF Adaptive!Magnitude
<1>2. IsFiniteSet(sizes)
<2>1. size \in Surjection(D, sizes)
  BY DEF Surjection
<2> QED
  BY <2>1, FS_Surjection
<1>3. all = sizes \cup {0} /\ all \subseteq Nat
  BY <1>1
<1>4. IsFiniteSet(all)
  BY <1>2, <1>3, FS_AddElement
<1>5. Adaptive!LargestOf(f, D) = LastOf(all)
  BY DEF Adaptive!LargestOf, Adaptive!Max, LastOf
<1>6. LastOf(all) \in all /\ \A y \in all : LastOf(all) >= y
<2>1. all \subseteq Int /\ all # {}
  BY <1>3
<2> HIDE DEF all
<2> QED
  BY ONLY <1>4, <2>1, LastExists
<1>7. PICK m \in Nat : m = LastOf(all)
  BY <1>3, <1>6
<1>8. \A i \in D : size[i] <= m
  BY <1>3, <1>6, <1>7
<1>9. m = 0 \/ \E i \in D : m = size[i]
  BY <1>3, <1>6, <1>7
<1>10. Largest(f, D, m)
<2>1. ASSUME NEW i \in D PROVE -m <= f[i] /\ f[i] <= m
  <3>1. size[i] \in Nat /\ -size[i] <= f[i] /\ f[i] <= size[i] /\ size[i] <= m /\ f[i] \in Int
    BY <1>1, <1>8
  <3> HIDE DEF size
  <3> QED
    BY <1>7, <3>1
<2>2. m = 0 \/ \E i \in D : f[i] = m \/ f[i] = -m
  <3> HIDE DEF size
  <3> QED
    BY ONLY <1>1, <1>9
<2> QED
  BY ONLY <1>7, <2>1, <2>2 DEF Largest
<1> QED
  BY <1>5, <1>7, <1>10

LEMMA LargestOnly ==
  ASSUME NEW f, NEW D, \A i \in D : f[i] \in Int, NEW m, NEW n, Largest(f, D, m), Largest(f, D, n)
  PROVE  m = n
  BY DEF Largest

-----------------------------------------------------------------------------

Blocks == config.block_size \in Nat \ {0}
Lossy  == {2, 4, 8}

LEMMA QuotientGrows ==
  ASSUME NEW n \in Nat \ {0}, NEW a \in Nat, NEW b \in Nat, a <= b
  PROVE  a \div n \in Nat /\ b \div n \in Nat /\ a \div n <= b \div n
<1>1. PICK x \in Nat, y \in Nat : x = a \div n /\ y = b \div n
  OBVIOUS
<1>2. PICK r \in Nat, t \in Nat : r = a % n /\ t = b % n /\ r < n /\ t < n
  OBVIOUS
<1>3. a = n * x + r /\ b = n * y + t
<2>1. a = n * x + r
  BY <1>1, <1>2
<2>2. b = n * y + t
  BY <1>1, <1>2
<2> QED
  BY <2>1, <2>2
<1>4. PICK u \in Nat, w \in Nat : u = n * x /\ w = n * y
  BY <1>1
<1>5. y + 1 <= x => w + n <= u
<2>1. n * (y + 1) = w + n
  BY <1>1, <1>4
<2> QED
  BY <1>1, <1>4, <2>1, Times
<1>6. x <= y
  BY <1>1, <1>2, <1>3, <1>4, <1>5
<1> QED
  BY <1>1, <1>6

LEMMA IndicesFinite == IsFiniteSet(Adaptive!Indices) /\ Count \in Nat \ {0}
<1>1. Count \in Nat \ {0}
  BY AdaptiveConstants
<1>2. 0 \in Int /\ Count - 1 \in Int
  BY <1>1
<1> QED
  BY <1>1, <1>2, FS_Interval DEF Adaptive!Indices

\* The blocks part the values of a page, and each has its scale.
LEMMA BlockIs ==
  ASSUME Blocks, NEW i \in Adaptive!Indices
  PROVE  /\ Adaptive!BlockOf(i) \subseteq Adaptive!Indices /\ IsFiniteSet(Adaptive!BlockOf(i))
         /\ i \in Adaptive!BlockOf(i)
         /\ \A j \in Adaptive!BlockOf(i) : Adaptive!BlockOf(j) = Adaptive!BlockOf(i)
         /\ i \div config.block_size \in 0 .. (Count - 1) \div config.block_size
<1>1. Adaptive!BlockOf(i) \subseteq Adaptive!Indices /\ i \in Adaptive!BlockOf(i)
  BY DEF Adaptive!BlockOf
<1>2. IsFiniteSet(Adaptive!BlockOf(i))
  BY <1>1, IndicesFinite, FS_Subset
<1>3. \A j \in Adaptive!BlockOf(i) : Adaptive!BlockOf(j) = Adaptive!BlockOf(i)
  BY DEF Adaptive!BlockOf
<1>4. PICK n \in Nat \ {0} : n = config.block_size
  BY DEF Blocks
<1>5. i \in Nat /\ Count - 1 \in Nat /\ i <= Count - 1
  BY IndicesFinite DEF Adaptive!Indices
<1>6. i \div n \in Nat /\ (Count - 1) \div n \in Nat /\ i \div n <= (Count - 1) \div n
  BY <1>5, QuotientGrows
<1> QED
  BY <1>1, <1>2, <1>3, <1>4, <1>6

LEMMA QmaxIs ==
  /\ Adaptive!Qmax(2) = 1 /\ Adaptive!Qmax(4) = 7 /\ Adaptive!Qmax(8) = 127 /\ Adaptive!Qmax(16) = 1
  /\ \A c \in Adaptive!Codecs : Adaptive!Qmax(c) \in Nat \ {0}
  BY DEF Adaptive!Qmax, Adaptive!Codecs

\* What a codec of c bits holds: its clamp, a scaled value and a field of its width.
Fit(c, x) == -(2 ^ (c - 1)) <= x /\ x <= 2 ^ (c - 1) - 1

LEMMA FitIs ==
  ASSUME NEW c \in Lossy, NEW q, q = Adaptive!Qmax(c), NEW x \in -q .. q
  PROVE  Fit(c, x) /\ Adaptive!Bounded(x, -(2 ^ (c - 1)), 2 ^ (c - 1) - 1) = x
<1>1. ASSUME x \in -1 .. 1 PROVE Fit(2, x) /\ Adaptive!Bounded(x, -(2 ^ (2 - 1)), 2 ^ (2 - 1) - 1) = x
  BY <1>1 DEF Fit, Adaptive!Bounded
<1>2. ASSUME x \in -7 .. 7 PROVE Fit(4, x) /\ Adaptive!Bounded(x, -(2 ^ (4 - 1)), 2 ^ (4 - 1) - 1) = x
  BY <1>2 DEF Fit, Adaptive!Bounded
<1>3. ASSUME x \in -127 .. 127 PROVE Fit(8, x) /\ Adaptive!Bounded(x, -(2 ^ (8 - 1)), 2 ^ (8 - 1) - 1) = x
  BY <1>3 DEF Fit, Adaptive!Bounded
<1>4. \/ c = 2 /\ q = 1
      \/ c = 4 /\ q = 7
      \/ c = 8 /\ q = 127
  BY QmaxIs DEF Lossy
<1>5. CASE c = 2 /\ q = 1
<2>1. x \in -1 .. 1
  BY <1>5
<2> QED
  BY <1>1, <1>5, <2>1, Zenon
<1>6. CASE c = 4 /\ q = 7
<2>1. x \in -7 .. 7
  BY <1>6
<2> QED
  BY <1>2, <1>6, <2>1, Zenon
<1>7. CASE c = 8 /\ q = 127
<2>1. x \in -127 .. 127
  BY <1>7
<2> QED
  BY <1>3, <1>7, <2>1, Zenon
<1> QED
  BY <1>4, <1>5, <1>6, <1>7

LEMMA FitRaw == ASSUME NEW x \in Int, -32767 <= x, x <= 32767 PROVE Fit(16, x)
  BY DEF Fit

\* What is stored of a value: a multiple of the step of its block that is at most
\* half a step away, and the greatest one for the values that set the step.
LEMMA StoredIs ==
  ASSUME Blocks, NEW f, \A j \in Adaptive!Indices : f[j] \in Int, NEW i \in Adaptive!Indices, NEW c \in Lossy,
         NEW m, m = Adaptive!LargestOf(f, Adaptive!BlockOf(i)), NEW q, q = Adaptive!Qmax(c),
         NEW x, x = Adaptive!Stored(f, i, c)
  PROVE  /\ m \in Nat /\ q \in Nat \ {0} /\ x \in -q .. q /\ Fit(c, x)
         /\ 2 * (f[i] * q - m * x) <= m /\ -m <= 2 * (f[i] * q - m * x)
         /\ m # 0 => (f[i] = m => x = q) /\ (f[i] = -m => x = -q)
<1>1. q \in Nat \ {0}
  BY QmaxIs DEF Lossy, Adaptive!Codecs
<1>2. Largest(f, Adaptive!BlockOf(i), m)
<2>1. IsFiniteSet(Adaptive!BlockOf(i)) /\ \A j \in Adaptive!BlockOf(i) : f[j] \in Int
  BY BlockIs
<2> QED
  BY <2>1, LargestIs
<1>3. PICK v \in Int : v = f[i]
  OBVIOUS
<1>4. m \in Nat /\ -m <= v /\ v <= m
  BY <1>2, <1>3, BlockIs DEF Largest
<1>5. c # 16
  BY DEF Lossy
<1>6. CASE m = 0
<2>1. 0 \in -q .. q
  BY <1>1
<2>2. Fit(c, 0) /\ Adaptive!Bounded(0, -(2 ^ (c - 1)), 2 ^ (c - 1) - 1) = 0
  BY ONLY <2>1, FitIs, c \in Lossy, q = Adaptive!Qmax(c)
<2>3. x = 0
  BY <1>5, <1>6, <2>2 DEF Adaptive!Stored
<2>4. v = 0
  BY <1>4, <1>6
<2> QED
  BY <1>1, <1>3, <1>6, <2>1, <2>2, <2>3, <2>4
<1>7. CASE m # 0
<2>1. m \in Nat \ {0}
  BY <1>4, <1>7
<2>2. PICK a \in Int : a = v * q
  BY <1>1
<2>3. a <= m * q /\ -a <= m * q
<3>1. q * v <= q * m /\ q * (-m) <= q * v
  BY <1>1, <1>4, Times
<3> QED
  BY <1>1, <1>4, <2>2, <3>1
<2>4. PICK y \in Int : y = Adaptive!Rounded(a, m)
  BY <2>1, RoundedIs
<2>5. /\ y <= q /\ -q <= y /\ (a = m * q => y = q) /\ (-a = m * q => y = -q)
  BY <1>1, <2>1, <2>3, <2>4, RoundedWithin
<2>6. y \in -q .. q
  BY <1>1, <2>4, <2>5
<2>7. 2 * (a - m * y) <= m /\ -m <= 2 * (a - m * y)
  BY <2>1, <2>4, RoundedIs
<2>8. Fit(c, y) /\ Adaptive!Bounded(y, -(2 ^ (c - 1)), 2 ^ (c - 1) - 1) = y
  BY ONLY <2>6, FitIs, c \in Lossy, q = Adaptive!Qmax(c)
<2>9. x = y
<3>1. x = Adaptive!Bounded(Adaptive!Rounded(f[i] * q, m), -(2 ^ (c - 1)), 2 ^ (c - 1) - 1)
  BY <1>5, <1>7 DEF Adaptive!Stored
<3> QED
  BY ONLY <3>1, <1>3, <2>2, <2>4, <2>8
<2>10. (v = m => a = m * q) /\ (v = -m => -a = m * q)
  BY <1>1, <1>4, <2>2
<2> QED
  BY <1>1, <1>3, <1>4, <2>2, <2>5, <2>7, <2>8, <2>9, <2>10, <2>6
<1> QED
  BY <1>6, <1>7

LEMMA StoredRaw ==
  ASSUME NEW f, NEW i, f[i] \in Int, -(32767 * Unit) <= f[i], f[i] <= 32767 * Unit,
         NEW x, x = Adaptive!Stored(f, i, 16)
  PROVE  /\ x \in Int /\ -32767 <= x /\ x <= 32767 /\ Fit(16, x)
         /\ 2 * (f[i] - Unit * x) <= Unit /\ -Unit <= 2 * (f[i] - Unit * x)
<1>1. Unit \in Nat \ {0}
  BY AdaptiveConstants
<1>2. x = Adaptive!Rounded(f[i], Unit)
  BY DEF Adaptive!Stored
<1>3. 32767 \in Nat /\ f[i] <= Unit * 32767 /\ -f[i] <= Unit * 32767
  BY <1>1
<1>4. x \in Int /\ -32767 <= x /\ x <= 32767
<2>1. 2 * (f[i] - Unit * x) <= Unit /\ -Unit <= 2 * (f[i] - Unit * x) /\ x \in Int
  BY ONLY <1>1, <1>2, f[i] \in Int, RoundedIs, Zenon
<2>2. PICK v \in Int, u \in Nat \ {0}, m \in Int : v = f[i] /\ u = Unit /\ m = u * x
  BY <1>1, <2>1
<2>3. 2 * (v - m) <= u /\ -u <= 2 * (v - m) /\ v <= 32767 * u /\ -v <= 32767 * u
  BY <1>3, <2>1, <2>2
<2>4. 32768 <= x => 32768 * u <= m
  BY <2>1, <2>2, Times
<2>5. x <= -32768 => m <= -32768 * u
  BY <2>1, <2>2, Times
<2> QED
  BY <2>1, <2>3, <2>4, <2>5
<1>5. 2 * (f[i] - Unit * x) <= Unit /\ -Unit <= 2 * (f[i] - Unit * x)
  BY ONLY <1>1, <1>2, f[i] \in Int, RoundedIs, Zenon
<1> QED
  BY <1>4, <1>5, FitRaw

-----------------------------------------------------------------------------
(* What is packed into a byte, or into the two of a raw value, is taken out.  *)

LEMMA SumsOnly ==
  ASSUME NEW f, NEW D, IsFiniteSet(D), NEW it, NEW jt, Sums(it, f, SUBSET D), Sums(jt, f, SUBSET D)
  PROVE  it[D] = jt[D]
<1> DEFINE bad == {r \in SUBSET D : it[r] # jt[r]}
<1> SUFFICES ASSUME bad # {} PROVE FALSE
  OBVIOUS
<1>1. \A r \in bad : IsFiniteSet(r)
  BY FS_Subset
<1>2. PICK r \in bad : \A x \in r : r \ {x} \notin bad
<2> HIDE DEF bad
<2> QED
  BY <1>1, MinimalExists
<1>3. r \in SUBSET D /\ it[r] # jt[r]
  BY <1>2
<1>4. r # {}
  BY <1>3 DEF Sums
<1>5. Pick(r) \in r
  BY <1>4, Picked
<1>6. it[r \ {Pick(r)}] = jt[r \ {Pick(r)}]
  BY <1>2, <1>3, <1>5
<1>7. it[r] = f[Pick(r)] + it[r \ {Pick(r)}] /\ jt[r] = f[Pick(r)] + jt[r \ {Pick(r)}]
  BY <1>3, <1>4 DEF Sums
<1> QED
  BY <1>3, <1>6, <1>7

\* A sum over part of a set is one over the set, with nothing for the rest.
LEMMA SumPadded ==
  ASSUME NEW f, NEW E, IsFiniteSet(E), NEW D, D \subseteq E, \A x \in D : f[x] \in Nat,
         NEW h, \A x \in E : h[x] = IF x \in D THEN f[x] ELSE 0
  PROVE  SumFunctionOnSet(f, D) = SumFunctionOnSet(h, E)
<1>1. IsFiniteSet(D) /\ IsFiniteSet(E \ D) /\ D \cup (E \ D) = E /\ D \cap (E \ D) = {}
  BY FS_Subset
<1>2. \A x \in D \cup (E \ D) : h[x] \in Nat
  BY <1>1
<1>3. SumFunctionOnSet(f, D) = SumFunctionOnSet(h, D)
  BY <1>1, SumAgrees
<1>4. /\ SumFunctionOnSet(h, E) = SumFunctionOnSet(h, D) + SumFunctionOnSet(h, E \ D)
      /\ SumFunctionOnSet(h, D) \in Nat
<2>1. /\ SumFunctionOnSet(h, D \cup (E \ D)) = SumFunctionOnSet(h, D) + SumFunctionOnSet(h, E \ D)
      /\ SumFunctionOnSet(h, D) \in Nat
  BY ONLY <1>1, <1>2, SumJoins
<2> QED
  BY ONLY <1>1, <2>1
<1>5. SumFunctionOnSet(h, E \ D) = 0
<2>1. \A x \in E \ D : h[x] = 0
  OBVIOUS
<2>2. SumFunctionOnSet(h, E \ D) = Cardinality(E \ D) * 0 /\ Cardinality(E \ D) \in Nat
  BY ONLY <1>1, <2>1, 0 \in Nat, SumConstant
<2> QED
  BY ONLY <2>2
<1> QED
  BY ONLY <1>3, <1>4, <1>5

LEMMA SumOne ==
  ASSUME NEW h, NEW a, h[a] \in Nat
  PROVE  SumFunctionOnSet(h, {a}) = h[a]
<1>1. IsFiniteSet({a}) /\ {a} \ {a} = {} /\ a \in {a} /\ \A y \in {a} : h[y] \in Nat
  BY FS_Singleton
<1>2. SumFunctionOnSet(h, {a}) = h[a] + SumFunctionOnSet(h, {a} \ {a})
  BY ONLY <1>1, SumTakes
<1> QED
  BY <1>1, <1>2, SumOfNone

LEMMA SumTwo ==
  ASSUME NEW h, NEW a, NEW b, a # b, h[a] \in Nat, h[b] \in Nat
  PROVE  IsFiniteSet({a, b}) /\ SumFunctionOnSet(h, {a, b}) = h[a] + h[b]
<1>1. {a, b} = {a} \cup {b} /\ {a} \cap {b} = {} /\ \A x \in {a} \cup {b} : h[x] \in Nat
  OBVIOUS
<1>2. IsFiniteSet({a}) /\ IsFiniteSet({b})
  BY FS_Singleton
<1>3. SumFunctionOnSet(h, {a} \cup {b}) = SumFunctionOnSet(h, {a}) + SumFunctionOnSet(h, {b})
  BY ONLY <1>1, <1>2, SumJoins
<1>4. IsFiniteSet({a} \cup {b})
  BY <1>2, FS_Union
<1>5. SumFunctionOnSet(h, {a}) = h[a] /\ SumFunctionOnSet(h, {b}) = h[b]
  BY SumOne
<1> QED
  BY ONLY <1>1, <1>3, <1>4, <1>5

Apart(a, b, c, d) == a # b /\ a # c /\ a # d /\ b # c /\ b # d /\ c # d

LEMMA SumFour ==
  ASSUME NEW h, NEW a, NEW b, NEW c, NEW d, Apart(a, b, c, d),
         h[a] \in Nat, h[b] \in Nat, h[c] \in Nat, h[d] \in Nat
  PROVE  IsFiniteSet({a, b, c, d}) /\ SumFunctionOnSet(h, {a, b, c, d}) = h[a] + h[b] + h[c] + h[d]
<1>1. a # b /\ a # c /\ a # d /\ b # c /\ b # d /\ c # d
  BY DEF Apart
<1>2. {a, b, c, d} = {a, b} \cup {c, d} /\ {a, b} \cap {c, d} = {} /\ \A x \in {a, b} \cup {c, d} : h[x] \in Nat
  BY <1>1
<1>3. IsFiniteSet({a, b}) /\ IsFiniteSet({c, d})
  BY <1>1, SumTwo
<1>4. SumFunctionOnSet(h, {a, b} \cup {c, d}) = SumFunctionOnSet(h, {a, b}) + SumFunctionOnSet(h, {c, d})
  BY ONLY <1>2, <1>3, SumJoins
<1>5. IsFiniteSet({a, b} \cup {c, d})
  BY <1>3, FS_Union
<1>6. SumFunctionOnSet(h, {a, b}) = h[a] + h[b] /\ SumFunctionOnSet(h, {c, d}) = h[c] + h[d]
  BY <1>1, SumTwo
<1>7. SumFunctionOnSet(h, {a, b, c, d}) = (h[a] + h[b]) + (h[c] + h[d])
  BY ONLY <1>2, <1>4, <1>6
<1> QED
  BY <1>2, <1>5, <1>7

-----------------------------------------------------------------------------

PerByte(c)     == IF c = 16 THEN 1 ELSE 8 \div c
Digit(f, c, x) == Adaptive!Stored(f, x, c) % (2 ^ c)
Field(f, c)    == [x \in Adaptive!Indices |-> Digit(f, c, x) * 2 ^ ((x % PerByte(c)) * c)]
InByte(c, b)   == {x \in Adaptive!Indices : x \div PerByte(c) = b}
Bytes(c)       == 0 .. (Count + PerByte(c) - 1) \div PerByte(c) - 1

\* it is the recursion that packs a byte, over the subsets of its values.
Piles(it, f, c, D) ==
  it = [r \in SUBSET D |->
         IF r = {} THEN 0
         ELSE (Adaptive!Stored(f, Pick(r), c) % (2 ^ c)) * 2 ^ ((Pick(r) % PerByte(c)) * c) + it[r \ {Pick(r)}]]

LEMMA PayloadPiles ==
  ASSUME NEW f, NEW c, NEW b \in Bytes(c)
  PROVE  Adaptive!Pack(f, c).payload[b] = (CHOOSE it : Piles(it, f, c, InByte(c, b)))[InByte(c, b)]
  BY DEF Adaptive!Pack, Adaptive!MapThenSumSet, Adaptive!MapThenFoldSet, Piles, Pick, PerByte, InByte, Bytes

LEMMA PayloadIs ==
  ASSUME NEW f, NEW c, NEW b \in Bytes(c)
  PROVE  Adaptive!Pack(f, c).payload[b] = SumFunctionOnSet(Field(f, c), InByte(c, b))
<1> DEFINE D == InByte(c, b)
           g == Field(f, c)
           chosen == CHOOSE it : Piles(it, f, c, D)
<1>1. D \subseteq Adaptive!Indices /\ IsFiniteSet(D)
  BY IndicesFinite, FS_Subset DEF InByte
<1>2. \A x \in D : g[x] = (Adaptive!Stored(f, x, c) % (2 ^ c)) * 2 ^ ((x % PerByte(c)) * c)
  BY <1>1 DEF Field, Digit
<1>3. ASSUME NEW r \in SUBSET D, r # {}
      PROVE  g[Pick(r)] = (Adaptive!Stored(f, Pick(r), c) % (2 ^ c)) * 2 ^ ((Pick(r) % PerByte(c)) * c)
<2>1. Pick(r) \in D
  BY <1>3, Picked
<2> QED
  BY <1>2, <2>1
<1> HIDE DEF g, D
<1>4. \A it : Piles(it, f, c, D) <=> Sums(it, g, SUBSET D)
<2> SUFFICES ASSUME NEW it PROVE Piles(it, f, c, D) <=> Sums(it, g, SUBSET D)
  OBVIOUS
<2>1. [r \in SUBSET D |->
         IF r = {} THEN 0
         ELSE (Adaptive!Stored(f, Pick(r), c) % (2 ^ c)) * 2 ^ ((Pick(r) % PerByte(c)) * c) + it[r \ {Pick(r)}]]
      = [r \in SUBSET D |-> IF r = {} THEN 0 ELSE g[Pick(r)] + it[r \ {Pick(r)}]]
  BY <1>3
<2> QED
  BY ONLY <2>1 DEF Piles, Sums
<1>5. Sums(Iter(g, D), g, SUBSET D)
  BY <1>1, IterSums
<1>6. Piles(Iter(g, D), f, c, D)
  BY <1>4, <1>5
<1>7. Piles(chosen, f, c, D)
  BY <1>6
<1> HIDE DEF chosen
<1>8. Sums(chosen, g, SUBSET D)
  BY <1>4, <1>7
<1>9. chosen[D] = Iter(g, D)[D]
  BY ONLY <1>1, <1>5, <1>8, SumsOnly
<1> QED
  BY <1>9, PayloadPiles, SumIs DEF chosen, D, g

Raw(f, c, i) == (Adaptive!Pack(f, c).payload[i \div PerByte(c)] \div 2 ^ ((i % PerByte(c)) * c)) % (2 ^ c)

LEMMA PerByteIs == PerByte(16) = 1 /\ PerByte(8) = 1 /\ PerByte(4) = 2 /\ PerByte(2) = 4
  BY DEF PerByte

LEMMA DigitIs ==
  ASSUME NEW f, NEW x
  PROVE  /\ Adaptive!Stored(f, x, 2) \in Int => Digit(f, 2, x) \in Nat /\ Digit(f, 2, x) < 4
         /\ Adaptive!Stored(f, x, 4) \in Int => Digit(f, 4, x) \in Nat /\ Digit(f, 4, x) < 16
         /\ Adaptive!Stored(f, x, 8) \in Int => Digit(f, 8, x) \in Nat /\ Digit(f, 8, x) < 256
         /\ Adaptive!Stored(f, x, 16) \in Int => Digit(f, 16, x) \in Nat /\ Digit(f, 16, x) < 65536
  BY DEF Digit

\* Codecs of whole bytes.
LEMMA RawWhole ==
  ASSUME NEW f, NEW i \in Adaptive!Indices, NEW c \in {8, 16}, Adaptive!Stored(f, i, c) \in Int
  PROVE  Raw(f, c, i) = Digit(f, c, i)
<1>1. PerByte(c) = 1 /\ i \in Nat /\ i < Count
  BY PerByteIs, IndicesFinite DEF Adaptive!Indices
<1>2. i \div 1 = i /\ i % 1 = 0 /\ i \in Bytes(c)
  BY <1>1, IndicesFinite DEF Bytes
<1>3. InByte(c, i) = {i}
<2>1. ASSUME NEW x \in Adaptive!Indices PROVE x \div PerByte(c) = x
  BY <1>1, <2>1, IndicesFinite DEF Adaptive!Indices
<2> QED
  BY <2>1 DEF InByte
<1>4. 2 ^ ((i % PerByte(c)) * c) = 1
<2>1. (i % PerByte(c)) * c = 0
  BY <1>1, <1>2
<2>2. 2 ^ 0 = 1
  OBVIOUS
<2> QED
  BY ONLY <2>1, <2>2
<1>5. PICK d \in Nat : d = Digit(f, c, i)
  BY DigitIs
<1>6. Field(f, c)[i] = d
<2>1. Field(f, c)[i] = d * 1
  BY <1>4, <1>5 DEF Field
<2> QED
  BY <2>1
<1>7. Adaptive!Pack(f, c).payload[i] = d
<2>1. SumFunctionOnSet(Field(f, c), {i}) = Field(f, c)[i]
  BY <1>6, SumOne
<2>2. Adaptive!Pack(f, c).payload[i] = SumFunctionOnSet(Field(f, c), InByte(c, i))
  BY ONLY <1>2, PayloadIs
<2> QED
  BY ONLY <1>3, <1>6, <2>1, <2>2
<1>8. Raw(f, c, i) = (d \div 1) % (2 ^ c)
  BY <1>1, <1>2, <1>4, <1>7 DEF Raw
<1>9. d % (2 ^ c) = d
<2>1. CASE c = 8
  BY <1>5, <2>1, DigitIs
<2>2. CASE c = 16
  BY <1>5, <2>2, DigitIs
<2> QED
  BY <2>1, <2>2
<1>10. d \div 1 = d
  OBVIOUS
<1> QED
  BY <1>5, <1>8, <1>9, <1>10

\* Nibbles: two values to a byte.
LEMMA RawNibble ==
  ASSUME NEW f, \A j \in Adaptive!Indices : Adaptive!Stored(f, j, 4) \in Int, NEW i \in Adaptive!Indices
  PROVE  Raw(f, 4, i) = Digit(f, 4, i)
<1> DEFINE D == InByte(4, i \div 2)
           g == Field(f, 4)
<1>1. PICK b \in Nat, rest \in {0, 1} : b = i \div 2 /\ rest = i % 2 /\ i = 2 * b + rest
<2>1. i \in Nat
  BY DEF Adaptive!Indices
<2> QED
  BY <2>1
<1>2. b \in Bytes(4)
<2>1. i < Count
  BY IndicesFinite DEF Adaptive!Indices
<2>2. b <= (Count + 1) \div 2 - 1
  BY <1>1, <2>1, IndicesFinite
<2> QED
  BY <1>1, <2>2, PerByteIs, IndicesFinite DEF Bytes
<1>3. \A x \in Adaptive!Indices : x \in D <=> x = 2 * b \/ x = 2 * b + 1
<2> SUFFICES ASSUME NEW x \in Adaptive!Indices PROVE x \div 2 = b <=> x = 2 * b \/ x = 2 * b + 1
  BY <1>1, PerByteIs DEF InByte
<2>1. x \in Nat
  BY DEF Adaptive!Indices
<2> QED
  BY <1>1, <2>1
<1>4. ASSUME NEW x \in Adaptive!Indices
      PROVE  /\ x = 2 * b => g[x] = Digit(f, 4, x)
             /\ x = 2 * b + 1 => g[x] = Digit(f, 4, x) * 16
             /\ Digit(f, 4, x) \in Nat /\ Digit(f, 4, x) < 16
<2>1. PICK d \in Nat : d = Digit(f, 4, x) /\ d < 16
  BY DigitIs
<2>2. g[x] = d * 2 ^ ((x % 2) * 4)
  BY <2>1, PerByteIs DEF Field
<2>3. 2 ^ 0 = 1 /\ 2 ^ 4 = 16
  OBVIOUS
<2>4. ASSUME x = 2 * b PROVE g[x] = d
<3>1. (x % 2) * 4 = 0
  BY <1>1, <2>4
<3>2. g[x] = d * 2 ^ 0
  BY ONLY <2>2, <3>1
<3> QED
  BY <2>1, <3>2
<2>5. ASSUME x = 2 * b + 1 PROVE g[x] = d * 16
<3>1. (x % 2) * 4 = 4
  BY <1>1, <2>5
<3>2. g[x] = d * 2 ^ 4
  BY ONLY <2>2, <3>1
<3> QED
  BY <2>1, <3>2
<2> QED
  BY <2>1, <2>4, <2>5
<1> DEFINE h == [x \in {2 * b, 2 * b + 1} |-> IF x \in D THEN g[x] ELSE 0]
<1>5. Adaptive!Pack(f, 4).payload[b] = SumFunctionOnSet(g, D)
<2>1. Adaptive!Pack(f, 4).payload[b] = SumFunctionOnSet(Field(f, 4), InByte(4, b))
  BY ONLY <1>2, PayloadIs
<2> QED
  BY ONLY <1>1, <2>1
<1>6. D \subseteq {2 * b, 2 * b + 1} /\ D \subseteq Adaptive!Indices
  BY <1>3 DEF InByte
<1> HIDE DEF D, g
<1>7. PICK d0 \in Nat, d1 \in Nat :
        /\ d0 < 16 /\ d1 < 16 /\ h[2 * b] = d0 /\ h[2 * b + 1] = d1 * 16
        /\ rest = 0 => d0 = Digit(f, 4, i)
        /\ rest = 1 => d1 = Digit(f, 4, i)
<2>1. \E d \in Nat : d < 16 /\ h[2 * b] = d /\ (rest = 0 => d = Digit(f, 4, i))
  <3>1. CASE 2 * b \in D
    BY <1>1, <1>4, <1>6, <3>1
  <3>2. CASE 2 * b \notin D
    <4>1. rest # 0
      BY <1>1, <1>3, <3>2
    <4> QED
      BY <3>2, <4>1
  <3> QED
    BY <3>1, <3>2
<2>2. \E d \in Nat : d < 16 /\ h[2 * b + 1] = d * 16 /\ (rest = 1 => d = Digit(f, 4, i))
  <3>1. CASE 2 * b + 1 \in D
    BY <1>1, <1>4, <1>6, <3>1
  <3>2. CASE 2 * b + 1 \notin D
    <4>1. rest # 1
      BY <1>1, <1>3, <3>2
    <4> QED
      BY <3>2, <4>1
  <3> QED
    BY <3>1, <3>2
<2> HIDE DEF h
<2> QED
  BY <2>1, <2>2
<1>8. SumFunctionOnSet(g, D) = d0 + d1 * 16
<2>1. \A x \in D : g[x] \in Nat
  BY <1>3, <1>4, <1>6
<2>2. \A x \in {2 * b, 2 * b + 1} : h[x] = IF x \in D THEN g[x] ELSE 0
  OBVIOUS
<2> HIDE DEF h
<2>3. /\ IsFiniteSet({2 * b, 2 * b + 1})
      /\ SumFunctionOnSet(h, {2 * b, 2 * b + 1}) = h[2 * b] + h[2 * b + 1]
  <3>1. 2 * b # 2 * b + 1 /\ h[2 * b] \in Nat /\ h[2 * b + 1] \in Nat
    BY <1>7
  <3> QED
    BY ONLY <3>1, SumTwo
<2>4. SumFunctionOnSet(g, D) = SumFunctionOnSet(h, {2 * b, 2 * b + 1})
<3> DEFINE E == {2 * b, 2 * b + 1}
<3>1. IsFiniteSet(E) /\ D \subseteq E /\ \A x \in E : h[x] = IF x \in D THEN g[x] ELSE 0
  BY ONLY <1>6, <2>2, <2>3
<3> HIDE DEF E
<3>2. SumFunctionOnSet(g, D) = SumFunctionOnSet(h, E)
  BY ONLY <2>1, <3>1, SumPadded
<3> QED
  BY ONLY <3>2 DEF E
<2> QED
  BY ONLY <1>7, <2>3, <2>4
<1>9. Raw(f, 4, i) = ((d0 + d1 * 16) \div 2 ^ (rest * 4)) % 16
<2>1. i \div PerByte(4) = b /\ i % PerByte(4) = rest /\ 2 ^ 4 = 16
  BY <1>1, PerByteIs
<2> QED
  BY ONLY <1>5, <1>8, <2>1 DEF Raw
<1>10. CASE rest = 0
<2>1. 2 ^ (rest * 4) = 1
  BY <1>10
<2>2. ((d0 + d1 * 16) \div 1) % 16 = d0
  BY <1>7
<2> QED
  BY ONLY <1>7, <1>9, <1>10, <2>1, <2>2
<1>11. CASE rest = 1
<2>1. 2 ^ (rest * 4) = 16
  BY <1>11
<2>2. ((d0 + d1 * 16) \div 16) % 16 = d1
  BY <1>7
<2> QED
  BY ONLY <1>7, <1>9, <1>11, <2>1, <2>2
<1> QED
  BY <1>1, <1>10, <1>11

\* Values of two bits: four to a byte.
LEMMA RawPair ==
  ASSUME NEW f, \A j \in Adaptive!Indices : Adaptive!Stored(f, j, 2) \in Int, NEW i \in Adaptive!Indices
  PROVE  Raw(f, 2, i) = Digit(f, 2, i)
<1> DEFINE D == InByte(2, i \div 4)
           g == Field(f, 2)
<1>1. PICK b \in Nat, rest \in {0, 1, 2, 3} : b = i \div 4 /\ rest = i % 4 /\ i = 4 * b + rest
<2>1. i \in Nat
  BY DEF Adaptive!Indices
<2> QED
  BY <2>1
<1>2. b \in Bytes(2)
<2>1. i < Count
  BY IndicesFinite DEF Adaptive!Indices
<2>2. b <= (Count + 3) \div 4 - 1
  BY <1>1, <2>1, IndicesFinite
<2> QED
  BY <1>1, <2>2, PerByteIs, IndicesFinite DEF Bytes
<1>3. \A x \in Adaptive!Indices : x \in D <=> x = 4 * b \/ x = 4 * b + 1 \/ x = 4 * b + 2 \/ x = 4 * b + 3
<2> SUFFICES ASSUME NEW x \in Adaptive!Indices
             PROVE  x \div 4 = b <=> x = 4 * b \/ x = 4 * b + 1 \/ x = 4 * b + 2 \/ x = 4 * b + 3
  BY <1>1, PerByteIs DEF InByte
<2>1. x \in Nat
  BY DEF Adaptive!Indices
<2> QED
  BY <1>1, <2>1
<1>4. ASSUME NEW x \in Adaptive!Indices
      PROVE  /\ x = 4 * b => g[x] = Digit(f, 2, x)
             /\ x = 4 * b + 1 => g[x] = Digit(f, 2, x) * 4
             /\ x = 4 * b + 2 => g[x] = Digit(f, 2, x) * 16
             /\ x = 4 * b + 3 => g[x] = Digit(f, 2, x) * 64
             /\ Digit(f, 2, x) \in Nat /\ Digit(f, 2, x) < 4
<2>1. PICK d \in Nat : d = Digit(f, 2, x) /\ d < 4
  BY DigitIs
<2>2. g[x] = d * 2 ^ ((x % 4) * 2)
  BY <2>1, PerByteIs DEF Field
<2>3. 2 ^ 0 = 1 /\ 2 ^ 2 = 4 /\ 2 ^ 4 = 16 /\ 2 ^ 6 = 64
  OBVIOUS
<2>4. ASSUME x = 4 * b PROVE g[x] = d
  <3>1. (x % 4) * 2 = 0
    BY <1>1, <2>4
  <3>2. g[x] = d * 2 ^ 0
    BY ONLY <2>2, <3>1
  <3> QED
    BY <2>1, <3>2
<2>5. ASSUME x = 4 * b + 1 PROVE g[x] = d * 4
  <3>1. (x % 4) * 2 = 2
    BY <1>1, <2>5
  <3>2. g[x] = d * 2 ^ 2
    BY ONLY <2>2, <3>1
  <3> QED
    BY <2>1, <3>2
<2>6. ASSUME x = 4 * b + 2 PROVE g[x] = d * 16
  <3>1. (x % 4) * 2 = 4
    BY <1>1, <2>6
  <3>2. g[x] = d * 2 ^ 4
    BY ONLY <2>2, <3>1
  <3> QED
    BY <2>1, <3>2
<2>7. ASSUME x = 4 * b + 3 PROVE g[x] = d * 64
  <3>1. (x % 4) * 2 = 6
    BY <1>1, <2>7
  <3>2. g[x] = d * 2 ^ 6
    BY ONLY <2>2, <3>1
  <3> QED
    BY <2>1, <3>2
<2> QED
  BY <2>1, <2>4, <2>5, <2>6, <2>7
<1> DEFINE E == {4 * b, 4 * b + 1, 4 * b + 2, 4 * b + 3}
           h == [x \in E |-> IF x \in D THEN g[x] ELSE 0]
<1>5. Adaptive!Pack(f, 2).payload[b] = SumFunctionOnSet(g, D)
<2>1. Adaptive!Pack(f, 2).payload[b] = SumFunctionOnSet(Field(f, 2), InByte(2, b))
  BY ONLY <1>2, PayloadIs
<2> QED
  BY ONLY <1>1, <2>1
<1>6. /\ D \subseteq E /\ D \subseteq Adaptive!Indices
      /\ 4 * b \in E /\ 4 * b + 1 \in E /\ 4 * b + 2 \in E /\ 4 * b + 3 \in E
  BY <1>3 DEF InByte
<1>7. \A x \in E : h[x] = IF x \in D THEN g[x] ELSE 0
  OBVIOUS
<1> HIDE DEF D, g, h
<1>8. \A j \in {0, 1, 2, 3} : \E d \in Nat :
         /\ d < 4 /\ (rest = j => d = Digit(f, 2, i))
         /\ h[4 * b + j] = d * (CASE j = 0 -> 1 [] j = 1 -> 4 [] j = 2 -> 16 [] j = 3 -> 64)
<2> SUFFICES ASSUME NEW j \in {0, 1, 2, 3}
             PROVE  \E d \in Nat :
                       /\ d < 4 /\ (rest = j => d = Digit(f, 2, i))
                       /\ h[4 * b + j] = d * (CASE j = 0 -> 1 [] j = 1 -> 4 [] j = 2 -> 16 [] j = 3 -> 64)
  OBVIOUS
<2>1. PICK x \in Nat : x = 4 * b + j
  BY <1>1
<2>2. x \in E
  BY <1>6, <2>1
<2> HIDE DEF E
<2>3. CASE x \in D
  <3>1. PICK d \in Nat : d = Digit(f, 2, x) /\ d < 4 /\ x \in Adaptive!Indices
    BY <1>4, <1>6, <2>3
  <3>2. g[x] = d * (CASE j = 0 -> 1 [] j = 1 -> 4 [] j = 2 -> 16 [] j = 3 -> 64)
    <4>1. /\ j = 0 => g[x] = d
          /\ j = 1 => g[x] = d * 4
          /\ j = 2 => g[x] = d * 16
          /\ j = 3 => g[x] = d * 64
      BY <1>1, <1>4, <2>1, <3>1
    <4>2. d * 1 = d
      OBVIOUS
    <4> QED
      BY ONLY <4>1, <4>2, j \in {0, 1, 2, 3}
  <3>3. h[x] = g[x]
    BY ONLY <1>7, <2>2, <2>3
  <3>4. rest = j => x = i
    BY ONLY <1>1, <2>1
  <3> QED
    BY ONLY <2>1, <3>1, <3>2, <3>3, <3>4
<2>4. CASE x \notin D
  <3>1. rest # j
    BY <1>1, <1>3, <2>1, <2>4
  <3>2. h[x] = 0
    BY ONLY <1>7, <2>2, <2>4
  <3>3. 0 = 0 * (CASE j = 0 -> 1 [] j = 1 -> 4 [] j = 2 -> 16 [] j = 3 -> 64)
    OBVIOUS
  <3> QED
    BY ONLY <2>1, <3>1, <3>2, <3>3
<2> QED
  BY <2>3, <2>4
<1>9. PICK d0 \in Nat, d1 \in Nat, d2 \in Nat, d3 \in Nat :
        /\ d0 < 4 /\ d1 < 4 /\ d2 < 4 /\ d3 < 4
        /\ h[4 * b] = d0 /\ h[4 * b + 1] = d1 * 4 /\ h[4 * b + 2] = d2 * 16 /\ h[4 * b + 3] = d3 * 64
        /\ (rest = 0 => d0 = Digit(f, 2, i)) /\ (rest = 1 => d1 = Digit(f, 2, i))
        /\ (rest = 2 => d2 = Digit(f, 2, i)) /\ (rest = 3 => d3 = Digit(f, 2, i))
<2>1. PICK d0 \in Nat : d0 < 4 /\ h[4 * b] = d0 /\ (rest = 0 => d0 = Digit(f, 2, i))
  BY <1>1, <1>8
<2>2. PICK d1 \in Nat : d1 < 4 /\ h[4 * b + 1] = d1 * 4 /\ (rest = 1 => d1 = Digit(f, 2, i))
  BY <1>1, <1>8
<2>3. PICK d2 \in Nat : d2 < 4 /\ h[4 * b + 2] = d2 * 16 /\ (rest = 2 => d2 = Digit(f, 2, i))
  BY <1>1, <1>8
<2>4. PICK d3 \in Nat : d3 < 4 /\ h[4 * b + 3] = d3 * 64 /\ (rest = 3 => d3 = Digit(f, 2, i))
  BY <1>1, <1>8
<2> QED
  BY ONLY <2>1, <2>2, <2>3, <2>4
<1>10. SumFunctionOnSet(g, D) = d0 + d1 * 4 + d2 * 16 + d3 * 64
<2>1. \A x \in D : g[x] \in Nat
  BY <1>3, <1>4, <1>6
<2>2. IsFiniteSet(E) /\ SumFunctionOnSet(h, E) = h[4 * b] + h[4 * b + 1] + h[4 * b + 2] + h[4 * b + 3]
  <3>1. PICK a0, a1, a2, a3 : a0 = 4 * b /\ a1 = 4 * b + 1 /\ a2 = 4 * b + 2 /\ a3 = 4 * b + 3
    OBVIOUS
  <3>2. Apart(a0, a1, a2, a3)
    BY <1>1, <3>1 DEF Apart
  <3>3. h[a0] \in Nat /\ h[a1] \in Nat /\ h[a2] \in Nat /\ h[a3] \in Nat
    BY <1>9, <3>1
  <3>4. IsFiniteSet({a0, a1, a2, a3}) /\ SumFunctionOnSet(h, {a0, a1, a2, a3}) = h[a0] + h[a1] + h[a2] + h[a3]
    BY ONLY <3>2, <3>3, SumFour
  <3> QED
    BY ONLY <3>1, <3>4
<2> HIDE DEF E
<2>3. SumFunctionOnSet(g, D) = SumFunctionOnSet(h, E)
  BY ONLY <1>6, <1>7, <2>1, <2>2, SumPadded
<2> QED
  BY ONLY <1>9, <2>2, <2>3
<1>11. Raw(f, 2, i) = ((d0 + d1 * 4 + d2 * 16 + d3 * 64) \div 2 ^ (rest * 2)) % 4
<2>1. i \div PerByte(2) = b /\ i % PerByte(2) = rest /\ 2 ^ 2 = 4
  BY <1>1, PerByteIs
<2> QED
  BY ONLY <1>5, <1>10, <2>1 DEF Raw
<1>12. CASE rest = 0
<2>1. 2 ^ (rest * 2) = 1
  BY <1>12
<2>2. ((d0 + d1 * 4 + d2 * 16 + d3 * 64) \div 1) % 4 = d0
  BY <1>9
<2> QED
  BY ONLY <1>9, <1>11, <1>12, <2>1, <2>2
<1>13. CASE rest = 1
<2>1. 2 ^ (rest * 2) = 4
  BY <1>13
<2>2. ((d0 + d1 * 4 + d2 * 16 + d3 * 64) \div 4) % 4 = d1
  BY <1>9
<2> QED
  BY ONLY <1>9, <1>11, <1>13, <2>1, <2>2
<1>14. CASE rest = 2
<2>1. 2 ^ (rest * 2) = 16
  BY <1>14
<2>2. ((d0 + d1 * 4 + d2 * 16 + d3 * 64) \div 16) % 4 = d2
  BY <1>9
<2> QED
  BY ONLY <1>9, <1>11, <1>14, <2>1, <2>2
<1>15. CASE rest = 3
<2>1. 2 ^ (rest * 2) = 64
  BY <1>15
<2>2. ((d0 + d1 * 4 + d2 * 16 + d3 * 64) \div 64) % 4 = d3
  BY <1>9
<2> QED
  BY ONLY <1>9, <1>11, <1>15, <2>1, <2>2
<1> QED
  BY <1>1, <1>12, <1>13, <1>14, <1>15

\* A value that fits its codec comes out of the payload as it went in.
LEMMA UnpackedIs ==
  ASSUME NEW f, NEW c \in Adaptive!Codecs, NEW i \in Adaptive!Indices,
         \A j \in Adaptive!Indices : Adaptive!Stored(f, j, c) \in Int /\ Fit(c, Adaptive!Stored(f, j, c))
  PROVE  Adaptive!Unpacked(Adaptive!Pack(f, c), i) = Adaptive!Stored(f, i, c)
<1>1. PICK x \in Int : x = Adaptive!Stored(f, i, c) /\ Fit(c, x)
  OBVIOUS
<1>2. c = 2 \/ c = 4 \/ c = 8 \/ c = 16
  BY DEF Adaptive!Codecs
<1>3. Raw(f, c, i) = x % (2 ^ c)
<2>1. Raw(f, c, i) = Digit(f, c, i)
  <3>1. CASE c = 2
    BY <3>1, RawPair
  <3>2. CASE c = 4
    BY <3>2, RawNibble
  <3>3. CASE c \in {8, 16}
    BY <3>3, RawWhole
  <3> QED
    BY <1>2, <3>1, <3>2, <3>3
<2> QED
  BY <1>1, <2>1 DEF Digit
<1>4. Adaptive!Unpacked(Adaptive!Pack(f, c), i)
      = IF Raw(f, c, i) >= 2 ^ (c - 1) THEN Raw(f, c, i) - 2 ^ c ELSE Raw(f, c, i)
<2>1. Adaptive!Pack(f, c).codec = c
  BY DEF Adaptive!Pack
<2> QED
  BY ONLY <2>1 DEF Adaptive!Unpacked, Raw, PerByte
<1>5. (IF x % (2 ^ c) >= 2 ^ (c - 1) THEN (x % (2 ^ c)) - 2 ^ c ELSE x % (2 ^ c)) = x
<2>1. CASE c = 2
  <3>1. 2 ^ c = 4 /\ 2 ^ (c - 1) = 2
    BY <2>1
  <3> QED
    BY <1>1, <3>1 DEF Fit
<2>2. CASE c = 4
  <3>1. 2 ^ c = 16 /\ 2 ^ (c - 1) = 8
    BY <2>2
  <3> QED
    BY <1>1, <3>1 DEF Fit
<2>3. CASE c = 8
  <3>1. 2 ^ c = 256 /\ 2 ^ (c - 1) = 128
    BY <2>3
  <3> QED
    BY <1>1, <3>1 DEF Fit
<2>4. CASE c = 16
  <3>1. 2 ^ c = 65536 /\ 2 ^ (c - 1) = 32768
    BY <2>4
  <3> QED
    BY <1>1, <3>1 DEF Fit
<2> QED
  BY <1>2, <2>1, <2>2, <2>3, <2>4
<1> QED
  BY ONLY <1>1, <1>3, <1>4, <1>5

-----------------------------------------------------------------------------
(* What is decoded is near what was encoded, and can be encoded again.        *)

\* Values in range, in units that the steps of all codecs divide.
Steps(x) == \E y \in Int : x = 889 * y
InRange(x) == x \in Int /\ -(32767 * Unit) <= x /\ x <= 32767 * Unit
Sized(f) ==
  \A i \in Adaptive!Indices : InRange(f[i]) /\ Steps(Adaptive!LargestOf(f, Adaptive!BlockOf(i)))

LEMMA StoredFits ==
  ASSUME Blocks, NEW f, Sized(f), NEW c \in Adaptive!Codecs
  PROVE  \A j \in Adaptive!Indices : Adaptive!Stored(f, j, c) \in Int /\ Fit(c, Adaptive!Stored(f, j, c))
<1> SUFFICES ASSUME NEW j \in Adaptive!Indices
             PROVE  Adaptive!Stored(f, j, c) \in Int /\ Fit(c, Adaptive!Stored(f, j, c))
  OBVIOUS
<1>1. \A i \in Adaptive!Indices : f[i] \in Int /\ -(32767 * Unit) <= f[i] /\ f[i] <= 32767 * Unit
  BY DEF Sized, InRange
<1>2. CASE c = 16
  BY <1>1, <1>2, StoredRaw
<1>3. CASE c # 16
<2>1. c \in Lossy
  BY <1>3 DEF Lossy, Adaptive!Codecs
<2>2. PICK q : q = Adaptive!Qmax(c)
  OBVIOUS
<2>3. q \in Nat \ {0} /\ Adaptive!Stored(f, j, c) \in -q .. q /\ Fit(c, Adaptive!Stored(f, j, c))
  BY <1>1, <2>1, <2>2, StoredIs
<2> QED
  BY <2>3
<1> QED
  BY <1>2, <1>3

LEMMA DecodedIs ==
  ASSUME Blocks, NEW f, Sized(f), NEW c \in Adaptive!Codecs, NEW i \in Adaptive!Indices,
         NEW x, x = Adaptive!Stored(f, i, c), NEW w, w = Adaptive!Decoded(Adaptive!Pack(f, c), i),
         NEW m, m = Adaptive!LargestOf(f, Adaptive!BlockOf(i)), NEW q, q = Adaptive!Qmax(c)
  PROVE  /\ w \in Int /\ x \in Int /\ m \in Nat /\ q \in Nat \ {0}
         /\ c = 16 => w = x * Unit
         /\ c # 16 => w * q = m * x
<1>1. x \in Int /\ Adaptive!Unpacked(Adaptive!Pack(f, c), i) = x
  BY StoredFits, UnpackedIs
<1>2. Unit \in Nat \ {0} /\ q \in Nat \ {0}
  BY AdaptiveConstants, QmaxIs
<1>3. Adaptive!Pack(f, c).codec = c /\ Adaptive!Pack(f, c).block = config.block_size
  BY DEF Adaptive!Pack
<1>4. m \in Nat
<2>1. \A j \in Adaptive!BlockOf(i) : f[j] \in Int
  BY BlockIs DEF Sized, InRange
<2> QED
  BY <2>1, BlockIs, LargestIs DEF Largest
<1>5. CASE c = 16
<2>1. w = x * Unit
  BY <1>1, <1>3, <1>5 DEF Adaptive!Decoded
<2> QED
  BY <1>1, <1>2, <1>4, <1>5, <2>1
<1>6. CASE c # 16
<2>1. Adaptive!Pack(f, c).scales[i \div config.block_size] = m
  <3>1. i \div config.block_size \in 0 .. (Count - 1) \div config.block_size
    BY BlockIs
  <3>2. Adaptive!Pack(f, c).scales
        = [b \in 0 .. (Count - 1) \div config.block_size |->
            Adaptive!LargestOf(f, {j \in Adaptive!Indices : j \div config.block_size = b})]
    BY DEF Adaptive!Pack
  <3> QED
    BY ONLY <3>1, <3>2, m = Adaptive!LargestOf(f, Adaptive!BlockOf(i)) DEF Adaptive!BlockOf
<2>2. w = (x * m) \div q
  BY <1>1, <1>3, <1>6, <2>1 DEF Adaptive!Decoded
<2>3. PICK y \in Int : m = 889 * y
  BY DEF Sized, Steps
<2>4. PICK u \in Int : u = x * y
  BY <1>1, <2>3
<2>5. x * m = 889 * u
  BY <1>1, <2>3, <2>4
<2>6. q = 1 \/ q = 7 \/ q = 127
  BY <1>6, QmaxIs DEF Adaptive!Codecs
<2>7. w \in Int /\ w * q = 889 * u
  BY <2>2, <2>5, <2>6
<2> QED
  BY <1>1, <1>2, <1>4, <1>6, <2>5, <2>7
<1> QED
  BY <1>5, <1>6

LEMMA PackFaithful ==
  ASSUME Blocks, NEW f, Sized(f), NEW c \in Adaptive!Codecs, NEW i \in Adaptive!Indices
  PROVE  2 * Adaptive!Magnitude(f[i] - Adaptive!Decoded(Adaptive!Pack(f, c), i)) * Adaptive!Qmax(c)
         <= IF c = 16 THEN Unit ELSE Adaptive!LargestOf(f, Adaptive!BlockOf(i))
<1>1. PICK x, w, m, q : /\ x = Adaptive!Stored(f, i, c) /\ w = Adaptive!Decoded(Adaptive!Pack(f, c), i)
                        /\ m = Adaptive!LargestOf(f, Adaptive!BlockOf(i)) /\ q = Adaptive!Qmax(c)
  OBVIOUS
<1>2. /\ w \in Int /\ x \in Int /\ m \in Nat /\ q \in Nat \ {0}
      /\ c = 16 => w = x * Unit
      /\ c # 16 => w * q = m * x
  BY <1>1, DecodedIs
<1>3. PICK v \in Int : v = f[i]
  BY DEF Sized, InRange
<1>4. \A j \in Adaptive!Indices : f[j] \in Int /\ -(32767 * Unit) <= f[j] /\ f[j] <= 32767 * Unit
  BY DEF Sized, InRange
<1>5. CASE c = 16
<2>1. 2 * (v - Unit * x) <= Unit /\ -Unit <= 2 * (v - Unit * x)
  BY <1>1, <1>3, <1>4, <1>5, StoredRaw
<2>2. q = 1
  BY <1>1, <1>5, QmaxIs
<2>3. PICK u \in Nat, n \in Int : u = Unit /\ n = u * x /\ w = n
  BY <1>2, <1>5, AdaptiveConstants
<2>4. 2 * Adaptive!Magnitude(v - w) * q <= u
  BY <1>2, <2>1, <2>2, <2>3 DEF Adaptive!Magnitude
<2> QED
  BY <1>1, <1>3, <1>5, <2>3, <2>4
<1>6. CASE c # 16
<2>1. c \in Lossy
  BY <1>6 DEF Lossy, Adaptive!Codecs
<2>2. 2 * (v * q - m * x) <= m /\ -m <= 2 * (v * q - m * x)
  BY <1>1, <1>3, <1>4, <2>1, StoredIs
<2>3. PICK n \in Int : n = m * x
  BY <1>2
<2>4. q = 1 \/ q = 7 \/ q = 127
  BY <1>1, <1>6, QmaxIs DEF Adaptive!Codecs
<2>5. w * q = n
  BY <1>2, <1>6, <2>3
<2>6. 2 * Adaptive!Magnitude(v - w) * q <= m
  BY <1>2, <2>2, <2>3, <2>4, <2>5 DEF Adaptive!Magnitude
<2> QED
  BY <1>1, <1>3, <1>6, <2>6
<1> QED
  BY <1>5, <1>6

\* A block decodes to values of the same scale.
LEMMA DecodedWithin ==
  ASSUME Blocks, NEW f, Sized(f), NEW c \in Lossy, NEW i \in Adaptive!Indices,
         NEW w, w = Adaptive!Decoded(Adaptive!Pack(f, c), i),
         NEW m, m = Adaptive!LargestOf(f, Adaptive!BlockOf(i))
  PROVE  /\ w \in Int /\ m \in Nat /\ -m <= w /\ w <= m
         /\ m # 0 => (f[i] = m => w = m) /\ (f[i] = -m => w = -m)
<1>1. PICK x, q : x = Adaptive!Stored(f, i, c) /\ q = Adaptive!Qmax(c)
  OBVIOUS
<1>2. c \in Adaptive!Codecs /\ c # 16
  BY DEF Lossy, Adaptive!Codecs
<1>3. w \in Int /\ x \in Int /\ m \in Nat /\ q \in Nat \ {0} /\ w * q = m * x
  BY <1>1, <1>2, DecodedIs
<1>4. x \in -q .. q /\ (m # 0 => (f[i] = m => x = q) /\ (f[i] = -m => x = -q))
<2>1. \A j \in Adaptive!Indices : f[j] \in Int
  BY DEF Sized, InRange
<2> QED
  BY <1>1, <2>1, StoredIs
<1>5. q = 1 \/ q = 7 \/ q = 127
  BY <1>1, QmaxIs DEF Lossy
<1>6. m * (-q) <= m * x /\ m * x <= m * q
  BY <1>3, <1>4, Times
<1>7. -m <= w /\ w <= m
  BY <1>3, <1>5, <1>6
<1>8. ASSUME x = q PROVE w = m
  BY <1>3, <1>5, <1>8
<1>9. ASSUME x = -q PROVE w = -m
  BY <1>3, <1>5, <1>9
<1> QED
  BY <1>3, <1>4, <1>7, <1>8, <1>9

LEMMA ScaleInRange ==
  ASSUME Blocks, NEW f, Sized(f), NEW i \in Adaptive!Indices,
         NEW m, m = Adaptive!LargestOf(f, Adaptive!BlockOf(i))
  PROVE  Largest(f, Adaptive!BlockOf(i), m) /\ m <= 32767 * Unit
<1>1. \A j \in Adaptive!BlockOf(i) : f[j] \in Int /\ -(32767 * Unit) <= f[j] /\ f[j] <= 32767 * Unit
  BY BlockIs DEF Sized, InRange
<1>2. Largest(f, Adaptive!BlockOf(i), m)
  BY <1>1, BlockIs, LargestIs
<1>3. PICK u \in Nat : u = 32767 * Unit
  BY AdaptiveConstants
<1>4. m <= u
  BY <1>1, <1>2, <1>3 DEF Largest
<1> QED
  BY <1>2, <1>3, <1>4

LEMMA LargestSteps ==
  ASSUME NEW f, NEW D, \A j \in D : f[j] \in Int /\ Steps(f[j]) /\ Steps(-f[j]), NEW m, Largest(f, D, m)
  PROVE  Steps(m)
<1>1. CASE m = 0
<2>1. 0 = 889 * 0
  OBVIOUS
<2> QED
  BY <1>1, <2>1 DEF Steps
<1>2. CASE m # 0
<2>1. PICK j \in D : f[j] = m \/ f[j] = -m
  BY <1>2 DEF Largest
<2>2. m = f[j] \/ m = -f[j]
  BY <2>1 DEF Largest
<2> QED
  BY <2>2
<1> QED
  BY <1>1, <1>2

LEMMA PackKeeps ==
  ASSUME Blocks, NEW f, Sized(f), NEW c \in Adaptive!Codecs
  PROVE  Sized(Adaptive!DecodedHalf(Adaptive!Pack(f, c)))
<1> DEFINE g == Adaptive!DecodedHalf(Adaptive!Pack(f, c))
<1>1. \A i \in Adaptive!Indices : g[i] = Adaptive!Decoded(Adaptive!Pack(f, c), i)
  BY DEF Adaptive!DecodedHalf
<1> HIDE DEF g
<1>2. Unit \in Nat \ {0} /\ Steps(Unit)
<2>1. Unit \in Nat \ {0} /\ Unit % 889 = 0
  BY AdaptiveConstants
<2>2. Unit = 889 * (Unit \div 889) /\ Unit \div 889 \in Int
  BY <2>1
<2> QED
  BY <2>1, <2>2 DEF Steps
<1>3. CASE c = 16
<2>1. ASSUME NEW i \in Adaptive!Indices PROVE InRange(g[i]) /\ Steps(g[i]) /\ Steps(-g[i])
  <3>1. PICK x, w, m, q : /\ x = Adaptive!Stored(f, i, c) /\ w = Adaptive!Decoded(Adaptive!Pack(f, c), i)
                          /\ m = Adaptive!LargestOf(f, Adaptive!BlockOf(i)) /\ q = Adaptive!Qmax(c)
    OBVIOUS
  <3>2. w \in Int /\ x \in Int /\ w = x * Unit
    BY <1>3, <3>1, DecodedIs
  <3>3. -32767 <= x /\ x <= 32767
    BY <1>3, <3>1, StoredRaw DEF Sized, InRange
  <3>4. PICK y \in Int, u \in Nat : u = Unit /\ u = 889 * y
    BY <1>2 DEF Steps
  <3>5. InRange(w)
    <4>1. u * (-32767) <= u * x /\ u * x <= u * 32767
      BY <3>2, <3>3, <3>4, Times
    <4>2. w = u * x
      BY <3>2, <3>4
    <4>3. -(32767 * u) <= w /\ w <= 32767 * u
      BY <3>2, <3>4, <4>1, <4>2
    <4> QED
      BY <3>2, <3>4, <4>3 DEF InRange
  <3>6. PICK n \in Int : n = x * y
    BY <3>2, <3>4
  <3>7. w = 889 * n /\ -w = 889 * (-n) /\ -n \in Int
    BY <3>2, <3>4, <3>6
  <3> QED
    <4>1. Steps(w)
      BY <3>7 DEF Steps
    <4>2. Steps(-w)
      BY <3>7 DEF Steps
    <4> QED
      BY <1>1, <3>1, <3>5, <4>1, <4>2
<2>2. ASSUME NEW i \in Adaptive!Indices PROVE Steps(Adaptive!LargestOf(g, Adaptive!BlockOf(i)))
  <3>1. \A j \in Adaptive!BlockOf(i) : g[j] \in Int /\ Steps(g[j]) /\ Steps(-g[j])
    BY <2>1, BlockIs DEF InRange
  <3>2. Largest(g, Adaptive!BlockOf(i), Adaptive!LargestOf(g, Adaptive!BlockOf(i)))
    BY <3>1, BlockIs, LargestIs
  <3> QED
    BY <3>1, <3>2, LargestSteps
<2> QED
  BY <2>1, <2>2 DEF Sized, g
<1>4. CASE c # 16
<2>1. c \in Lossy
  BY <1>4 DEF Lossy, Adaptive!Codecs
<2>2. ASSUME NEW i \in Adaptive!Indices, NEW m, m = Adaptive!LargestOf(f, Adaptive!BlockOf(i))
      PROVE  /\ g[i] \in Int /\ m \in Nat /\ -m <= g[i] /\ g[i] <= m
             /\ m # 0 => (f[i] = m => g[i] = m) /\ (f[i] = -m => g[i] = -m)
  BY <1>1, <2>1, <2>2, DecodedWithin
<2>3. ASSUME NEW i \in Adaptive!Indices PROVE InRange(g[i])
  <3>1. PICK m : m = Adaptive!LargestOf(f, Adaptive!BlockOf(i))
    OBVIOUS
  <3>2. g[i] \in Int /\ m \in Nat /\ -m <= g[i] /\ g[i] <= m
    BY <2>2, <3>1
  <3>3. PICK u \in Nat : u = Unit /\ m <= 32767 * u
    BY <1>2, <3>1, ScaleInRange
  <3>4. -(32767 * u) <= g[i] /\ g[i] <= 32767 * u
    BY <3>2, <3>3
  <3> QED
    BY <3>2, <3>3, <3>4 DEF InRange
<2>4. ASSUME NEW i \in Adaptive!Indices PROVE Steps(Adaptive!LargestOf(g, Adaptive!BlockOf(i)))
  <3>1. PICK m : m = Adaptive!LargestOf(f, Adaptive!BlockOf(i))
    OBVIOUS
  <3>2. Largest(f, Adaptive!BlockOf(i), m)
    BY <3>1, ScaleInRange
  <3>3. \A j \in Adaptive!BlockOf(i) : j \in Adaptive!Indices /\ m = Adaptive!LargestOf(f, Adaptive!BlockOf(j))
    BY <3>1, BlockIs
  <3>4. \A j \in Adaptive!BlockOf(i) :
          /\ g[j] \in Int /\ m \in Nat /\ -m <= g[j] /\ g[j] <= m
          /\ m # 0 => (f[j] = m => g[j] = m) /\ (f[j] = -m => g[j] = -m)
    BY <2>2, <3>3
  <3>5. Largest(g, Adaptive!BlockOf(i), m)
    BY <3>2, <3>4 DEF Largest
  <3>6. Largest(g, Adaptive!BlockOf(i), Adaptive!LargestOf(g, Adaptive!BlockOf(i)))
    BY <3>4, BlockIs, LargestIs
  <3>7. m = Adaptive!LargestOf(g, Adaptive!BlockOf(i))
    BY <3>4, <3>5, <3>6, LargestOnly
  <3> QED
    BY <3>1, <3>7 DEF Sized
<2> QED
  BY <2>3, <2>4 DEF Sized, g
<1> QED
  BY <1>3, <1>4

-----------------------------------------------------------------------------

\* What holds of the adaptive pages: each half is packed, with a codec of its
\* own, from values that every codec can hold.
AdaptiveInv ==
  part = "adaptive" =>
    /\ config \in Configs
    /\ page # Adaptive!NoPage =>
         \E chosen : /\ \A h \in Adaptive!Halves : chosen[h] \in Adaptive!Codecs /\ Sized(source[h])
                     /\ page = [h \in Adaptive!Halves |-> Adaptive!Pack(source[h], chosen[h])]

LEMMA ChooseIs ==
  ASSUME NEW max, NEW low, NEW high
  PROVE  Adaptive!Choose(max, low, high) \in Adaptive!Codecs
<1> DEFINE fit == {c \in Adaptive!Codecs : /\ c >= low /\ c <= high
                                           /\ Adaptive!Satisfies(c, max, config.max_page_error)}
<1>1. Adaptive!Choose(max, low, high) = IF fit = {} THEN 16 ELSE Adaptive!Min(fit)
  BY DEF Adaptive!Choose
<1>2. fit \subseteq Adaptive!Codecs /\ fit \subseteq Nat /\ 16 \in Adaptive!Codecs
  BY DEF Adaptive!Codecs
<1> HIDE DEF fit
<1>3. CASE fit # {}
<2>1. PICK m \in fit : \A n \in fit : m <= n
  BY ONLY <1>2, <1>3, LeastExists
<2>2. Adaptive!Min(fit) \in fit
  BY <2>1 DEF Adaptive!Min
<2> QED
  BY <1>1, <1>2, <1>3, <2>2
<1> QED
  BY <1>1, <1>2, <1>3

\* Any values in range that the steps of all codecs divide, not just those of a run.
AnyValues(src) == \A h \in Adaptive!Halves, i \in Adaptive!Indices : InRange(src[h][i]) /\ Steps(src[h][i])

LEMMA InputsInRange == ASSUME NEW src \in Adaptive!Inputs PROVE AnyValues(src)
<1>1. PICK y \in Int, u \in Nat : u = Unit /\ y \in Nat /\ Grain = 889 * y
<2>1. Grain \in Nat /\ Grain % 889 = 0 /\ Unit \in Nat
  BY AdaptiveConstants
<2>2. Grain = 889 * (Grain \div 889) /\ Grain \div 889 \in Nat
  BY <2>1
<2> QED
  BY <2>1, <2>2
<1>2. ASSUME NEW x \in {n * Grain : n \in Multiples} PROVE InRange(x) /\ Steps(x)
<2>1. PICK n \in Int : /\ x = n * Grain /\ n \in Multiples
                       /\ -(32767 * Unit) <= n * Grain /\ n * Grain <= 32767 * Unit
  BY AdaptiveConstants
<2>2. PICK z \in Int : z = n * y
  BY <1>1, <2>1
<2>3. x = 889 * z /\ x \in Int
  BY <1>1, <2>1, <2>2
<2>4. Steps(x)
  BY <2>3 DEF Steps
<2>5. InRange(x)
  BY <2>1, <2>3 DEF InRange
<2> QED
  BY <2>4, <2>5
<1>3. \A h \in Adaptive!Halves, i \in Adaptive!Indices : src[h][i] \in {n * Grain : n \in Multiples}
  BY DEF Adaptive!Inputs, Adaptive!Halves
<1> QED
  BY <1>2, <1>3 DEF AnyValues

LEMMA NegatedSteps == ASSUME NEW x \in Int, Steps(x) PROVE Steps(-x)
<1>1. PICK y \in Int : x = 889 * y
  BY DEF Steps
<1>2. -x = 889 * (-y) /\ -y \in Int
  BY <1>1
<1> QED
  BY <1>2 DEF Steps

LEMMA InputSized ==
  ASSUME Blocks, NEW src, AnyValues(src), NEW h \in Adaptive!Halves
  PROVE  Sized(src[h])
<1>1. \A i \in Adaptive!Indices : InRange(src[h][i]) /\ Steps(src[h][i])
  BY DEF AnyValues
<1>2. ASSUME NEW i \in Adaptive!Indices PROVE Steps(Adaptive!LargestOf(src[h], Adaptive!BlockOf(i)))
<2>1. \A j \in Adaptive!BlockOf(i) : src[h][j] \in Int /\ Steps(src[h][j])
  BY <1>1, BlockIs DEF InRange
<2>2. \A j \in Adaptive!BlockOf(i) : Steps(-src[h][j])
  BY <2>1, NegatedSteps
<2>3. Largest(src[h], Adaptive!BlockOf(i), Adaptive!LargestOf(src[h], Adaptive!BlockOf(i)))
  BY <2>1, BlockIs, LargestIs
<2> QED
  BY <2>1, <2>2, <2>3, LargestSteps
<1> QED
  BY <1>1, <1>2 DEF Sized

LEMMA ConfigBlocks == config \in Configs => Blocks
  BY AdaptiveConstants DEF Blocks

PackForm ==
  \A f, c : Adaptive!Pack(f, c) =
    [codec |-> c, block |-> config.block_size,
     payload |-> [b \in Bytes(c) |-> SumFunctionOnSet(Field(f, c), InByte(c, b))],
     scales |-> [b \in 0 .. (Count - 1) \div config.block_size |->
                  Adaptive!LargestOf(f, {i \in Adaptive!Indices : i \div config.block_size = b})]]

\* A packed half, with the sums that make its bytes.
LEMMA PackIs == PackForm
<1> SUFFICES ASSUME NEW f, NEW c
             PROVE  Adaptive!Pack(f, c) =
               [codec |-> c, block |-> config.block_size,
                payload |-> [b \in Bytes(c) |-> SumFunctionOnSet(Field(f, c), InByte(c, b))],
                scales |-> [b \in 0 .. (Count - 1) \div config.block_size |->
                             Adaptive!LargestOf(f, {i \in Adaptive!Indices : i \div config.block_size = b})]]
  BY DEF PackForm
<1>1. PICK p : p = [b \in Bytes(c) |-> (CHOOSE it : Piles(it, f, c, InByte(c, b)))[InByte(c, b)]]
  OBVIOUS
<1>2. Adaptive!Pack(f, c) =
        [codec |-> c, block |-> config.block_size, payload |-> p,
         scales |-> [b \in 0 .. (Count - 1) \div config.block_size |->
                      Adaptive!LargestOf(f, {i \in Adaptive!Indices : i \div config.block_size = b})]]
  BY <1>1 DEF Adaptive!Pack, Adaptive!MapThenSumSet, Adaptive!MapThenFoldSet, Piles, Pick, PerByte, InByte, Bytes
<1>3. Adaptive!Pack(f, c).payload = p
  BY ONLY <1>2
<1>4. p = [b \in Bytes(c) |-> SumFunctionOnSet(Field(f, c), InByte(c, b))]
<2>1. \A b \in Bytes(c) : p[b] = SumFunctionOnSet(Field(f, c), InByte(c, b))
  BY ONLY <1>3, PayloadIs
<2>2. p = [b \in Bytes(c) |-> p[b]]
  BY ONLY <1>1
<2> QED
  BY ONLY <2>1, <2>2
<1> QED
  BY ONLY <1>2, <1>4

LEMMA PackNext == PackForm'
  BY PackIs, PTL

LEMMA PackSame == ASSUME config' = config PROVE \A f, c : Adaptive!Pack(f, c)' = Adaptive!Pack(f, c)
<1> SUFFICES ASSUME NEW f, NEW c PROVE Adaptive!Pack(f, c)' = Adaptive!Pack(f, c)
  OBVIOUS
<1>1. \A j : Adaptive!Stored(f, j, c)' = Adaptive!Stored(f, j, c)
  BY DEF Adaptive!Stored, Adaptive!BlockOf
<1>2. Field(f, c)' = Field(f, c)
  BY <1>1 DEF Field, Digit
<1> QED
  BY <1>2, PackIs, PackNext DEF PackForm

\* What the two calls that fill a page leave.
LEMMA EncodeIntoIs ==
  ASSUME Blocks, config' = config, NEW src, \A h \in Adaptive!Halves : Sized(src[h]),
         NEW chosen, \A h \in Adaptive!Halves : chosen[h] \in Adaptive!Codecs, Adaptive!EncodeInto(src, chosen)
  PROVE  \E c : /\ \A h \in Adaptive!Halves : c[h] \in Adaptive!Codecs /\ Sized(source[h])'
                /\ page' = [h \in Adaptive!Halves |-> Adaptive!Pack(source[h], c[h])']
<1>1. source' = src /\ page' = [h \in Adaptive!Halves |-> Adaptive!Pack(src[h], chosen[h])]
  BY DEF Adaptive!EncodeInto
<1>2. \A h \in Adaptive!Halves : Sized(source[h])'
  BY <1>1 DEF Sized, Adaptive!BlockOf
<1>3. \A f, c : Adaptive!Pack(f, c)' = Adaptive!Pack(f, c)
  BY PackSame
<1> QED
  BY <1>1, <1>2, <1>3

LEMMA AdaptiveStart == KernelsInit => AdaptiveInv
  BY DEF KernelsInit, AdaptiveInv, Adaptive!AdaptiveInit

\* AdaptiveNext for any values, whatever the other variables do.
AnyAdaptiveNext ==
  /\ part = "adaptive" /\ UNCHANGED part
  /\ \/ \E src : AnyValues(src) /\ Adaptive!Encode(src)
     \/ Adaptive!EncodeNotFinite
     \/ \E codec \in Adaptive!Codecs : Adaptive!Recompress(codec)

LEMMA AdaptiveStep == AdaptiveInv /\ [AnyAdaptiveNext]_<<part, adaptiveVars>> => AdaptiveInv'
<1> SUFFICES ASSUME AdaptiveInv, [AnyAdaptiveNext]_<<part, adaptiveVars>>, part = "adaptive" PROVE AdaptiveInv'
  BY DEF AdaptiveInv, AnyAdaptiveNext
<1>1. config \in Configs /\ Blocks
  BY ConfigBlocks DEF AdaptiveInv
<1>2. CASE UNCHANGED <<part, adaptiveVars>>
<2>1. part' = part /\ config' = config /\ page' = page /\ source' = source
  BY <1>2 DEF adaptiveVars
<2>2. \A f : Sized(f)' = Sized(f)
  BY <2>1 DEF Sized, Adaptive!BlockOf
<2>3. \A f, c : Adaptive!Pack(f, c)' = Adaptive!Pack(f, c)
  BY <2>1, PackSame
<2>4. CASE page = Adaptive!NoPage
  BY <1>1, <2>1, <2>4 DEF AdaptiveInv, Adaptive!NoPage
<2>5. CASE page # Adaptive!NoPage
  <3>1. PICK chosen : /\ \A h \in Adaptive!Halves : chosen[h] \in Adaptive!Codecs /\ Sized(source[h])
                      /\ page = [h \in Adaptive!Halves |-> Adaptive!Pack(source[h], chosen[h])]
    BY <2>5 DEF AdaptiveInv
  <3>2. /\ \A h \in Adaptive!Halves : chosen[h] \in Adaptive!Codecs /\ Sized(source[h])'
        /\ page' = [h \in Adaptive!Halves |-> Adaptive!Pack(source[h], chosen[h])']
    BY <2>1, <2>2, <2>3, <3>1
  <3> QED
    BY <1>1, <2>1, <3>2 DEF AdaptiveInv
<2> QED
  BY <2>4, <2>5
<1>3. CASE AnyAdaptiveNext
<2>1. ASSUME NEW src, AnyValues(src), Adaptive!Encode(src) PROVE AdaptiveInv'
  <3>1. config' = config
    BY <2>1 DEF Adaptive!Encode
  <3>2. PICK chosen : /\ \A h \in Adaptive!Halves : chosen[h] \in Adaptive!Codecs
                      /\ Adaptive!EncodeInto(src, chosen)
    <4> DEFINE codec(h) == IF config.policy = "fixed_int4" THEN 4
                           ELSE Adaptive!Choose(Adaptive!LargestOf(src[h], Adaptive!Indices), config.min_bits, config.max_bits)
    <4>1. \A h \in Adaptive!Halves : codec(h) \in Adaptive!Codecs
      BY ChooseIs DEF Adaptive!Codecs
    <4>2. Adaptive!EncodeInto(src, [h \in Adaptive!Halves |-> codec(h)])
      BY <2>1 DEF Adaptive!Encode
    <4> HIDE DEF codec
    <4> QED
      BY <4>1, <4>2
  <3>3. \A h \in Adaptive!Halves : Sized(src[h])
    BY <1>1, <2>1, InputSized
  <3> QED
    BY <1>1, <3>1, <3>2, <3>3, EncodeIntoIs DEF AdaptiveInv
<2>2. ASSUME Adaptive!EncodeNotFinite PROVE AdaptiveInv'
  BY <1>1, <2>2 DEF Adaptive!EncodeNotFinite, AdaptiveInv, Adaptive!NoPage
<2>3. ASSUME NEW codec \in Adaptive!Codecs, Adaptive!Recompress(codec) PROVE AdaptiveInv'
  <3>1. config' = config /\ page # Adaptive!NoPage
    BY <2>3 DEF Adaptive!Recompress
  <3>2. PICK before : /\ \A h \in Adaptive!Halves : before[h] \in Adaptive!Codecs /\ Sized(source[h])
                      /\ page = [h \in Adaptive!Halves |-> Adaptive!Pack(source[h], before[h])]
    BY <3>1 DEF AdaptiveInv
  <3> DEFINE src == [h \in Adaptive!Halves |-> Adaptive!DecodedHalf(page[h])]
             chosen == [h \in Adaptive!Halves |-> Adaptive!Choose(Adaptive!LargestOf(src[h], Adaptive!Indices), codec, codec)]
  <3>3. Adaptive!EncodeInto(src, chosen)
    BY <2>3 DEF Adaptive!Recompress
  <3>4. \A h \in Adaptive!Halves : chosen[h] \in Adaptive!Codecs
    BY ChooseIs
  <3>5. \A h \in Adaptive!Halves : Sized(src[h])
    BY <1>1, <3>2, PackKeeps
  <3> HIDE DEF src, chosen
  <3> QED
    BY <1>1, <3>1, <3>3, <3>4, <3>5, EncodeIntoIs DEF AdaptiveInv
<2> QED
  BY <1>3, <2>1, <2>2, <2>3 DEF AnyAdaptiveNext
<1> QED
  BY <1>2, <1>3

LEMMA AdaptiveIsFaithful == AdaptiveInv => PageFaithful
<1> SUFFICES ASSUME AdaptiveInv, part = "adaptive", page # Adaptive!NoPage,
                    NEW h \in Adaptive!Halves, NEW i \in Adaptive!Indices
             PROVE  2 * Adaptive!Magnitude(source[h][i] - Adaptive!Decoded(page[h], i)) * Adaptive!Qmax(page[h].codec)
                    <= IF page[h].codec = 16 THEN Unit ELSE Adaptive!LargestOf(source[h], Adaptive!BlockOf(i))
  BY DEF PageFaithful, Adaptive!PageFaithful
<1>1. PICK chosen : /\ \A g \in Adaptive!Halves : chosen[g] \in Adaptive!Codecs /\ Sized(source[g])
                    /\ page = [g \in Adaptive!Halves |-> Adaptive!Pack(source[g], chosen[g])]
  BY DEF AdaptiveInv
<1>2. PICK f, c : f = source[h] /\ c = chosen[h] /\ c \in Adaptive!Codecs /\ Sized(f)
  BY <1>1
<1>3. page[h] = Adaptive!Pack(f, c)
  BY <1>1, <1>2
<1>4. Adaptive!Pack(f, c).codec = c
  BY DEF Adaptive!Pack
<1>5. Blocks
  BY ConfigBlocks DEF AdaptiveInv
<1>6. 2 * Adaptive!Magnitude(f[i] - Adaptive!Decoded(Adaptive!Pack(f, c), i)) * Adaptive!Qmax(c)
      <= IF c = 16 THEN Unit ELSE Adaptive!LargestOf(f, Adaptive!BlockOf(i))
  BY <1>2, <1>5, PackFaithful
<1> QED
  BY ONLY <1>2, <1>3, <1>4, <1>6

\* A page decodes, half by half, to within half a step of what it was encoded
\* from, and a recompressed one to within half a step of what it decoded to, for
\* any values in range, any number of them, blocks of any length, any unit
\* and any choice of codecs: bytes that two or four values share keep them apart,
\* and the scale of a block survives recompression (cf_adaptive_encode,
\* cf_adaptive_decode, cf_adaptive_recompress).
THEOREM AnyPagesFaithful ==
  part = "adaptive" /\ Adaptive!AdaptiveInit /\ [][AnyAdaptiveNext]_<<part, adaptiveVars>> => []PageFaithful
<1>1. part = "adaptive" /\ Adaptive!AdaptiveInit => AdaptiveInv
  BY DEF AdaptiveInv, Adaptive!AdaptiveInit
<1> QED
  BY AdaptiveStep, AdaptiveIsFaithful, <1>1, PTL

\* The same of the values the runs encode (cf_adaptive_encode, cf_adaptive_decode).
THEOREM PagesFaithful == KernelsSpec => []PageFaithful
<1>1. AdaptiveInv /\ [KernelsNext]_kernelsVars => AdaptiveInv'
<2> SUFFICES ASSUME AdaptiveInv, [KernelsNext]_kernelsVars, part = "adaptive" PROVE AdaptiveInv'
  BY DEF AdaptiveInv, KernelsNext, kernelsVars
<2>1. CASE UNCHANGED kernelsVars
  BY <2>1, AdaptiveStep DEF kernelsVars
<2>2. CASE KernelsNext
  <3>1. part' = part /\ Adaptive!AdaptiveNext
    BY <2>2 DEF KernelsNext
  <3>2. AnyAdaptiveNext
    BY <3>1, InputsInRange DEF AnyAdaptiveNext, Adaptive!AdaptiveNext
  <3> QED
    BY <3>2, AdaptiveStep
<2> QED
  BY <2>1, <2>2
<1> QED
  BY AdaptiveStart, AdaptiveIsFaithful, <1>1, PTL DEF KernelsSpec
=============================================================================
