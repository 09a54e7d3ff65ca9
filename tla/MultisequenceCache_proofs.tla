---------------------- MODULE MultisequenceCache_proofs ----------------------
(***************************************************************************)
(* Theorems of MultisequenceCache: tails, generations and transactions,    *)
(* for any sequences, layers, page size and order of the calls.            *)
(***************************************************************************)
EXTENDS CacheBridge, FiniteSetTheorems, WellFoundedInduction, TLAPS

\* A nonempty set of naturals that do not exceed a bound has a largest member.
LEMMA LargestExists ==
  ASSUME NEW B \in Nat, NEW S, \A n \in S : n \in Nat /\ n <= B, S # {}
  PROVE  \E m \in S : \A n \in S : n <= m
<1> DEFINE T == {k \in Nat : B - k \in S}
<1>1. \A n \in S : B - n \in T
<2> TAKE n \in S
<2>1. n \in Nat /\ n <= B /\ B - n \in Nat /\ B - (B - n) = n
  OBVIOUS
<2> QED
  BY <2>1
<1>2. T \subseteq Nat /\ T # {}
  BY <1>1
<1>3. PICK x \in T : \A y \in T : ~ (<<y, x>> \in OpToRel(<, Nat))
  BY ONLY <1>2, NatLessThanWellFounded, WFMin
<1>4. \A y \in T : ~ (y < x)
  BY <1>2, <1>3 DEF OpToRel
<1>5. B - x \in S /\ x \in Nat
  BY <1>2
<1>6. ASSUME NEW n \in S PROVE n <= B - x
<2>1. B - n \in Nat /\ ~ (B - n < x) /\ n \in Nat
  BY <1>1, <1>2, <1>4
<2> QED
  BY <2>1, <1>5
<1> QED
  BY <1>5, <1>6

-----------------------------------------------------------------------------
(* The inductive invariant, sequence by sequence. *)

\* What holds of one sequence id, present or not: its tails fit, its generations lie
\* in its life, and a transaction belongs to a sequence that is there, with the length
\* one of the layers had when it began as its baseline.
SeqSound(s) ==
  /\ \A l \in Layers : tail[s][l].count <= PageSize
  /\ born[s] <= global
  /\ s \in present => born[s] <= topo[s] /\ topo[s] <= global
  /\ Speculating(s) => /\ s \in present
                       /\ born[s] <= spec[s].gen /\ spec[s].gen <= topo[s]
                       /\ spec[s].base <= PageSize
                       /\ \E l \in Layers : opened[s][l] = spec[s].base

IInv == TypeOK /\ \A s \in Seqs : SeqSound(s)

\* The types of what belongs to one sequence.
LEMMA SeqTypes ==
  ASSUME TypeOK, NEW s \in Seqs
  PROVE  /\ tail[s] \in [Layers -> [begin : Nat, count : Nat]]
         /\ \A l \in Layers : tail[s][l] \in [begin : Nat, count : Nat]
         /\ \A l \in Layers : tail[s][l].begin \in Nat /\ tail[s][l].count \in Nat
         /\ topo[s] \in Nat /\ born[s] \in Nat /\ opened[s] \in [Layers -> Nat]
         /\ spec[s] \in [id : Nat, base : Nat, gen : Nat]
         /\ spec[s].id \in Nat /\ spec[s].base \in Nat /\ spec[s].gen \in Nat
<1>1. \A l \in Layers : tail[s][l] \in [begin : Nat, count : Nat]
  BY DEF TypeOK
<1> QED
  BY <1>1 DEF TypeOK

\* A sequence that a step leaves alone stays sound when the global generation grows.
LEMMA OtherSound ==
  ASSUME TypeOK, NEW s \in Seqs, SeqSound(s), global' \in Nat, global' >= global,
         tail'[s] = tail[s], topo'[s] = topo[s], spec'[s] = spec[s],
         born'[s] = born[s], opened'[s] = opened[s], s \in present' <=> s \in present
  PROVE  SeqSound(s)'
<1>1. topo[s] \in Nat /\ born[s] \in Nat /\ global \in Nat
  BY SeqTypes DEF TypeOK
<1> QED
  BY <1>1 DEF SeqSound, Speculating

LEMMA Constants == PageSize \in Nat /\ NLayers \in Nat /\ 1 \in Layers /\ NoSpec \in [id : Nat, base : Nat, gen : Nat]
  BY CacheConstants DEF Layers, NoSpec

\* Speculation begins at the length of one of the layers, none of which is longer.
LEMMA LongestIsLength ==
  ASSUME IInv, NEW s \in Seqs
  PROVE  \E l \in Layers : Longest(s) = tail[s][l].count
<1> DEFINE S == {tail[s][l].count : l \in Layers}
<1>1. \A n \in S : n \in Nat /\ n <= PageSize
  BY SeqTypes DEF IInv, SeqSound
<1>2. S # {}
  BY Constants
<1>3. PICK m \in S : \A n \in S : n <= m
  <2> HIDE DEF S
  <2> QED
    BY <1>1, <1>2, Constants, LargestExists
<1>4. Longest(s) \in S
  BY <1>3 DEF Longest
<1> QED
  BY <1>4

\* A sequence object built anew: Create and Copy.
LEMMA BuildSound ==
  ASSUME IInv, NEW s \in Seqs, NEW t \in [Layers -> [begin : Nat, count : Nat]],
         \A l \in Layers : t[l].count <= PageSize, Build(s, t)
  PROVE  IInv'
<1> USE DEF Build, Advance
<1>1. TypeOK'
  BY Constants DEF IInv, TypeOK, NoLengths
<1>2. SeqSound(s)'
<2>1. tail'[s] = t /\ topo'[s] = global + 1 /\ born'[s] = global + 1 /\ spec'[s] = NoSpec /\ global \in Nat
  BY DEF IInv, TypeOK
<2> QED
  BY <2>1 DEF SeqSound, Speculating
<1>3. ASSUME NEW x \in Seqs, x # s PROVE SeqSound(x)'
<2>1. /\ tail'[x] = tail[x] /\ topo'[x] = topo[x] /\ born'[x] = born[x]
      /\ spec'[x] = spec[x] /\ opened'[x] = opened[x] /\ global \in Nat
  BY <1>3 DEF IInv, TypeOK
<2> QED
  BY <2>1, <1>3, OtherSound DEF IInv
<1> QED
  BY <1>1, <1>2, <1>3 DEF IInv

LEMMA CreateSound == ASSUME IInv, NEW s \in Seqs, Create(s) PROVE IInv'
<1>1. NoTail \in [Layers -> [begin : Nat, count : Nat]] /\ \A l \in Layers : NoTail[l].count <= PageSize
  BY Constants DEF NoTail, EmptyTail
<1> QED
  BY <1>1, BuildSound DEF Create

LEMMA CopySound ==
  ASSUME IInv, NEW a \in Seqs, NEW d \in Seqs, NEW b, NEW e, Copy(a, d, b, e)
  PROVE  IInv'
<1> DEFINE taken(t) == t.count > 0 /\ t.begin >= b /\ End(t) <= e
           t == [l \in Layers |-> IF taken(tail[a][l]) THEN tail[a][l] ELSE EmptyTail]
<1>1. EmptyTail \in [begin : Nat, count : Nat] /\ EmptyTail.count = 0
  BY DEF EmptyTail
<1>2. \A l \in Layers : tail[a][l] \in [begin : Nat, count : Nat] /\ tail[a][l].count <= PageSize
  BY SeqTypes DEF IInv, SeqSound
<1>3. \A l \in Layers : t[l] \in [begin : Nat, count : Nat] /\ t[l].count <= PageSize
  <2> HIDE DEF taken
  <2> QED
    BY <1>1, <1>2, Constants
<1>4. Build(d, t)
  BY DEF Copy
<1> HIDE DEF t
<1> QED
  BY <1>3, <1>4, BuildSound, t \in [Layers -> [begin : Nat, count : Nat]] DEF t

LEMMA RemoveAllSound == ASSUME IInv, NEW s \in Seqs, RemoveAll(s) PROVE IInv'
<1> USE DEF RemoveAll, Advance
<1>1. NoTail \in [Layers -> [begin : Nat, count : Nat]] /\ \A l \in Layers : NoTail[l].count <= PageSize
  BY Constants DEF NoTail, EmptyTail
<1>2. TypeOK'
  BY <1>1, Constants DEF IInv, TypeOK, NoLengths
<1>3. SeqSound(s)'
<2>1. tail'[s] = NoTail /\ born' = born /\ spec'[s] = NoSpec /\ s \notin present'
      /\ global' = global + 1 /\ global \in Nat /\ born[s] \in Nat /\ born[s] <= global
  BY DEF IInv, TypeOK, SeqSound
<2> QED
  BY <1>1, <2>1 DEF SeqSound, Speculating
<1>4. ASSUME NEW x \in Seqs, x # s PROVE SeqSound(x)'
<2>1. /\ tail'[x] = tail[x] /\ topo'[x] = topo[x] /\ born'[x] = born[x]
      /\ spec'[x] = spec[x] /\ opened'[x] = opened[x] /\ global \in Nat
  BY <1>4 DEF IInv, TypeOK
<2> QED
  BY <2>1, <1>4, OtherSound DEF IInv
<1> QED
  BY <1>2, <1>3, <1>4 DEF IInv

\* A step that gives the sequence s new tails that fit, keeps or ends its transaction,
\* and takes the next generation, keeps the present one, or goes back to the one the
\* transaction it ends began with.
LEMMA TailsSound ==
  ASSUME IInv, NEW s \in Seqs, s \in present,
         NEW t \in [Layers -> [begin : Nat, count : Nat]], \A l \in Layers : t[l].count <= PageSize,
         tail' = [tail EXCEPT ![s] = t], UNCHANGED <<present, nextSpec, born>>, ok' \in BOOLEAN,
         \/ UNCHANGED <<spec, opened>>
         \/ spec' = [spec EXCEPT ![s] = NoSpec] /\ opened' = [opened EXCEPT ![s] = NoLengths],
         \/ topo' = [topo EXCEPT ![s] = @ + 1] /\ global' = global + 1
         \/ UNCHANGED <<topo, global>>
         \/ /\ topo' = [topo EXCEPT ![s] = spec[s].gen] /\ global' = global + 1
            /\ Speculating(s) /\ spec' = [spec EXCEPT ![s] = NoSpec]
  PROVE  IInv'
<1>1. /\ topo[s] \in Nat /\ born[s] \in Nat /\ spec[s].gen \in Nat /\ global \in Nat
      /\ born[s] <= topo[s] /\ topo[s] <= global
      /\ Speculating(s) => born[s] <= spec[s].gen /\ spec[s].gen <= topo[s]
  BY SeqTypes DEF IInv, SeqSound, TypeOK
<1>2. TypeOK'
<2>1. tail' \in [Seqs -> [Layers -> [begin : Nat, count : Nat]]]
  BY DEF IInv, TypeOK
<2>2. global' \in Nat
  BY <1>1
<2>3. topo' \in [Seqs -> Nat]
<3>1. topo \in [Seqs -> Nat] /\ topo[s] + 1 \in Nat
  BY <1>1 DEF IInv, TypeOK
<3> QED
  BY <1>1, <3>1
<2>4. spec' \in [Seqs -> [id : Nat, base : Nat, gen : Nat]]
  BY Constants DEF IInv, TypeOK
<2>5. opened' \in [Seqs -> [Layers -> Nat]]
<3>1. opened \in [Seqs -> [Layers -> Nat]] /\ NoLengths \in [Layers -> Nat]
  BY DEF IInv, TypeOK, NoLengths
<3> QED
  BY <3>1
<2> QED
  BY <2>1, <2>2, <2>3, <2>4, <2>5 DEF IInv, TypeOK
<1>3. SeqSound(s)'
<2>1. tail'[s] = t /\ s \in present' /\ born'[s] = born[s]
  BY DEF IInv, TypeOK
<2>2. spec'[s] = NoSpec \/ (spec'[s] = spec[s] /\ opened'[s] = opened[s])
  BY DEF IInv, TypeOK
<2>3. /\ born[s] <= topo'[s] /\ topo'[s] <= global' /\ born[s] <= global'
      /\ topo[s] <= topo'[s] \/ spec'[s] = NoSpec
  BY <1>1 DEF IInv, TypeOK
<2>4. topo'[s] \in Nat /\ global' \in Nat
  BY <1>2 DEF TypeOK
<2>5. CASE spec'[s] = NoSpec
  BY <2>1, <2>3, <2>5 DEF SeqSound, Speculating
<2>6. CASE spec'[s] # NoSpec
  <3>1. spec'[s] = spec[s] /\ opened'[s] = opened[s] /\ Speculating(s) /\ topo[s] <= topo'[s]
    BY <2>2, <2>3, <2>6 DEF Speculating
  <3>2. spec[s].gen <= topo'[s] /\ born[s] <= spec[s].gen
    BY <1>1, <2>4, <3>1
  <3> QED
    BY <2>1, <2>3, <3>1, <3>2 DEF IInv, SeqSound, Speculating
<2> QED
  BY <2>5, <2>6
<1>4. ASSUME NEW x \in Seqs, x # s PROVE SeqSound(x)'
<2>1. /\ tail'[x] = tail[x] /\ topo'[x] = topo[x] /\ born'[x] = born[x]
      /\ spec'[x] = spec[x] /\ opened'[x] = opened[x]
  BY <1>4 DEF IInv, TypeOK
<2>2. global' \in Nat /\ global' >= global
  BY <1>1
<2> QED
  BY <2>1, <2>2, OtherSound DEF IInv
<1> QED
  BY <1>2, <1>3, <1>4 DEF IInv

\* What a range removal leaves of a tail is no longer than the tail.
LEMMA CutShortens ==
  ASSUME NEW t \in [begin : Nat, count : Nat], NEW b \in Nat, NEW e \in Nat
  PROVE  Cut(t, b, e) \in Nat /\ Cut(t, b, e) <= t.count
<1>1. t.begin \in Nat /\ t.count \in Nat
  OBVIOUS
<1> QED
  BY <1>1 DEF Cut, End

LEMMA RemoveRangeSound ==
  ASSUME IInv, NEW s \in Seqs, NEW b \in Nat, NEW e \in Nat, RemoveRange(s, b, e)
  PROVE  IInv' /\ (~ok' => \A x \in Seqs, l \in Layers : tail'[x][l].count <= tail[x][l].count)
<1> DEFINE bad == {l \in Layers : InnerCut(tail[s][l], b, e)}
           new == [l \in Layers |-> IF l \in Reached(bad)
                                    THEN [tail[s][l] EXCEPT !.count = Cut(tail[s][l], b, e)]
                                    ELSE tail[s][l]]
<1>1. /\ s \in present /\ tail' = [tail EXCEPT ![s] = new]
      /\ UNCHANGED <<present, nextSpec, born, spec, opened>> /\ ok' \in BOOLEAN
      /\ \/ topo' = [topo EXCEPT ![s] = @ + 1] /\ global' = global + 1
         \/ UNCHANGED <<topo, global>>
  BY DEF RemoveRange, Advance
<1>2. ASSUME NEW l \in Layers
      PROVE  new[l] \in [begin : Nat, count : Nat] /\ new[l].count <= tail[s][l].count /\ new[l].count <= PageSize
<2>1. tail[s][l] \in [begin : Nat, count : Nat] /\ tail[s][l].count <= PageSize
      /\ tail[s][l].begin \in Nat /\ tail[s][l].count \in Nat
  BY SeqTypes DEF IInv, SeqSound
<2>2. Cut(tail[s][l], b, e) \in Nat /\ Cut(tail[s][l], b, e) <= tail[s][l].count
  BY <2>1, CutShortens
<2>3. new[l] = tail[s][l] \/ new[l] = [tail[s][l] EXCEPT !.count = Cut(tail[s][l], b, e)]
  OBVIOUS
<2> HIDE DEF new
<2> QED
  BY <2>1, <2>2, <2>3, Constants
<1> HIDE DEF new
<1>3. new \in [Layers -> [begin : Nat, count : Nat]]
  BY <1>2 DEF new
<1>4. IInv'
  BY <1>1, <1>2, <1>3, TailsSound
<1>5. ASSUME NEW x \in Seqs, NEW l \in Layers PROVE tail'[x][l].count <= tail[x][l].count
<2>1. tail'[x] = IF x = s THEN new ELSE tail[x]
  BY <1>1 DEF IInv, TypeOK
<2>2. tail[x][l].count \in Nat
  BY SeqTypes DEF IInv
<2> QED
  BY <1>2, <2>1, <2>2
<1> QED
  BY <1>4, <1>5

LEMMA ShiftSound ==
  ASSUME IInv, NEW s \in Seqs, NEW b, NEW e, NEW delta \in Int, Shift(s, b, e, delta)
  PROVE  IInv' /\ \A x \in Seqs, l \in Layers : tail'[x][l].count <= tail[x][l].count
<1> DEFINE inside(t) == t.count > 0 /\ t.begin >= b /\ End(t) <= e
           moves == {l \in Layers : inside(tail[s][l])}
           bad == {l \in moves : tail[s][l].begin + delta < 0}
           new == [l \in Layers |-> IF l \in moves \cap Reached(bad)
                                    THEN [tail[s][l] EXCEPT !.begin = @ + delta] ELSE tail[s][l]]
<1>1. /\ s \in present /\ tail' = [tail EXCEPT ![s] = new]
      /\ UNCHANGED <<present, nextSpec, born, spec, opened>> /\ ok' \in BOOLEAN
      /\ \/ topo' = [topo EXCEPT ![s] = @ + 1] /\ global' = global + 1
         \/ UNCHANGED <<topo, global>>
  BY DEF Shift, Advance
<1>2. ASSUME NEW l \in Layers
      PROVE  new[l] \in [begin : Nat, count : Nat] /\ new[l].count = tail[s][l].count
<2>1. tail[s][l] \in [begin : Nat, count : Nat] /\ tail[s][l].begin \in Nat
  BY SeqTypes DEF IInv
<2>2. CASE l \in moves \cap Reached(bad)
<3>1. l \notin bad
  <4>1. \A k \in Layers : ~(k < k)
    BY DEF Layers
  <4> HIDE DEF bad
  <4> QED
    BY <2>2, <4>1 DEF Reached
<3>2. tail[s][l].begin + delta \in Nat
  <4> HIDE DEF inside
  <4> QED
    BY <2>1, <2>2, <3>1
<3>3. new[l] = [tail[s][l] EXCEPT !.begin = @ + delta]
  <4> HIDE DEF moves, bad
  <4> QED
    BY <2>2
<3> HIDE DEF new
<3> QED
  BY <2>1, <3>2, <3>3
<2>3. CASE l \notin moves \cap Reached(bad)
<3>1. new[l] = tail[s][l]
  <4> HIDE DEF moves, bad
  <4> QED
    BY <2>3
<3> QED
  BY <2>1, <3>1
<2> QED
  BY <2>2, <2>3
<1> HIDE DEF new
<1>3. new \in [Layers -> [begin : Nat, count : Nat]]
  BY <1>2 DEF new
<1>4. \A l \in Layers : new[l].count <= PageSize
  BY <1>2 DEF IInv, SeqSound
<1>5. IInv'
  BY <1>1, <1>3, <1>4, TailsSound
<1>6. ASSUME NEW x \in Seqs, NEW l \in Layers PROVE tail'[x][l].count <= tail[x][l].count
<2>1. tail'[x] = IF x = s THEN new ELSE tail[x]
  BY <1>1 DEF IInv, TypeOK
<2>2. tail[x][l].count \in Nat
  BY SeqTypes DEF IInv
<2> QED
  BY <1>2, <2>1, <2>2
<1> QED
  BY <1>5, <1>6

LEMMA AppendSound ==
  ASSUME IInv, NEW s \in Seqs, NEW l \in Layers, NEW b \in Nat, NEW n \in Nat, Append(s, l, b, n)
  PROVE  IInv'
<1> DEFINE u == [begin |-> IF tail[s][l].count = 0 THEN b ELSE tail[s][l].begin, count |-> tail[s][l].count + n]
           t == [tail[s] EXCEPT ![l] = u]
<1>1. /\ tail[s] \in [Layers -> [begin : Nat, count : Nat]] /\ tail[s][l].begin \in Nat /\ tail[s][l].count \in Nat
      /\ \A k \in Layers : tail[s][k].count <= PageSize
  BY SeqTypes DEF IInv, SeqSound
<1>2. u \in [begin : Nat, count : Nat] /\ u.count <= PageSize
  BY <1>1 DEF Append
<1>3. tail' = [tail EXCEPT ![s] = t]
  BY DEF Append, IInv, TypeOK
<1> HIDE DEF u
<1>4. t \in [Layers -> [begin : Nat, count : Nat]] /\ \A k \in Layers : t[k].count <= PageSize
  BY <1>1, <1>2
<1> HIDE DEF t
<1> QED
  BY <1>3, <1>4, TailsSound DEF Append, Advance

LEMMA SpeculationBeginSound == ASSUME IInv, NEW s \in Seqs, SpeculationBegin(s) PROVE IInv'
<1> DEFINE new == [id |-> nextSpec, base |-> Longest(s), gen |-> topo[s]]
<1>1. PICK l \in Layers : Longest(s) = tail[s][l].count
  BY LongestIsLength
<1>2. Longest(s) \in Nat /\ Longest(s) <= PageSize /\ Lengths(s) \in [Layers -> Nat] /\ Lengths(s)[l] = Longest(s)
  BY <1>1, SeqTypes DEF IInv, SeqSound, Lengths
<1>3. new \in [id : Nat, base : Nat, gen : Nat] /\ new.base = Longest(s) /\ new.gen = topo[s]
  BY <1>2 DEF IInv, TypeOK
<1> HIDE DEF new
<1>4. /\ s \in present /\ spec' = [spec EXCEPT ![s] = new] /\ opened' = [opened EXCEPT ![s] = Lengths(s)]
      /\ nextSpec' = nextSpec + 1 /\ ok' = TRUE /\ UNCHANGED <<present, tail, topo, global, born>>
  BY DEF SpeculationBegin, new
<1>5. TypeOK'
<2>1. opened' \in [Seqs -> [Layers -> Nat]]
  BY <1>2, <1>4 DEF IInv, TypeOK
<2>2. spec' \in [Seqs -> [id : Nat, base : Nat, gen : Nat]] /\ nextSpec' \in Nat \ {0}
  BY <1>3, <1>4 DEF IInv, TypeOK
<2> QED
  BY <1>4, <2>1, <2>2 DEF IInv, TypeOK
<1>6. SeqSound(s)'
<2>1. spec'[s] = new /\ opened'[s] = Lengths(s) /\ topo[s] \in Nat
  BY <1>4 DEF IInv, TypeOK
<2> QED
  BY <1>2, <1>3, <1>4, <2>1 DEF IInv, SeqSound, Speculating
<1>7. ASSUME NEW x \in Seqs, x # s PROVE SeqSound(x)'
<2>1. spec'[x] = spec[x] /\ opened'[x] = opened[x] /\ global' \in Nat /\ global' >= global
  BY <1>4, <1>7 DEF IInv, TypeOK
<2> QED
  BY <1>4, <2>1, OtherSound DEF IInv
<1> QED
  BY <1>5, <1>6, <1>7 DEF IInv

\* A commit trims the layers it reaches to the accepted length, which none is short of.
LEMMA CommitSound ==
  ASSUME IInv, NEW s \in Seqs, NEW id, NEW n \in Nat, SpeculationCommit(s, id, n)
  PROVE  /\ IInv'
         /\ \A x \in Seqs, l \in Layers : tail'[x][l].count <= tail[x][l].count
         /\ spec' # spec => \A l \in Layers : spec[s].base <= tail'[s][l].count
         /\ \A x \in Seqs : x # s => spec'[x] = spec[x]
<1> DEFINE bad == ShortLayers(s, n)
           top == spec[s].base + n
           new == [l \in Layers |-> IF l \in Reached(bad) THEN [tail[s][l] EXCEPT !.count = top] ELSE tail[s][l]]
<1>1. /\ s \in present /\ tail' = [tail EXCEPT ![s] = new] /\ UNCHANGED <<present, nextSpec, born>>
      /\ ok' \in BOOLEAN
      /\ \/ /\ bad = {} /\ topo' = [topo EXCEPT ![s] = @ + 1] /\ global' = global + 1
            /\ spec' = [spec EXCEPT ![s] = NoSpec] /\ opened' = [opened EXCEPT ![s] = NoLengths]
         \/ UNCHANGED <<topo, global, spec, opened>>
  BY DEF SpeculationCommit, Handle, Advance
<1>2. top \in Nat /\ spec[s].base \in Nat /\ spec[s].base <= top
  BY SeqTypes DEF IInv
<1> HIDE DEF top
<1>3. ASSUME NEW l \in Layers
      PROVE  /\ new[l] \in [begin : Nat, count : Nat] /\ new[l].count <= tail[s][l].count
             /\ l \in Reached(bad) => new[l].count = top
<2>1. tail[s][l] \in [begin : Nat, count : Nat] /\ tail[s][l].count \in Nat
  BY SeqTypes DEF IInv
<2>2. CASE l \in Reached(bad)
<3>1. l \notin bad
  <4>1. \A k \in Layers : ~(k < k)
    BY DEF Layers
  <4> HIDE DEF bad
  <4> QED
    BY <2>2, <4>1 DEF Reached
<3>2. top <= tail[s][l].count
  BY <1>2, <2>1, <3>1 DEF ShortLayers, top
<3>3. new[l] = [tail[s][l] EXCEPT !.count = top]
  <4> HIDE DEF bad
  <4> QED
    BY <2>2
<3> HIDE DEF new
<3> QED
  BY <1>2, <2>1, <3>2, <3>3
<2>3. CASE l \notin Reached(bad)
  BY <2>1, <2>3
<2> QED
  BY <2>2, <2>3
<1> HIDE DEF new
<1>4. new \in [Layers -> [begin : Nat, count : Nat]]
  BY <1>3 DEF new
<1>5. \A l \in Layers : new[l].count <= PageSize
<2> TAKE l \in Layers
<2>1. tail[s][l].count <= PageSize /\ tail[s][l].count \in Nat
  BY SeqTypes DEF IInv, SeqSound
<2>2. new[l].count <= tail[s][l].count /\ new[l].count \in Nat
  BY <1>3
<2> QED
  BY <2>1, <2>2, Constants
<1>6. IInv'
  BY <1>1, <1>4, <1>5, TailsSound
<1>7. ASSUME NEW x \in Seqs, NEW l \in Layers PROVE tail'[x][l].count <= tail[x][l].count
<2>1. tail'[x] = IF x = s THEN new ELSE tail[x]
  BY <1>1 DEF IInv, TypeOK
<2>2. tail[x][l].count \in Nat
  BY SeqTypes DEF IInv
<2> QED
  BY <1>3, <2>1, <2>2
<1>8. ASSUME spec' # spec, NEW l \in Layers PROVE spec[s].base <= tail'[s][l].count
<2>1. bad = {}
  BY <1>1, <1>8
<2>2. l \in Reached(bad)
  BY <2>1 DEF Reached
<2>3. tail'[s] = new
  BY <1>1 DEF IInv, TypeOK
<2> QED
  BY <1>2, <1>3, <2>2, <2>3
<1>9. \A x \in Seqs : x # s => spec'[x] = spec[x]
  BY <1>1 DEF IInv, TypeOK
<1> QED
  BY <1>6, <1>7, <1>8, <1>9

\* A rollback gives every layer the baseline, the length of one of them when the
\* transaction began, and the sequence the generation it began with.
LEMMA RollbackSound ==
  ASSUME IInv, NEW s \in Seqs, NEW id, SpeculationRollback(s, id)
  PROVE  /\ IInv'
         /\ Speculating(s) /\ topo'[s] <= topo[s] /\ topo[s] \in Nat /\ topo'[s] \in Nat
         /\ \A x \in Seqs : x # s => spec'[x] = spec[x]
         /\ \A l \in Layers : tail'[s][l].count = spec[s].base
         /\ \E m \in Layers : opened[s][m] = spec[s].base
<1> DEFINE new == [l \in Layers |-> [tail[s][l] EXCEPT !.count = spec[s].base]]
<1>1. /\ s \in present /\ tail' = [tail EXCEPT ![s] = new] /\ UNCHANGED <<present, nextSpec, born>>
      /\ ok' \in BOOLEAN /\ topo' = [topo EXCEPT ![s] = spec[s].gen] /\ global' = global + 1
      /\ spec' = [spec EXCEPT ![s] = NoSpec] /\ opened' = [opened EXCEPT ![s] = NoLengths]
  BY DEF SpeculationRollback, Handle, Advance, IInv, TypeOK
<1>2. Speculating(s)
  BY DEF SpeculationRollback, Handle, Speculating, NoSpec
<1>3. /\ spec[s].base \in Nat /\ spec[s].base <= PageSize /\ topo[s] \in Nat /\ spec[s].gen \in Nat
      /\ spec[s].gen <= topo[s] /\ \E m \in Layers : opened[s][m] = spec[s].base
  BY <1>2, SeqTypes DEF IInv, SeqSound
<1>4. ASSUME NEW l \in Layers PROVE new[l] \in [begin : Nat, count : Nat] /\ new[l].count = spec[s].base
<2>1. tail[s][l] \in [begin : Nat, count : Nat] /\ new[l] = [tail[s][l] EXCEPT !.count = spec[s].base]
  BY SeqTypes DEF IInv
<2> HIDE DEF new
<2> QED
  BY <1>3, <2>1
<1> HIDE DEF new
<1>5. new \in [Layers -> [begin : Nat, count : Nat]] /\ \A l \in Layers : new[l].count <= PageSize
  BY <1>3, <1>4 DEF new
<1>6. IInv'
  BY <1>1, <1>2, <1>5, TailsSound
<1>7. tail'[s] = new /\ topo'[s] = spec[s].gen /\ \A x \in Seqs : x # s => spec'[x] = spec[x]
  BY <1>1 DEF IInv, TypeOK
<1> QED
  BY <1>2, <1>3, <1>4, <1>6, <1>7

-----------------------------------------------------------------------------
(* The theorems. *)

LEMMA InitSound == Init => IInv
<1> SUFFICES ASSUME Init PROVE IInv
  OBVIOUS
<1>1. NoTail \in [Layers -> [begin : Nat, count : Nat]] /\ \A l \in Layers : NoTail[l].count <= PageSize
  BY Constants DEF NoTail, EmptyTail
<1>2. TypeOK
  BY <1>1, Constants DEF Init, TypeOK, NoLengths
<1>3. ASSUME NEW s \in Seqs PROVE SeqSound(s)
  BY <1>1 DEF Init, SeqSound, Speculating
<1> QED
  BY <1>2, <1>3 DEF IInv

LEMMA StepSound == IInv /\ [Next]_vars => IInv'
<1> SUFFICES ASSUME IInv, [Next]_vars PROVE IInv'
  OBVIOUS
<1>1. ASSUME NEW s \in Seqs, Create(s) PROVE IInv'
  BY <1>1, CreateSound
<1>2. ASSUME NEW x \in Seqs, NEW d \in Seqs, NEW b \in Positions, NEW e \in Positions, Copy(x, d, b, e) PROVE IInv'
  BY <1>2, CopySound
<1>3. ASSUME NEW s \in Seqs, RemoveAll(s) PROVE IInv'
  BY <1>3, RemoveAllSound
<1>4. ASSUME NEW s \in Seqs, NEW b \in Positions, NEW e \in Positions, RemoveRange(s, b, e) PROVE IInv'
  BY <1>4, RemoveRangeSound DEF Positions
<1>5. ASSUME NEW s \in Seqs, NEW b \in Positions, NEW e \in Positions, NEW delta \in Deltas, Shift(s, b, e, delta)
      PROVE IInv'
  BY <1>5, ShiftSound, CacheConstants
<1>6. ASSUME NEW s \in Seqs, NEW l \in Layers, NEW b \in Positions, NEW n \in 1 .. PageSize, Append(s, l, b, n)
      PROVE IInv'
  BY <1>6, AppendSound DEF Positions
<1>7. ASSUME NEW s \in Seqs, SpeculationBegin(s) PROVE IInv'
  BY <1>7, SpeculationBeginSound
<1>8. ASSUME NEW s \in Seqs, NEW id \in Ids, NEW n \in 0 .. PageSize, SpeculationCommit(s, id, n) PROVE IInv'
  BY <1>8, CommitSound
<1>9. ASSUME NEW s \in Seqs, NEW id \in Ids, SpeculationRollback(s, id) PROVE IInv'
  BY <1>9, RollbackSound
<1>10. CASE UNCHANGED vars
  BY <1>10 DEF IInv, TypeOK, SeqSound, Speculating, vars
<1> QED
  BY <1>1, <1>2, <1>3, <1>4, <1>5, <1>6, <1>7, <1>8, <1>9, <1>10 DEF Next

LEMMA InvariantHolds == Spec => []IInv
  BY InitSound, StepSound, PTL DEF Spec

\* No order of the calls, whichever of them fail half-way, leaves a tail longer than
\* its page or a transaction that outlives the sequence object it began on.
THEOREM TransactionsInLife == Spec => []CacheSound
<1>1. IInv => CacheSound
<2> SUFFICES ASSUME IInv PROVE CacheSound
  OBVIOUS
<2>1. TypeOK /\ \A s \in Seqs : SeqSound(s)
  BY DEF IInv
<2>2. TailFits
  BY <2>1 DEF SeqSound, TailFits
<2>3. GenerationInLife
<3>1. present \subseteq Seqs
  BY <2>1 DEF TypeOK
<3> QED
  BY <2>1, <3>1 DEF SeqSound, GenerationInLife
<2> QED
  BY <2>1, <2>2, <2>3 DEF CacheSound
<1> QED
  BY <1>1, InvariantHolds, PTL

\* A step in which the transaction of s ends, the object under s is the same, and its
\* generation grows is a commit.
LEMMA OnlyCommitsEnd ==
  ASSUME IInv, Next, NEW s \in Seqs, Speculating(s), topo'[s] > topo[s], spec'[s] # spec[s],
         born'[s] = born[s], s \in present'
  PROVE  \A l \in Layers : spec[s].base <= tail'[s][l].count /\ tail'[s][l].count <= tail[s][l].count
<1>1. /\ born[s] \in Nat /\ global \in Nat /\ born[s] <= global
      /\ spec \in [Seqs -> [id : Nat, base : Nat, gen : Nat]] /\ born \in [Seqs -> Nat]
  BY DEF IInv, SeqSound, TypeOK
<1>2. ASSUME NEW d \in Seqs, NEW t, Build(d, t) PROVE FALSE
<2>1. d = s
  BY <1>1, <1>2 DEF Build
<2>2. born'[s] = global + 1
  BY <1>1, <1>2, <2>1 DEF Build
<2> QED
  BY <1>1, <2>2
<1>3. ASSUME NEW x \in Seqs, RemoveAll(x) PROVE FALSE
  BY <1>1, <1>3 DEF RemoveAll
<1>4. ASSUME NEW x \in Seqs, SpeculationBegin(x) PROVE FALSE
  BY <1>1, <1>4 DEF SpeculationBegin
<1>5. ASSUME NEW x \in Seqs, NEW id \in Ids, SpeculationRollback(x, id) PROVE FALSE
<2>1. x = s
  BY <1>5, RollbackSound
<2> QED
  BY <1>5, <2>1, RollbackSound
<1>6. ASSUME NEW x \in Seqs, NEW id \in Ids, NEW n \in 0 .. PageSize, SpeculationCommit(x, id, n)
      PROVE \A l \in Layers : spec[s].base <= tail'[s][l].count /\ tail'[s][l].count <= tail[s][l].count
<2>1. x = s
  BY <1>6, CommitSound
<2> QED
  BY <1>6, <2>1, CommitSound
<1>7. spec' # spec
  OBVIOUS
<1>8. ASSUME NEW x \in Seqs, NEW b, NEW e, NEW delta, NEW l, NEW n,
             RemoveRange(x, b, e) \/ Shift(x, b, e, delta) \/ Append(x, l, b, n)
      PROVE FALSE
  BY <1>7, <1>8 DEF RemoveRange, Shift, Append
<1> QED
  BY <1>2, <1>3, <1>4, <1>5, <1>6, <1>8 DEF Next, Create, Copy

\* A walk that throws at a layer of Bad reaches neither that layer nor a later one.
LEMMA Unreached ==
  ASSUME NEW Bad, Bad \subseteq Layers, NEW f \in Bad, NEW l \in Layers, l >= f
  PROVE  l \notin Reached(Bad)
<1>1. ~(l < f)
  BY DEF Layers
<1> QED
  BY <1>1 DEF Reached

RemovalLeaves(s) == \A l \in Layers : CutShort(tail[s][l], tail'[s][l])
ShiftLeaves(s) == \E delta \in Deltas : \A l \in Layers : Moved(tail[s][l], tail'[s][l], delta)

\* What a failing call of s leaves, from the tails t it gives s.
LEMMA FailureSound ==
  ASSUME IInv, NEW s \in Seqs, NEW t, tail' = [tail EXCEPT ![s] = t],
         NEW Bad, Bad \subseteq Layers, Bad # {},
         \A l \in Layers : l \notin Reached(Bad) => t[l] = tail[s][l],
         UNCHANGED <<present, topo, spec>>,
         RemovalLeaves(s) \/ ShiftLeaves(s)
  PROVE  FailureStopsAtLayer
<1>1. PICK f \in Bad : TRUE
  OBVIOUS
<1>2. tail'[s] = t /\ \A q \in Seqs \ {s} : tail'[q] = tail[q]
  BY DEF IInv, TypeOK
<1>3. \A l \in Layers : l >= f => tail'[s][l] = tail[s][l]
  BY <1>2, Unreached
<1> QED
  BY <1>2, <1>3 DEF FailureStopsAtLayer, RemovalLeaves, ShiftLeaves

LEMMA RemovalFails ==
  ASSUME IInv, NEW s \in Seqs, NEW b \in Nat, NEW e \in Nat, RemoveRange(s, b, e), ~ok'
  PROVE  FailureStopsAtLayer
<1> DEFINE bad == {l \in Layers : InnerCut(tail[s][l], b, e)}
           new == [l \in Layers |-> IF l \in Reached(bad)
                                    THEN [tail[s][l] EXCEPT !.count = Cut(tail[s][l], b, e)]
                                    ELSE tail[s][l]]
<1>1. tail' = [tail EXCEPT ![s] = new] /\ bad # {} /\ UNCHANGED <<present, topo, spec>>
  BY DEF RemoveRange, Advance
<1>2. bad \subseteq Layers /\ \A l \in Layers : l \notin Reached(bad) => new[l] = tail[s][l]
  OBVIOUS
<1>3. RemovalLeaves(s)
<2> SUFFICES ASSUME NEW l \in Layers PROVE CutShort(tail[s][l], tail'[s][l])
  BY DEF RemovalLeaves
<2>1. tail[s][l] \in [begin : Nat, count : Nat]
  BY SeqTypes DEF IInv
<2>2. Cut(tail[s][l], b, e) \in Nat /\ Cut(tail[s][l], b, e) <= tail[s][l].count
  BY <2>1, CutShortens
<2>3. tail'[s][l] = new[l]
  BY <1>1 DEF IInv, TypeOK
<2>4. new[l] = tail[s][l] \/ new[l] = [tail[s][l] EXCEPT !.count = Cut(tail[s][l], b, e)]
  OBVIOUS
<2> HIDE DEF new
<2> QED
  BY <2>1, <2>2, <2>3, <2>4 DEF CutShort
<1> HIDE DEF new, bad
<1> QED
  BY <1>1, <1>2, <1>3, FailureSound

LEMMA ShiftFails ==
  ASSUME IInv, NEW s \in Seqs, NEW b, NEW e, NEW delta \in Deltas, Shift(s, b, e, delta), ~ok'
  PROVE  FailureStopsAtLayer
<1> DEFINE inside(t) == t.count > 0 /\ t.begin >= b /\ End(t) <= e
           moves == {l \in Layers : inside(tail[s][l])}
           bad == {l \in moves : tail[s][l].begin + delta < 0}
           new == [l \in Layers |-> IF l \in moves \cap Reached(bad)
                                    THEN [tail[s][l] EXCEPT !.begin = @ + delta] ELSE tail[s][l]]
<1>1. tail' = [tail EXCEPT ![s] = new] /\ bad # {} /\ UNCHANGED <<present, topo, spec>>
  BY DEF Shift, Advance
<1>2. bad \subseteq Layers /\ \A l \in Layers : l \notin Reached(bad) => new[l] = tail[s][l]
<2>1. bad \subseteq Layers
  OBVIOUS
<2> HIDE DEF moves, bad
<2> QED
  BY <2>1
<1>3. ShiftLeaves(s)
<2> SUFFICES ASSUME NEW l \in Layers PROVE Moved(tail[s][l], tail'[s][l], delta)
  BY DEF ShiftLeaves
<2>1. tail[s][l] \in [begin : Nat, count : Nat]
  BY SeqTypes DEF IInv
<2>2. tail'[s][l] = new[l]
  BY <1>1 DEF IInv, TypeOK
<2>3. new[l] = tail[s][l] \/ new[l] = [tail[s][l] EXCEPT !.begin = @ + delta]
  <3> HIDE DEF moves, bad
  <3> QED
    OBVIOUS
<2> HIDE DEF new
<2> QED
  BY <2>1, <2>2, <2>3 DEF Moved
<1> HIDE DEF new, bad
<1> QED
  BY <1>1, <1>2, <1>3, FailureSound

LEMMA CommitFails ==
  ASSUME IInv, NEW s \in Seqs, NEW id, NEW n \in Nat, SpeculationCommit(s, id, n), ~ok'
  PROVE  FailureStopsAtLayer
<1> DEFINE bad == ShortLayers(s, n)
           new == [l \in Layers |-> IF l \in Reached(bad)
                                    THEN [tail[s][l] EXCEPT !.count = spec[s].base + n]
                                    ELSE tail[s][l]]
<1>1. tail' = [tail EXCEPT ![s] = new] /\ bad # {} /\ UNCHANGED <<present, topo, spec>>
  BY DEF SpeculationCommit, Advance
<1>2. bad \subseteq Layers /\ \A l \in Layers : l \notin Reached(bad) => new[l] = tail[s][l]
<2>1. bad \subseteq Layers
  BY DEF ShortLayers
<2> HIDE DEF bad
<2> QED
  BY <2>1
<1>3. RemovalLeaves(s)
<2> SUFFICES ASSUME NEW l \in Layers PROVE CutShort(tail[s][l], tail'[s][l])
  BY DEF RemovalLeaves
<2>1. tail[s][l] \in [begin : Nat, count : Nat] /\ tail'[s][l].count <= tail[s][l].count
  BY SeqTypes, CommitSound DEF IInv
<2>2. tail'[s][l] = new[l]
  BY <1>1 DEF IInv, TypeOK
<2>3. new[l] = tail[s][l] \/ new[l] = [tail[s][l] EXCEPT !.count = spec[s].base + n]
  <3> HIDE DEF bad
  <3> QED
    OBVIOUS
<2> HIDE DEF new
<2> QED
  BY <2>1, <2>2, <2>3 DEF CutShort
<1> HIDE DEF new, bad
<1> QED
  BY <1>1, <1>2, <1>3, FailureSound

\* A call that fails after it has changed some layers leaves the others alone.
LEMMA FailuresStop == ASSUME IInv, Next PROVE FailureStopsAtLayer
<1> SUFFICES ASSUME ~ok' PROVE FailureStopsAtLayer
  BY DEF FailureStopsAtLayer
<1>1. ASSUME NEW s \in Seqs, NEW b \in Positions, NEW e \in Positions, RemoveRange(s, b, e)
      PROVE  FailureStopsAtLayer
  BY <1>1, RemovalFails DEF Positions
<1>2. ASSUME NEW s \in Seqs, NEW b \in Positions, NEW e \in Positions, NEW delta \in Deltas, Shift(s, b, e, delta)
      PROVE  FailureStopsAtLayer
  BY <1>2, ShiftFails
<1>3. ASSUME NEW s \in Seqs, NEW id \in Ids, NEW n \in 0 .. PageSize, SpeculationCommit(s, id, n)
      PROVE  FailureStopsAtLayer
  BY <1>3, CommitFails
<1>4. ASSUME NEW s, NEW d, NEW b, NEW e, NEW l, NEW n, NEW id,
             \/ Create(s) \/ Copy(s, d, b, e) \/ RemoveAll(s) \/ Append(s, l, b, n)
             \/ SpeculationBegin(s) \/ SpeculationRollback(s, id)
      PROVE FALSE
  BY <1>4 DEF Create, Copy, Build, RemoveAll, Append, SpeculationBegin, SpeculationRollback, Advance
<1> QED
  BY <1>1, <1>2, <1>3, <1>4 DEF Next

\* Commits keep an accepted prefix of every layer, and a failing call changes only the
\* layers before the one it fails at, by cutting their tails short or by moving them
\* its one distance: for any layers, page size, shifts and order of the calls.
THEOREM TokensKept == Spec => StepsKeepTokens
<1>1. ASSUME IInv, [Next]_vars PROVE [CommitKeepsPrefix /\ FailureStopsAtLayer]_vars
<2>1. CASE Next
<3>1. CommitKeepsPrefix
  BY <1>1, <2>1, OnlyCommitsEnd DEF CommitKeepsPrefix
<3> QED
  BY <1>1, <2>1, <3>1, FailuresStop
<2>2. CASE UNCHANGED vars
  BY <2>2
<2> QED
  BY <1>1, <2>1, <2>2
<1> QED
  BY <1>1, InvariantHolds, PTL DEF Spec, StepsKeepTokens

\* When the layers had one length as the speculation began, a rollback restores it:
\* the baseline is the length of one of them.
THEOREM LengthsRestored == Spec => RollbackRestoresLength
<1> DEFINE Restores == \A s \in Seqs, id \in Ids :
             SpeculationRollback(s, id) /\ (\A l, m \in Layers : opened[s][l] = opened[s][m])
               => \A l \in Layers : tail'[s][l].count = opened[s][l]
<1>1. ASSUME IInv PROVE Restores
<2> SUFFICES ASSUME NEW s \in Seqs, NEW id \in Ids, SpeculationRollback(s, id),
                    \A l, m \in Layers : opened[s][l] = opened[s][m], NEW l \in Layers
             PROVE  tail'[s][l].count = opened[s][l]
  OBVIOUS
<2>1. PICK m \in Layers : opened[s][m] = spec[s].base
  BY <1>1, RollbackSound
<2>2. tail'[s][l].count = spec[s].base
  BY <1>1, RollbackSound
<2> QED
  BY <2>1, <2>2
<1>2. IInv => [Restores]_vars
  BY <1>1
<1> HIDE DEF Restores
<1>3. Spec => [][Restores]_vars
  BY <1>2, InvariantHolds, PTL DEF Spec
<1> QED
  BY <1>3 DEF Restores, RollbackRestoresLength

-----------------------------------------------------------------------------
(* The slots of the llama-server bridge: ServerSlots, for any slots and sequences. *)

\* No object is newer than the last one built, and no two slots were given the same.
LivesBuilt == /\ \A k \in SlotIds : bound[k] <= lives
              /\ \A s \in SlotSeqs : cache[s] <= lives
GivenOnce == \A k, m \in SlotIds : bound[k] = bound[m] /\ bound[k] # 0 => k = m
\* A slot that is not loose has the object it was given under its id.
SlotsCurrent == \A k \in Server!Mapped \ loose : bound[k] = cache[slots[k]]

SlotsInv == Server!TypeOK /\ LivesBuilt /\ GivenOnce /\ SlotsCurrent

\* What a slot that is mapped holds.
LEMMA MappedSlots ==
  ASSUME SlotsInv, NEW k \in SlotIds
  PROVE  /\ bound[k] \in Nat /\ bound[k] <= lives /\ lives \in Nat
         /\ slots[k] # Server!None <=> bound[k] # 0
         /\ slots[k] # Server!None => /\ slots[k] \in SlotSeqs /\ cache[slots[k]] \in Nat
                                      /\ k \notin loose => bound[k] = cache[slots[k]]
  BY DEF SlotsInv, LivesBuilt, Server!TypeOK, Server!Mapped, SlotsCurrent

\* The slots that name a sequence, and those that are mapped, one by one.
LEMMA EachNamer ==
  /\ \A s, k : k \in Server!Namers(s) <=> k \in SlotIds /\ slots[k] # Server!None /\ slots[k] = s
  /\ \A k : k \in Server!Mapped <=> k \in SlotIds /\ slots[k] # Server!None
  BY DEF Server!Namers, Server!Mapped

LEMMA SlotCreateSound ==
  ASSUME SlotsInv, MaxLives \in Nat, Server!None \notin SlotSeqs,
         NEW k \in SlotIds, NEW s \in SlotSeqs, Server!SlotCreate(k, s)
  PROVE  SlotsInv'
<1>1. /\ slots[k] = Server!None /\ cache[s] = 0 /\ lives < MaxLives /\ lives \in Nat
      /\ slots' = [slots EXCEPT ![k] = s] /\ cache' = [cache EXCEPT ![s] = lives + 1]
      /\ bound' = [bound EXCEPT ![k] = lives + 1] /\ lives' = lives + 1 /\ loose' = loose
  BY DEF Server!SlotCreate, Server!Exists, SlotsInv, Server!TypeOK
<1>2. Server!TypeOK' /\ LivesBuilt'
  BY <1>1 DEF SlotsInv, LivesBuilt, Server!TypeOK, Server!Mapped
<1>3. GivenOnce'
  BY <1>1 DEF SlotsInv, LivesBuilt, GivenOnce, Server!TypeOK
<1>4. SlotsCurrent'
<2> SUFFICES ASSUME NEW m \in SlotIds, slots'[m] # Server!None, m \notin loose'
             PROVE  bound'[m] = cache'[slots'[m]]
  BY DEF SlotsCurrent, Server!Mapped
<2>1. CASE m = k
  BY <1>1, <2>1 DEF SlotsInv, Server!TypeOK
<2>2. CASE m # k
  \* No slot of s is left: it would have been given an object, and s has none.
  BY <1>1, <2>2, MappedSlots DEF SlotsInv, Server!TypeOK
<2> QED
  BY <2>1, <2>2
<1> QED
  BY <1>2, <1>3, <1>4 DEF SlotsInv

LEMMA SlotResetSound ==
  ASSUME SlotsInv, MaxLives \in Nat, Server!None \notin SlotSeqs, NEW k \in SlotIds,
         Server!SlotReset(k)
  PROVE  SlotsInv'
<1>1. /\ slots[k] # Server!None /\ slots[k] \in SlotSeqs
      /\ slots' = [slots EXCEPT ![k] = Server!None] /\ cache' = [cache EXCEPT ![slots[k]] = 0]
      /\ bound' = [bound EXCEPT ![k] = 0] /\ lives' = lives
      /\ loose' = (loose \cup Server!Namers(slots[k])) \ {k}
  BY MappedSlots DEF Server!SlotReset, Server!Mapped
<1>2. Server!TypeOK'
<2>1. /\ slots' \in [SlotIds -> SlotSeqs \cup {Server!None}] /\ cache' \in [SlotSeqs -> 0 .. MaxLives]
      /\ bound' \in [SlotIds -> 0 .. MaxLives] /\ lives' \in 0 .. MaxLives
  BY <1>1 DEF SlotsInv, Server!TypeOK
<2>2. \A m \in SlotIds : slots'[m] # Server!None <=> bound'[m] # 0
  BY <1>1, MappedSlots DEF SlotsInv, Server!TypeOK
<2>3. \A m \in loose' : m \in SlotIds /\ slots'[m] # Server!None
<3> SUFFICES ASSUME NEW m \in loose' PROVE m \in SlotIds /\ slots'[m] # Server!None
  OBVIOUS
<3>1. m # k /\ m \in SlotIds /\ slots[m] # Server!None
  BY <1>1, EachNamer DEF SlotsInv, Server!TypeOK
<3> QED
  BY <1>1, <3>1 DEF SlotsInv, Server!TypeOK
<2> QED
  BY <2>1, <2>2, <2>3 DEF Server!TypeOK, Server!Mapped
<1>3. LivesBuilt'
  BY <1>1 DEF SlotsInv, LivesBuilt, Server!TypeOK
<1>4. GivenOnce'
  BY <1>1 DEF SlotsInv, GivenOnce, Server!TypeOK
<1>5. SlotsCurrent'
<2> SUFFICES ASSUME NEW m \in SlotIds, slots'[m] # Server!None, m \notin loose'
             PROVE  bound'[m] = cache'[slots'[m]]
  BY DEF SlotsCurrent, Server!Mapped
<2>1. m # k /\ slots'[m] = slots[m] /\ bound'[m] = bound[m] /\ slots[m] # Server!None
  BY <1>1 DEF SlotsInv, Server!TypeOK
<2>2. m \notin loose /\ slots[m] # slots[k]
  \* The reset of k makes every slot on its id loose.
  BY <1>1, <2>1, EachNamer
<2> QED
  BY <1>1, <2>1, <2>2, MappedSlots DEF SlotsInv, Server!TypeOK
<1> QED
  BY <1>2, <1>3, <1>4, <1>5 DEF SlotsInv

\* A copy and a plain removal change objects under their slots, and say so.
LEMMA LooseSound ==
  ASSUME SlotsInv, NEW s \in SlotSeqs, NEW life \in 0 .. MaxLives, NEW n \in 0 .. MaxLives,
         life <= n, lives <= n, UNCHANGED <<slots, bound>>,
         cache' = [cache EXCEPT ![s] = life], lives' = n, loose' = loose \cup Server!Namers(s)
  PROVE  SlotsInv'
<1>1. Server!TypeOK'
<2>1. loose' \subseteq Server!Mapped /\ Server!Mapped' = Server!Mapped
  BY EachNamer DEF SlotsInv, Server!TypeOK, Server!Mapped
<2> QED
  BY <2>1 DEF SlotsInv, Server!TypeOK
<1>2. LivesBuilt' /\ GivenOnce'
  BY DEF SlotsInv, LivesBuilt, GivenOnce, Server!TypeOK
<1>3. SlotsCurrent'
<2> SUFFICES ASSUME NEW m \in SlotIds, slots[m] # Server!None, m \notin loose'
             PROVE  bound[m] = cache'[slots[m]]
  BY DEF SlotsCurrent, Server!Mapped
<2>1. m \notin loose /\ slots[m] # s
  BY EachNamer
<2> QED
  BY <2>1, MappedSlots DEF SlotsInv, Server!TypeOK
<1> QED
  BY <1>1, <1>2, <1>3 DEF SlotsInv

LEMMA CancelSound ==
  ASSUME SlotsInv, MaxLives \in Nat, NEW s \in SlotSeqs, Server!CancelSequence(s)
  PROVE  SlotsInv'
<1> USE DEF Server!CancelSequence
<1>1. Server!TypeOK'
<2>1. \A k \in SlotIds : /\ slots'[k] \in SlotSeqs \cup {Server!None} /\ bound'[k] \in 0 .. MaxLives
                         /\ slots'[k] # Server!None <=> bound'[k] # 0
  BY MappedSlots DEF SlotsInv, Server!TypeOK
<2>2. \A m \in loose' : m \in SlotIds /\ slots'[m] # Server!None
  BY EachNamer DEF SlotsInv, Server!TypeOK
<2>3. cache' \in [SlotSeqs -> 0 .. MaxLives] /\ lives' \in 0 .. MaxLives
  BY DEF SlotsInv, Server!TypeOK
<2>4. slots' \in [SlotIds -> SlotSeqs \cup {Server!None}] /\ bound' \in [SlotIds -> 0 .. MaxLives]
  BY <2>1
<2> QED
  BY <2>1, <2>2, <2>3, <2>4 DEF Server!TypeOK, Server!Mapped
<1>2. LivesBuilt' /\ GivenOnce'
  BY DEF SlotsInv, LivesBuilt, GivenOnce, Server!TypeOK
<1>3. SlotsCurrent'
<2> SUFFICES ASSUME NEW m \in SlotIds, slots'[m] # Server!None, m \notin loose'
             PROVE  bound'[m] = cache'[slots'[m]]
  BY DEF SlotsCurrent, Server!Mapped
<2>1. slots[m] # s /\ slots'[m] = slots[m] /\ bound'[m] = bound[m] /\ m \notin loose
  BY EachNamer
<2> QED
  BY <2>1, MappedSlots DEF SlotsInv, Server!TypeOK
<1> QED
  BY <1>1, <1>2, <1>3 DEF SlotsInv

LEMMA SlotsStep ==
  ASSUME MaxLives \in Nat, Server!None \notin SlotSeqs
  PROVE  SlotsInv /\ [Server!SlotsNext]_slotVars => SlotsInv'
<1> SUFFICES ASSUME SlotsInv, [Server!SlotsNext]_slotVars PROVE SlotsInv'
  OBVIOUS
<1>0. lives \in 0 .. MaxLives /\ lives \in Nat
  BY DEF SlotsInv, Server!TypeOK
<1>1. CASE \E k \in SlotIds, s \in SlotSeqs : Server!SlotCreate(k, s)
  BY <1>1, SlotCreateSound
<1>2. CASE \E k \in SlotIds : Server!SlotReset(k)
  BY <1>2, SlotResetSound
<1>3. CASE \E a, d \in SlotSeqs : Server!SequenceCopy(a, d)
<2>1. PICK a, d \in SlotSeqs : Server!SequenceCopy(a, d)
  BY <1>3
<2>2. lives + 1 \in 0 .. MaxLives
  BY <1>0, <2>1 DEF Server!SequenceCopy
<2>3. UNCHANGED <<slots, bound>> /\ cache' = [cache EXCEPT ![d] = lives + 1]
      /\ lives' = lives + 1 /\ loose' = loose \cup Server!Namers(d)
  BY <2>1 DEF Server!SequenceCopy
<2>4. lives + 1 <= lives + 1 /\ lives <= lives + 1
  BY <1>0
<2> QED
  BY <2>2, <2>3, <2>4, LooseSound
<1>4. CASE \E s \in SlotSeqs : Server!SequenceRemove(s)
<2>1. PICK s \in SlotSeqs : Server!SequenceRemove(s)
  BY <1>4
<2>2. UNCHANGED <<slots, bound>> /\ cache' = [cache EXCEPT ![s] = 0]
      /\ lives' = lives /\ loose' = loose \cup Server!Namers(s)
  BY <2>1 DEF Server!SequenceRemove
<2>3. 0 \in 0 .. MaxLives /\ 0 <= lives /\ lives <= lives
  BY <1>0
<2> QED
  BY <1>0, <2>2, <2>3, LooseSound
<1>5. CASE \E s \in SlotSeqs : Server!CancelSequence(s)
  BY <1>5, CancelSound
<1>6. CASE UNCHANGED slotVars
  BY <1>6 DEF slotVars, SlotsInv, LivesBuilt, GivenOnce, Server!TypeOK, Server!Mapped, SlotsCurrent
<1> QED
  BY <1>1, <1>2, <1>3, <1>4, <1>5, <1>6 DEF Server!SlotsNext

LEMMA SameCardinality == \A S : Server!Cardinality(S) = Cardinality(S)
  BY DEF Server!Cardinality, Cardinality

\* Two slots that own the object under an id were given the same one.
LEMMA OneOwnerEach == SlotsInv => Server!OneOwner
<1> SUFFICES ASSUME SlotsInv, NEW s \in SlotSeqs PROVE Cardinality(Server!Owners(s)) <= 1
  BY SameCardinality DEF Server!OneOwner
<1>1. \A k, m \in Server!Owners(s) : k = m
  BY MappedSlots, EachNamer DEF Server!Owners, SlotsInv, GivenOnce
<1>2. CASE Server!Owners(s) = {}
  BY <1>2, FS_EmptySet
<1>3. CASE Server!Owners(s) # {}
<2>1. PICK k \in Server!Owners(s) : Server!Owners(s) = {k}
  BY <1>1, <1>3
<2>2. Cardinality({k}) = 1
  BY FS_Singleton
<2> QED
  BY <2>1, <2>2
<1> QED
  BY <1>2, <1>3

\* So a slot that is not loose is the only owner of what is under its id.
LEMMA OwnAlone == SlotsInv => Server!SlotsOwn
<1> SUFFICES ASSUME SlotsInv, NEW k \in SlotIds, slots[k] # Server!None, k \notin loose
             PROVE  Server!Owners(slots[k]) = {k}
  BY EachNamer DEF Server!SlotsOwn
<1>1. k \in Server!Owners(slots[k])
  BY MappedSlots, EachNamer DEF Server!Owners
<1>2. \A m \in Server!Owners(slots[k]) : m = k
  BY <1>1, MappedSlots, EachNamer DEF Server!Owners, SlotsInv, GivenOnce
<1> QED
  BY <1>1, <1>2

\* A slot owns the sequence under its id, alone, until a copy, a plain removal or the
\* reset of another slot on that id takes it away, and no two slots own one: for any
\* slots, sequences and calls, an id created, cancelled and created again included.
THEOREM SlotsKeepTheirSequences == CallsSpec => []MappingSound
<1> DEFINE Kept == bridge => SlotsInv
<1>1. CallsInit => Kept
  BY SlotConstants
  DEF CallsInit, Server!SlotsInit, SlotsInv, LivesBuilt, GivenOnce, Server!TypeOK, Server!Mapped, SlotsCurrent
<1>2. Kept /\ [CallsNext]_<<bridge, cacheVars, slotVars>> => Kept'
  BY SlotConstants, SlotsStep DEF CallsNext
<1>3. Kept => MappingSound
  BY OneOwnerEach, OwnAlone DEF SlotsInv, Server!MappingSound, MappingSound
<1> QED
  BY <1>1, <1>2, <1>3, PTL DEF CallsSpec
=============================================================================
