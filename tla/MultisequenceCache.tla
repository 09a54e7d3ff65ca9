------------------------ MODULE MultisequenceCache ------------------------
(***************************************************************************)
(* The host multi-sequence cache: src/src/multisequence_cache.cpp.  Every  *)
(* call runs under the cache mutex, so it is one action.  No function of   *)
(* the file ever inserts into page_store: the loops over sealed_pages and  *)
(* over the retired queue run zero times, reclaim and the auditor change   *)
(* nothing, and what is left is each layer's active tail, the generations  *)
(* and the speculation transactions.  active_generation,                   *)
(* descriptor_generation and logical_shift are written and read by nothing *)
(* else; they and the counters are left out.  A failing call is an action  *)
(* only when it has changed state before it throws.                        *)
(***************************************************************************)
EXTENDS Integers, FiniteSets

CONSTANTS
  Seqs,      \* sequence ids the callers use
  NLayers,   \* config.layer_count
  PageSize,  \* config.page_size
  MaxGen,    \* bound: global_generation
  MaxSpecs,  \* bound: speculation ids issued
  MaxPos,    \* bound: token positions
  Deltas     \* the distances of shifts

ASSUME CacheConstants ==
  /\ {NLayers, PageSize} \subseteq Nat \ {0}
  /\ {MaxGen, MaxSpecs, MaxPos} \subseteq Nat
  /\ Deltas \subseteq Int

Layers == 1 .. NLayers

VARIABLES
  present,  \* keys of cache->sequences
  tail,     \* tail[s][l]: active_token_begin and active_token_count
  topo,     \* topology_generation
  spec,     \* SpeculationState
  global,   \* global_generation
  nextSpec, \* next_speculation_id
  ok,       \* whether the last call returned success
  born,     \* the generation s was created or last overwritten with
  opened    \* the tail lengths when the speculation of s began

vars == <<present, tail, topo, spec, global, nextSpec, ok, born, opened>>

NoSpec == [id |-> 0, base |-> 0, gen |-> 0]
EmptyTail == [begin |-> 0, count |-> 0]
NoTail == [l \in Layers |-> EmptyTail]
NoLengths == [l \in Layers |-> 0]

Speculating(s) == spec[s] # NoSpec
End(t) == t.begin + t.count
Lengths(s) == [l \in Layers |-> tail[s][l].count]
Longest(s) == CHOOSE n \in {tail[s][l].count : l \in Layers} :
                \A l \in Layers : tail[s][l].count <= n

\* The layers a call that walks them in order has updated when it reaches
\* the first layer of Bad, where it throws.
Reached(Bad) == {l \in Layers : \A k \in Bad : l < k}

Init ==
  /\ present = {}
  /\ tail = [s \in Seqs |-> NoTail]
  /\ topo = [s \in Seqs |-> 0]
  /\ spec = [s \in Seqs |-> NoSpec]
  /\ global = 1 /\ nextSpec = 1
  /\ ok = TRUE
  /\ born = [s \in Seqs |-> 0]
  /\ opened = [s \in Seqs |-> NoLengths]

\* Every successful mutation takes the next global generation.
Advance == global < MaxGen /\ global' = global + 1 /\ ok' = TRUE

\* A sequence object built anew under the key s.
Build(s, t) ==
  /\ present' = present \cup {s}
  /\ tail' = [tail EXCEPT ![s] = t]
  /\ topo' = [topo EXCEPT ![s] = global + 1]
  /\ born' = [born EXCEPT ![s] = global + 1]
  /\ spec' = [spec EXCEPT ![s] = NoSpec]
  /\ opened' = [opened EXCEPT ![s] = NoLengths]
  /\ Advance /\ UNCHANGED nextSpec

\* cf_sequence_create
Create(s) == s \notin present /\ Build(s, NoTail)

CopyKeepsSpeculation(a, d, b, e) ==
  /\ a \in present /\ a # d /\ b <= e
  /\ present' = present \cup {d}
  /\ tail' = [tail EXCEPT ![d] = tail[a]]
  /\ topo' = [topo EXCEPT ![d] = global + 1]
  /\ born' = [born EXCEPT ![d] = global + 1]
  /\ spec' = [spec EXCEPT ![d] = spec[a]]
  /\ opened' = [opened EXCEPT ![d] = opened[a]]
  /\ Advance /\ UNCHANGED nextSpec

\* cf_sequence_copy_async: a layer's tail is taken only when all of it lies in
\* [b, e); a destination that exists is replaced, its speculation with it.
Copy(a, d, b, e) ==
  LET taken(t) == t.count > 0 /\ t.begin >= b /\ End(t) <= e
  IN  /\ a \in present /\ a # d /\ b <= e
      /\ Build(d, [l \in Layers |-> IF taken(tail[a][l]) THEN tail[a][l] ELSE EmptyTail])

\* cf_sequence_remove_async with both positions negative
RemoveAll(s) ==
  /\ s \in present
  /\ present' = present \ {s}
  /\ tail' = [tail EXCEPT ![s] = NoTail]
  /\ topo' = [topo EXCEPT ![s] = 0]
  /\ spec' = [spec EXCEPT ![s] = NoSpec]
  /\ opened' = [opened EXCEPT ![s] = NoLengths]
  /\ Advance /\ UNCHANGED <<nextSpec, born>>

\* The tail after [b, e) is removed from it, when that is a whole tail or a suffix.
Cut(t, b, e) ==
  CASE b <= t.begin /\ e >= End(t) -> 0
    [] b > t.begin /\ b < End(t) /\ e >= End(t) -> b - t.begin
    [] OTHER -> t.count
InnerCut(t, b, e) == e > t.begin /\ b < End(t) /\ ~(b <= t.begin /\ e >= End(t))
                     /\ ~(b >= t.begin /\ e >= End(t))

\* cf_sequence_remove_async on a range: throws at the first layer whose tail
\* the range cuts elsewhere than at its end, with the layers before it cut.
RemoveRange(s, b, e) ==
  LET bad == {l \in Layers : InnerCut(tail[s][l], b, e)}
      new == [l \in Layers |-> IF l \in Reached(bad)
                               THEN [tail[s][l] EXCEPT !.count = Cut(tail[s][l], b, e)]
                               ELSE tail[s][l]]
  IN
  /\ s \in present /\ b <= e
  /\ tail' = [tail EXCEPT ![s] = new]
  /\ IF bad = {} THEN topo' = [topo EXCEPT ![s] = @ + 1] /\ Advance
                 ELSE tail' # tail /\ ok' = FALSE /\ UNCHANGED <<topo, global>>
  /\ UNCHANGED <<present, spec, nextSpec, born, opened>>

\* cf_sequence_shift_async: moves the tails that lie in [b, e); a tail the range
\* cuts is left where it is; throws at the first one that would begin below zero.
Shift(s, b, e, delta) ==
  LET inside(t) == t.count > 0 /\ t.begin >= b /\ End(t) <= e
      moves == {l \in Layers : inside(tail[s][l])}
      bad == {l \in moves : tail[s][l].begin + delta < 0}
      new == [l \in Layers |-> IF l \in moves \cap Reached(bad)
                               THEN [tail[s][l] EXCEPT !.begin = @ + delta] ELSE tail[s][l]]
  IN
  /\ s \in present /\ b <= e
  /\ \A l \in Layers : End(new[l]) <= MaxPos
  /\ tail' = [tail EXCEPT ![s] = new]
  /\ IF bad = {} THEN topo' = [topo EXCEPT ![s] = @ + 1] /\ Advance
                 ELSE tail' # tail /\ ok' = FALSE /\ UNCHANGED <<topo, global>>
  /\ UNCHANGED <<present, spec, nextSpec, born, opened>>

\* cf_sequence_append_async
Append(s, l, b, n) ==
  LET t == tail[s][l] IN
  /\ s \in present
  /\ t.count + n <= PageSize /\ n > 0 /\ b + n <= MaxPos
  /\ t.count > 0 => b = End(t)
  /\ tail' = [tail EXCEPT ![s][l] = [begin |-> IF t.count = 0 THEN b ELSE @.begin,
                                     count |-> t.count + n]]
  /\ topo' = [topo EXCEPT ![s] = @ + 1]
  /\ Advance /\ UNCHANGED <<present, spec, nextSpec, born, opened>>

\* cf_sequence_speculation_begin: the baseline is the longest tail of the layers.
SpeculationBegin(s) ==
  /\ s \in present /\ ~Speculating(s) /\ nextSpec <= MaxSpecs
  /\ nextSpec' = nextSpec + 1
  /\ spec' = [spec EXCEPT ![s] = [id |-> nextSpec, base |-> Longest(s), gen |-> topo[s]]]
  /\ opened' = [opened EXCEPT ![s] = Lengths(s)]
  /\ ok' = TRUE
  /\ UNCHANGED <<present, tail, topo, global, born>>

Handle(s, id) == s \in present /\ id # 0 /\ spec[s].id = id

\* The layers commit rejects: shorter than the baseline, or with fewer than
\* the accepted tokens after it.
ShortLayersNone(s, accepted) == {}
ShortLayers(s, accepted) == {l \in Layers : tail[s][l].count < spec[s].base + accepted}

\* cf_sequence_speculation_commit: throws at the first short layer, with the
\* layers before it trimmed and the transaction still active.
SpeculationCommit(s, id, accepted) ==
  LET bad == ShortLayers(s, accepted)
      new == [l \in Layers |-> IF l \in Reached(bad)
                               THEN [tail[s][l] EXCEPT !.count = spec[s].base + accepted]
                               ELSE tail[s][l]]
  IN
  /\ Handle(s, id)
  /\ tail' = [tail EXCEPT ![s] = new]
  /\ IF bad = {}
     THEN /\ spec' = [spec EXCEPT ![s] = NoSpec]
          /\ opened' = [opened EXCEPT ![s] = NoLengths]
          /\ topo' = [topo EXCEPT ![s] = @ + 1]
          /\ Advance
     ELSE tail' # tail /\ ok' = FALSE /\ UNCHANGED <<spec, opened, topo, global>>
  /\ UNCHANGED <<present, nextSpec, born>>

RollbackOnlyTrims(s, id) ==
  /\ Handle(s, id)
  /\ tail' = [tail EXCEPT ![s] = [l \in Layers |->
                IF @[l].count > spec[s].base THEN [@[l] EXCEPT !.count = spec[s].base] ELSE @[l]]]
  /\ topo' = [topo EXCEPT ![s] = spec[s].gen]
  /\ spec' = [spec EXCEPT ![s] = NoSpec]
  /\ opened' = [opened EXCEPT ![s] = NoLengths]
  /\ Advance /\ UNCHANGED <<present, nextSpec, born>>

\* cf_sequence_speculation_rollback
SpeculationRollback(s, id) ==
  /\ Handle(s, id)
  /\ tail' = [tail EXCEPT ![s] = [l \in Layers |-> [@[l] EXCEPT !.count = spec[s].base]]]
  /\ topo' = [topo EXCEPT ![s] = spec[s].gen]
  /\ spec' = [spec EXCEPT ![s] = NoSpec]
  /\ opened' = [opened EXCEPT ![s] = NoLengths]
  /\ Advance /\ UNCHANGED <<present, nextSpec, born>>

Positions == 0 .. MaxPos
Ids == 1 .. MaxSpecs

Next ==
  \/ \E s \in Seqs : Create(s)
  \/ \E a, d \in Seqs, b, e \in Positions : Copy(a, d, b, e)
  \/ \E s \in Seqs : RemoveAll(s)
  \/ \E s \in Seqs, b, e \in Positions : RemoveRange(s, b, e)
  \/ \E s \in Seqs, b, e \in Positions, delta \in Deltas : Shift(s, b, e, delta)
  \/ \E s \in Seqs, l \in Layers, b \in Positions, n \in 1 .. PageSize : Append(s, l, b, n)
  \/ \E s \in Seqs : SpeculationBegin(s)
  \/ \E s \in Seqs, id \in Ids, n \in 0 .. PageSize : SpeculationCommit(s, id, n)
  \/ \E s \in Seqs, id \in Ids : SpeculationRollback(s, id)

Spec == Init /\ [][Next]_vars

---------------------------------------------------------------------------
(* Properties. *)

TypeOK ==
  /\ present \subseteq Seqs
  /\ tail \in [Seqs -> [Layers -> [begin : Nat, count : Nat]]]
  /\ topo \in [Seqs -> Nat] /\ born \in [Seqs -> Nat]
  /\ spec \in [Seqs -> [id : Nat, base : Nat, gen : Nat]]
  /\ opened \in [Seqs -> [Layers -> Nat]]
  /\ global \in Nat /\ nextSpec \in Nat \ {0} /\ ok \in BOOLEAN

\* No sequence of appends, cuts, commits and rollbacks makes an active tail
\* longer than a page: the device buffers behind it hold page_size tokens.
TailFits == \A s \in Seqs, l \in Layers : tail[s][l].count <= PageSize

\* The generation of a sequence never leaves the life of the sequence object
\* it belongs to: a rollback never rewinds past the creation or the copy that
\* built the object, and none runs ahead of the global generation.
GenerationInLife ==
  \A s \in present :
    /\ born[s] <= topo[s] /\ topo[s] <= global
    /\ Speculating(s) => born[s] <= spec[s].gen /\ spec[s].gen <= topo[s]

\* All a cache call may leave behind, in one invariant.
CacheSound == TypeOK /\ TailFits /\ GenerationInLife

\* A commit keeps an accepted prefix of the provisional tokens in every layer:
\* no layer falls below the baseline and none ends longer than it was.
CommitKeepsPrefix ==
  \A s \in Seqs, l \in Layers :
    Speculating(s) /\ topo'[s] > topo[s] /\ spec'[s] # spec[s] /\ born'[s] = born[s] /\ s \in present'
      => spec[s].base <= tail'[s][l].count /\ tail'[s][l].count <= tail[s][l].count

CutShort(t, u) == u.begin = t.begin /\ u.count <= t.count
Moved(t, u, delta) == u.count = t.count /\ u.begin \in {t.begin, t.begin + delta}

\* A call that throws at a layer leaves that layer and the later ones, every other
\* sequence and every transaction as they were.  The layers before it keep what the
\* call did to them, for nothing undoes it: a removal or a commit has cut tails
\* short from behind, a shift has moved whole tails by its one distance.
FailureStopsAtLayer ==
  ~ok' =>
    /\ UNCHANGED <<present, topo, spec>>
    /\ \E s \in Seqs, failing \in Layers :
         /\ \A q \in Seqs \ {s} : tail'[q] = tail[q]
         /\ \A l \in Layers : l >= failing => tail'[s][l] = tail[s][l]
         /\ \/ \A l \in Layers : CutShort(tail[s][l], tail'[s][l])
            \/ \E delta \in Deltas : \A l \in Layers : Moved(tail[s][l], tail'[s][l], delta)

\* What a commit and a failing call may do to the tokens, in every step.
StepsKeepTokens == [][CommitKeepsPrefix /\ FailureStopsAtLayer]_vars

\* The design note's promise for layers in step: when their tails had one length
\* as the speculation began, a rollback gives each that length again, whatever
\* was appended, cut, shifted or half committed since.
RollbackRestoresLength ==
  [][\A s \in Seqs, id \in Ids :
       SpeculationRollback(s, id) /\ (\A l, m \in Layers : opened[s][l] = opened[s][m])
         => \A l \in Layers : tail'[s][l].count = opened[s][l]]_vars
=============================================================================
