-------------------------- MODULE CompressedKvCache --------------------------
(* The single-sequence compressed KV cache behind the llama.cpp adapter: per *)
(* (layer, kv head) a dense active tail that is cut into encoded pages, each *)
(* uploaded to the device.  A token stands for one head_dim vector pair and  *)
(* is a record of the pass its key and its value came from.                  *)
EXTENDS Integers, Sequences, SequencesExt, FiniteSetsExt

CONSTANTS NLayers,    \* layer_count
          NHeads,     \* kv_head_count
          PageSize    \* page_size, in tokens

VARIABLE cache        \* the Impl: heads, appended_tokens, sealed_tokens

LayerRange == 0 .. NLayers - 1
Heads  == 0 .. NHeads - 1
Slots  == LayerRange \X Heads

EmptyHead  == [begin |-> 0, active |-> <<>>, sealed |-> <<>>]
EmptyCache == [heads |-> [s \in Slots |-> EmptyHead], appended |-> 0, sealed |-> 0]

-----------------------------------------------------------------------------
(* Sealing.  Uploads happen in slot order, one page at a time; the first one *)
(* that fails throws out of the whole loop and leaves its tokens active.     *)

FullPagesBeyond(h) == IF h.active = <<>> THEN 0 ELSE (Len(h.active) - 1) \div PageSize
FullPages(h) == Len(h.active) \div PageSize

CutPages(h, n) ==
  [ begin  |-> h.begin + n * PageSize,
    active |-> SubSeq(h.active, n * PageSize + 1, Len(h.active)),
    sealed |-> h.sealed \o
                 [i \in 1 .. n |->
                    [begin |-> h.begin + (i - 1) * PageSize,
                     toks  |-> SubSeq(h.active, (i - 1) * PageSize + 1, i * PageSize)]] ]

Earlier(s) == {t \in Slots : t[1] < s[1] \/ (t[1] = s[1] /\ t[2] < s[2])}
Pending(c, S) == SumFunctionOnSet([s \in Slots |-> FullPages(c.heads[s])], S)

\* seal_full_pages when the first "uploads" page uploads succeed
PagesCut(c, s, uploads) == Max({0, Min({FullPages(c.heads[s]), uploads - Pending(c, Earlier(s))})})
SealFullPages(c, uploads) ==
  [ heads    |-> [s \in Slots |-> CutPages(c.heads[s], PagesCut(c, s, uploads))],
    appended |-> c.appended,
    sealed   |-> c.sealed + PageSize * SumFunction([s \in Slots |-> PagesCut(c, s, uploads)]) ]

\* append: contiguous with a non-empty tail, insert, count, then seal
ContiguousInPage(h, begin) == h.active = <<>> \/ begin = Len(h.active)
Contiguous(h, begin) == h.active = <<>> \/ begin = h.begin + Len(h.active)

Grown(h, begin, toks) ==
  [begin |-> IF h.active = <<>> THEN begin ELSE h.begin, active |-> h.active \o toks, sealed |-> h.sealed]

InsertedUncounted(c, s, begin, toks) == [c EXCEPT !.heads[s] = Grown(c.heads[s], begin, toks)]
Inserted(c, s, begin, toks) ==
  [ heads    |-> [c.heads EXCEPT ![s] = Grown(c.heads[s], begin, toks)],
    appended |-> c.appended + Len(toks),
    sealed   |-> c.sealed ]

AppendHead(c, s, begin, toks, uploads) ==
  LET grown == Inserted(c, s, begin, toks) IN
  IF Contiguous(c.heads[s], begin)
  THEN [cache |-> SealFullPages(grown, uploads), ok |-> uploads >= Pending(grown, Slots)]
  ELSE [cache |-> c, ok |-> FALSE]

\* flush: partial tails too, one page per slot, again up to the first failure
TailCut(h) ==
  [EmptyHead EXCEPT !.sealed = Append(h.sealed, [begin |-> h.begin, toks |-> h.active])]
FlushTails(c, uploads) ==
  LET tails == {s \in Slots : c.heads[s].active # <<>>}
      done  == {s \in tails : Cardinality(tails \cap Earlier(s)) < uploads}
  IN [ heads    |-> [s \in Slots |-> IF s \in done THEN TailCut(c.heads[s]) ELSE c.heads[s]],
       appended |-> c.appended,
       sealed   |-> c.sealed + SumFunctionOnSet([s \in Slots |-> Len(c.heads[s].active)], done) ]

-----------------------------------------------------------------------------
(* Attention.  The view of a layer is every sealed page of every head plus   *)
(* one interleaved tail whose shape is taken from head 0.                    *)

TailShape(c, l, h) == <<Len(c.heads[<<l, h>>].active), c.heads[<<l, h>>].begin>>
TailServed(c, l) == c.heads[<<l, 0>>].active # <<>>
ViewFails(c, l)  == TailServed(c, l) /\ \E h \in Heads : TailShape(c, l, h) # TailShape(c, l, 0)

\* the rows of a run of tokens that a query at position q sees
Located(begin, toks, q) ==
  [i \in {i \in 1 .. Len(toks) : begin + i - 1 <= q} |-> [pos |-> begin + i - 1, tok |-> toks[i]]]

\* the rows a query at position q of head h attends to, in kernel order
Attended(c, l, h, q) ==
  LET st == c.heads[<<l, h>>] IN
  FlattenSeq([i \in 1 .. Len(st.sealed) |-> Located(st.sealed[i].begin, st.sealed[i].toks, q)])
    \o (IF TailServed(c, l) THEN Located(st.begin, st.active, q) ELSE <<>>)

-----------------------------------------------------------------------------

SealedTokens(h) == SumFunction([i \in DOMAIN h.sealed |-> Len(h.sealed[i].toks)])
HeldTokens(h) == SealedTokens(h) + Len(h.active)

\* The statistics the adapter reports are the tokens it holds: an append that
\* fails in an upload has counted its tokens and kept them, a page counts as
\* sealed only once it is on the device, and no token is counted twice.
StatsExact ==
  /\ cache.appended = SumFunction([s \in Slots |-> HeldTokens(cache.heads[s])])
  /\ cache.sealed   = SumFunction([s \in Slots |-> SealedTokens(cache.heads[s])])
=============================================================================
