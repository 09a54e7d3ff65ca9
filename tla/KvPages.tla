------------------------------- MODULE KvPages -------------------------------
(* The paged KV runtime: validation of a layout of sealed pages and an active *)
(* tail, and what the attention kernels that walk it attend to.  Positions    *)
(* are uint32 and wrap at TokenMax + 1.                                       *)
EXTENDS Integers, FiniteSets, Sequences, SequencesExt

CONSTANTS KvHeads, GroupSize,   \* kv_head_count, query heads of each
          TokenMax,             \* UINT32_MAX
          Capacity,             \* page_capacity_tokens
          MaxPages,             \* bound: pages of a layout
          MaxScore              \* bound: the score of a token is its position modulo this

VARIABLES pages, active     \* cf_kv_cache_layout: its pages, and the tail [begin, count]

pagesVars == <<pages, active>>

U32(x) == x % (TokenMax + 1)
Page == [begin : 0 .. TokenMax, count : 0 .. Capacity + 1, head : 0 .. KvHeads]
End(p) == p.begin + p.count

\* Mutant: the end of a page may wrap.
ValidatePageWrapping(p) == p.count # 0

ValidatePage(p) == p.count # 0 /\ p.begin <= TokenMax - p.count

Overlap(p, r) == p.head = r.head /\ p.begin < End(r) /\ r.begin < End(p)

ValidateLayout(ps, tail) ==
  /\ tail.count <= Capacity
  /\ \A i \in DOMAIN ps :
       /\ ValidatePage(ps[i])
       /\ ps[i].head < KvHeads /\ ps[i].count <= Capacity
       /\ U32(End(ps[i])) <= tail.begin
       /\ \A j \in i + 1 .. Len(ps) : ~Overlap(ps[i], ps[j])

SealedTokens(ps) == FoldLeft(LAMBDA n, p : n + p.count, 0, ps)

\* What a kernel launch checks: the last query and the end of the tail fit.
LaunchValid(query, tail) == query <= TokenMax - 1 /\ tail.begin <= TokenMax - tail.count

-----------------------------------------------------------------------------
(* The walk of the kernels: pages in order, the tokens of each, then the tail *)

HeadOf(qh) == qh \div GroupSize
HeadOfReference(qh) == (qh * KvHeads) \div (KvHeads * GroupSize)

WindowBegin(query, window) == IF window = 0 \/ query + 1 <= window THEN 0 ELSE query + 1 - window

Rows(run) == [i \in 1 .. run.count |-> U32(run.begin + i - 1)]

Walked(head) ==
  LET mine(p) == p.head = head
  IN FlattenSeq([i \in 1 .. Len(SelectSeq(pages, mine)) |-> Rows(SelectSeq(pages, mine)[i])]) \o Rows(active)

Attended(head, query, window) ==
  LET visible(t) == t >= WindowBegin(query, window) /\ t <= query IN SelectSeq(Walked(head), visible)

\* The window of the fused block-Huffman kernel, and of the production kernel,
\* which has no upper end and wraps at its lower one.
FusedWindow(query, window) == (IF query - window + 1 < 0 THEN 0 ELSE query - window + 1) .. query
ProductionWindow(query, window) == {t \in 0 .. TokenMax : ~(window # 0 /\ U32(t + window) < query)}

-----------------------------------------------------------------------------
(* Online softmax.  The weight of a token is kept as the exponent it was      *)
(* scaled to; a rescale by exp(a - b) moves every exponent by a - b.          *)

NoScores == [max |-> 0, weight |-> <<>>, any |-> FALSE]
Rescaled(weight, by) == [i \in DOMAIN weight |-> [weight[i] EXCEPT !.exponent = @ + by]]
Larger(a, b) == IF a > b THEN a ELSE b

Accumulate(state, token, score) ==
  IF ~state.any THEN [max |-> score, weight |-> <<[token |-> token, exponent |-> 0]>>, any |-> TRUE]
  ELSE LET next == Larger(state.max, score)
       IN [state EXCEPT !.max = next,
             !.weight = Append(Rescaled(@, state.max - next), [token |-> token, exponent |-> score - next])]

\* Mutant: the second state is added without rescaling it to the new maximum.
MergeUnscaled(dst, src) ==
  IF ~src.any THEN dst
  ELSE IF ~dst.any THEN src
  ELSE LET next == Larger(dst.max, src.max)
       IN [max |-> next, any |-> TRUE, weight |-> Rescaled(dst.weight, dst.max - next) \o src.weight]

Merge(dst, src) ==
  IF ~src.any THEN dst
  ELSE IF ~dst.any THEN src
  ELSE LET next == Larger(dst.max, src.max)
       IN [max |-> next, any |-> TRUE,
           weight |-> Rescaled(dst.weight, dst.max - next) \o Rescaled(src.weight, src.max - next)]

Score(token) == (token * 2) % MaxScore
Softmax(tokens) == FoldLeft(LAMBDA state, t : Accumulate(state, t, Score(t)), NoScores, tokens)

-----------------------------------------------------------------------------

PagesInit == pages = <<>> /\ active \in [begin : 0 .. TokenMax, count : 0 .. Capacity]

\* A caller adds a page to a layout that was valid; the last one need not be.
AddPage(p) ==
  /\ Len(pages) < MaxPages /\ ValidateLayout(pages, active)
  /\ pages' = Append(pages, p)
  /\ UNCHANGED active

PagesNext == \E p \in Page : AddPage(p)

-----------------------------------------------------------------------------

Stored(head) == {r \in 0 .. TokenMax : \E p \in ToSet(pages) : p.head = head /\ r \in p.begin .. End(p) - 1}
InTail == active.begin .. active.begin + active.count - 1

\* In a layout that validates, wherever its pages and its tail begin, every
\* head holds each position at most once, and the sealed token count of the
\* statistics is the number of positions the pages really hold.
LayoutsDisjoint ==
  ValidateLayout(pages, active) =>
    /\ SealedTokens(pages) = Cardinality({h \in (0 .. KvHeads - 1) \X (0 .. TokenMax) : h[2] \in Stored(h[1])})
    /\ \A h \in 0 .. KvHeads - 1 : Stored(h) \cap InTail = {}

\* A launch on a valid layout attends, for every query head, to exactly the
\* stored positions of its window, each once, in whatever order pages were
\* added; the softmax it keeps along the way ends with every weight scaled to
\* the same maximum, however the walk is split between two states and merged.
\* Reference and kernels agree on the head of a query head; the window of the
\* fused kernel is the same, and the production kernel leaves none of it out
\* unless a position plus the window wraps.  What it attends to besides (one token
\* older than the window, and any token after the query) the property leaves open.
AttentionExact ==
  ValidateLayout(pages, active) =>
    \A query \in 0 .. TokenMax, window \in 0 .. 2, qh \in 0 .. KvHeads * GroupSize - 1 :
      LaunchValid(query, active) =>
        LET head   == HeadOf(qh)
            tokens == Attended(head, query, window)
            held   == Stored(HeadOfReference(qh)) \cup InTail
            whole  == Softmax(tokens)
            split(cut) == Merge(Softmax(SubSeq(tokens, 1, cut)), Softmax(SubSeq(tokens, cut + 1, Len(tokens))))
        IN /\ ToSet(tokens) = {t \in held : t <= query /\ (window = 0 \/ t + window > query)}
           /\ Len(tokens) = Cardinality(ToSet(tokens))
           /\ window # 0 => ToSet(tokens) = held \cap FusedWindow(query, window)
           /\ query + window <= TokenMax => ToSet(tokens) \subseteq ProductionWindow(query, window)
           /\ \A i \in DOMAIN tokens : whole.weight[i] = [token |-> tokens[i], exponent |-> Score(tokens[i]) - whole.max]
           /\ \A cut \in 0 .. Len(tokens) : split(cut) = whole
=============================================================================
