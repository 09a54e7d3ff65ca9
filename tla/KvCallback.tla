----------------------------- MODULE KvCallback -----------------------------
(* The ggml graph-eval callback that shadows llama.cpp's own KV cache in the *)
(* compressed one and serves attention from it (CHROMOFOLD_KV_BACKEND=chromo- *)
(* fold, CHROMOFOLD_KV_REPLACE=1).  llama.cpp evaluates one forward pass at a *)
(* time, layer by layer; within a layer the Q, K and V nodes fire in any     *)
(* order and kqv_out last.  A pass of more than one token starts a sequence. *)
EXTENDS CompressedKvCache

CONSTANTS MaxBatch,     \* bound: tokens of one pass
          MaxTokens,    \* bound: tokens llama.cpp holds in a sequence
          MaxMade,      \* bound: tokens evaluated in a behaviour
          MaxRejects,   \* bound: tensors cf_extract turns away
          MaxFaults,    \* bound: failing uploads and allocations
          Succeeding    \* bound: the uploads of a call that succeed before one fails

VARIABLES real,      \* external: the tokens llama.cpp itself holds, in position order
          made,      \* external: tokens evaluated so far; token n is the n-th made
          pass,      \* external: the forward pass in progress
          pend,      \* pend_k, pend_v: per layer and kind, the tensor not yet appended
          tok,       \* tok_begin: the position the next append of a layer goes to
          query,     \* q_host: per layer, the last query rows captured
          served,    \* the rows kqv_out was just overwritten with, if it was
          errors,    \* append_errors
          rejects, faults

Kinds   == {"q", "k", "v"}
NoPass  == [layer |-> NLayers, size |-> 0, seen |-> {}]
NotServed == [layer |-> NLayers, rows |-> <<>>]
Clean   == [l \in LayerRange |-> [k |-> <<>>, v |-> <<>>]]

CallbackInit ==
  /\ cache = EmptyCache
  /\ real = <<>> /\ made = 0 /\ pass = NoPass
  /\ pend = Clean
  /\ tok = [l \in LayerRange |-> 0]
  /\ query = [l \in LayerRange |-> <<>>]
  /\ served = NotServed
  /\ errors = 0 /\ rejects = 0 /\ faults = 0

-----------------------------------------------------------------------------
(* llama.cpp: the tokens of a pass, and the pass moving to the next layer.   *)

StartPass(n) ==
  LET fresh == [i \in 1 .. n |-> made + i]
      next  == IF n > 1 THEN fresh ELSE real \o fresh
  IN /\ pass = NoPass
     /\ made + n <= MaxMade /\ Len(next) <= MaxTokens
     /\ real' = next /\ made' = made + n
     /\ pass' = [layer |-> 0, size |-> n, seen |-> {}]
     /\ served' = NotServed
     /\ UNCHANGED <<cache, pend, tok, query, errors, rejects, faults>>

PassTokens == SubSeq(real, Len(real) - pass.size + 1, Len(real))
Fired(kind) == /\ pass # NoPass /\ kind \notin pass.seen
               /\ pass' = [pass EXCEPT !.seen = @ \cup {kind}]

-----------------------------------------------------------------------------
(* cf_append_layer: every head is appended to, whatever the heads before it  *)
(* answered.  fault = [head, uploads]: in that head's append the upload after *)
(* the first "uploads" fails; head NHeads means no upload fails.             *)

NoFault == [head |-> NHeads, uploads |-> 0]
UploadFaults == {NoFault} \cup (IF faults < MaxFaults THEN [head : Heads, uploads : Succeeding] ELSE {})

Pair(ks, vs) == [i \in 1 .. Len(ks) |-> [k |-> ks[i], v |-> vs[i]]]

Tried(acc, r) == [cache |-> r.cache, errors |-> acc.errors + (IF r.ok THEN 0 ELSE 1)]

\* after the first n heads, the next of which has uploads[n] that succeed
HeadsAppended(base, l, begin, toks, uploads) ==
  LET after[n \in 0 .. NHeads] ==
        IF n = 0 THEN [cache |-> base, errors |-> 0]
        ELSE Tried(after[n - 1], AppendHead(after[n - 1].cache, <<l, n - 1>>, begin, toks, uploads[n - 1]))
  IN after[NHeads]

AppendLayer(l, toks, fault) ==
  LET fresh == Len(toks) > 1 /\ l = 0
      base  == IF fresh THEN EmptyCache ELSE cache
      begin == IF fresh THEN 0 ELSE tok[l]
      uploads == [h \in Heads |->
                    IF h = fault.head THEN fault.uploads ELSE Pending(base, Slots) + NHeads * Len(toks)]
      done  == HeadsAppended(base, l, begin, toks, uploads)
  IN /\ cache' = done.cache
     /\ errors' = errors + done.errors
     /\ tok' = [i \in LayerRange |-> IF i = l THEN begin + Len(toks) ELSE IF fresh THEN 0 ELSE tok[i]]
     /\ faults' = faults + (IF done.errors > 0 THEN 1 ELSE 0)

\* A K or V node: buffered, and appended with its counterpart once both are
\* present with the same number of tokens.
KvTensor(kind, fault) ==
  LET l    == pass.layer
      both == [pend[l] EXCEPT ![kind] = PassTokens]
      pair == Pair(both.k, both.v)
  IN /\ kind \in {"k", "v"}
     /\ Fired(kind)
     /\ IF both.k # <<>> /\ both.v # <<>> /\ Len(both.k) = Len(both.v)
        THEN AppendLayer(l, pair, fault) /\ pend' = [pend EXCEPT ![l] = Clean[l]]
        ELSE pend' = [pend EXCEPT ![l] = both] /\ fault = NoFault /\ UNCHANGED <<cache, errors, tok, faults>>
     /\ served' = NotServed
     /\ UNCHANGED <<real, made, query, rejects>>

QueryTensor ==
  /\ Fired("q")
  /\ query' = [query EXCEPT ![pass.layer] = PassTokens]
  /\ served' = NotServed
  /\ UNCHANGED <<cache, real, made, pend, tok, errors, rejects, faults>>

\* A node that is not finite (K, V) or not F32 (any): left out, nothing is cleared.
RejectTensor(kind) ==
  /\ rejects < MaxRejects
  /\ Fired(kind)
  /\ rejects' = rejects + 1
  /\ served' = NotServed
  /\ UNCHANGED <<cache, real, made, pend, tok, query, errors, faults>>

-----------------------------------------------------------------------------
(* kqv_out: attention over the shadow cache at the position the cache is at. *)

Serveable(l) == Len(query[l]) = pass.size /\ tok[l] >= pass.size
RowsOf(l, first) == [r \in 1 .. pass.size |->
                       [q |-> query[l][r], seen |-> [h \in Heads |-> Attended(cache, l, h, first + r - 1)]]]
RowsAhead(l) == RowsOf(l, tok[l] - pass.size + 1)
Rows(l) == RowsOf(l, tok[l] - pass.size)

KqvOut(fails) ==
  LET l == pass.layer IN
  /\ pass # NoPass /\ pass.seen = Kinds
  /\ pass' = IF l + 1 < NLayers THEN [pass EXCEPT !.layer = l + 1, !.seen = {}] ELSE NoPass
  /\ fails => faults < MaxFaults /\ Serveable(l)
  /\ served' = IF Serveable(l) /\ ~fails /\ ~ViewFails(cache, l) THEN [layer |-> l, rows |-> Rows(l)] ELSE NotServed
  /\ faults' = faults + (IF fails THEN 1 ELSE 0)
  /\ UNCHANGED <<cache, real, made, pend, tok, query, errors, rejects>>

CallbackNext ==
  \/ \E n \in 1 .. MaxBatch : StartPass(n)
  \/ \E kind \in Kinds, fault \in UploadFaults : KvTensor(kind, fault)
  \/ QueryTensor
  \/ \E kind \in Kinds : RejectTensor(kind)
  \/ \E fails \in BOOLEAN : KqvOut(fails)

-----------------------------------------------------------------------------

\* Whatever uploads fail and whatever tensors are turned away, every head of a
\* layer holds the positions 0 .. tok_begin - 1, each once and in order: an
\* append is never refused, the heads never drift apart, and a failing upload
\* loses nothing (cf_append_layer advances tok_begin without looking).
Positions(h) ==
  FlattenSeq([i \in 1 .. Len(h.sealed) |-> [j \in 1 .. Len(h.sealed[i].toks) |-> h.sealed[i].begin + j - 1]])
    \o [j \in 1 .. Len(h.active) |-> h.begin + j - 1]

HeadsComplete ==
  \A l \in LayerRange, h \in Heads : Positions(cache.heads[<<l, h>>]) = [i \in 1 .. tok[l] |-> i - 1]

\* A full page left active by a failing upload while head 0 has no tail is left
\* out of the view without an error: the one case served rows may be short.
TailLost(l) == ~TailServed(cache, l) /\ \E h \in Heads : cache.heads[<<l, h>>].active # <<>>

\* What overwrites kqv_out is causal attention over exactly the tokens
\* llama.cpp holds, key and value of one pass and the query of this one, unless
\* a tensor was turned away before or a tail is lost as above.
ServedExact ==
  LET l == served.layer IN
  l \in LayerRange /\ rejects = 0 /\ ~TailLost(l) =>
    \A r \in 1 .. Len(served.rows) :
      LET p == Len(real) - Len(served.rows) + r IN
      /\ served.rows[r].q = real[p]
      /\ \A h \in Heads : served.rows[r].seen[h] =
           [i \in 1 .. p |-> [pos |-> i - 1, tok |-> [k |-> real[i], v |-> real[i]]]]

\* A page whose upload failed is retried by the next append, of any layer: an
\* append without an upload error leaves no full page active in any slot.
Recovers ==
  cache' # cache /\ errors' = errors => \A s \in Slots : Len(cache'.heads[s].active) < PageSize
=============================================================================
