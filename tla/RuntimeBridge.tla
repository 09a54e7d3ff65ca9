---------------------------- MODULE RuntimeBridge ----------------------------
(* The C runtime bridge over the same cache: whole-layer appends that stop at *)
(* the first head that fails, and the adapter calls for sealing and clearing. *)
EXTENDS CompressedKvCache

CONSTANTS MaxMade, MaxBatch, MaxFaults,  \* bounds
          Succeeding   \* bound: the uploads of a call that succeed before one fails

VARIABLES reported,   \* per layer, the tokens of appends that returned 0 since the last clear
          made,       \* external: tokens handed to the bridge so far
          faults

BridgeInit ==
  /\ cache = EmptyCache
  /\ reported = [l \in LayerRange |-> 0]
  /\ made = 0 /\ faults = 0

Unfailing == Pending(cache, Slots) + NHeads * MaxBatch
Uploads == {Unfailing} \cup (IF faults < MaxFaults THEN Succeeding ELSE {})

Stopped(acc) == ~acc.ok

\* heads in order, up to and with the first failure
LayerAppended(base, l, begin, toks, uploads) ==
  LET after[n \in 0 .. NHeads] ==
        IF n = 0 THEN [cache |-> base, ok |-> TRUE]
        ELSE IF Stopped(after[n - 1]) THEN after[n - 1]
        ELSE AppendHead(after[n - 1].cache, <<l, n - 1>>, begin, toks, uploads[n - 1])
  IN after[NHeads]

\* cf_llama_runtime_append
BridgeAppend(l, begin, n, failing, uploads) ==
  LET toks == [i \in 1 .. n |-> [k |-> made + i, v |-> made + i]]
      done == LayerAppended(cache, l, begin, toks, [h \in Heads |-> IF h = failing THEN uploads ELSE Unfailing])
  IN /\ made + n <= MaxMade
     /\ cache' = done.cache
     /\ made' = made + n
     /\ reported' = [reported EXCEPT ![l] = @ + (IF done.ok THEN n ELSE 0)]
     /\ faults' = faults + (IF uploads # Unfailing THEN 1 ELSE 0)

BridgeSeal(uploads) ==
  /\ cache' = SealFullPages(cache, uploads)
  /\ faults' = faults + (IF uploads # Unfailing THEN 1 ELSE 0)
  /\ UNCHANGED <<reported, made>>

BridgeFlush(uploads) ==
  /\ cache' = FlushTails(cache, IF uploads = Unfailing THEN Cardinality(Slots) ELSE uploads)
  /\ faults' = faults + (IF uploads # Unfailing THEN 1 ELSE 0)
  /\ UNCHANGED <<reported, made>>

\* clear, and seq_rm of sequence 0; any other sequence call is refused
BridgeClear ==
  /\ cache' = EmptyCache
  /\ reported' = [l \in LayerRange |-> 0]
  /\ UNCHANGED <<made, faults>>

BridgeNext ==
  \/ \E l \in LayerRange, n \in 1 .. MaxBatch, begin \in 0 .. MaxMade, failing \in Heads, u \in Uploads :
       BridgeAppend(l, begin, n, failing, u)
  \/ \E u \in Uploads : BridgeSeal(u) \/ BridgeFlush(u)
  \/ BridgeClear

-----------------------------------------------------------------------------

Held(l, h) == HeldTokens(cache.heads[<<l, h>>])

\* The bridge has no roll-back: an append that fails stays in the heads before
\* the failing one.  What it reports as appended is nevertheless in every head,
\* and no head is ahead of the one before it.
ReportedHeld ==
  \A l \in LayerRange, h \in Heads :
    /\ Held(l, h) >= reported[l]
    /\ h > 0 => Held(l, h) <= Held(l, h - 1)
=============================================================================
