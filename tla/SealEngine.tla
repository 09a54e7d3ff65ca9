----------------------------- MODULE SealEngine -----------------------------
(***************************************************************************)
(* The device sealing engine: src/src/cuda/device_kv_seal_attention.cu,    *)
(* with the evidence rule of chromofold_device_seal_bridge.cpp.  A layer   *)
(* stages tokens in an uncompressed active page; a full page is validated, *)
(* quantized, packed, given a place in the device descriptor table and     *)
(* published, and a fresh active page replaces it.                         *)
(*                                                                         *)
(* The engine has no lock: one thread calls it, so other calls run between *)
(* seals only.  The seal itself is a sequence of steps, each of which may  *)
(* fail, by an injected fault or by a CUDA error; Fail is the catch block. *)
(* A page is its token range and which of its tensors hold a NaN or an     *)
(* Inf.  Buffers are counted, K and V together; the workspace buffers are  *)
(* released on every way out and left out.  Where a staged page begins is  *)
(* the caller's word: nothing compares it with the sealed pages.           *)
(***************************************************************************)
EXTENDS Integers, Sequences

CONSTANTS
  Layers,        \* layer indices
  PageSize,      \* config.page_size
  FirstCapacity, \* first capacity of a descriptor table (4 in the source)
  MaxPages,      \* bound: pages of a layer
  MaxFaults,     \* bound: failures
  Begins         \* the token_begin of staged pages

ASSUME SealConstants ==
  /\ {PageSize, FirstCapacity} \subseteq Nat \ {0}
  /\ {MaxPages, MaxFaults} \subseteq Nat /\ Begins \subseteq Nat
  /\ "none" \notin Layers

VARIABLES
  state,  \* Layer.state
  pages,  \* Layer.pages
  active, \* active_begin, active_count, whether the buffers exist, which are not finite
  table,  \* descriptor_capacity and the descriptors in device_descriptors
  gen,    \* Layer.generation
  seal,   \* the seal call in progress: its layer and the point it has reached
  heap,   \* heap[l]: device buffers allocated for l, of each kind
  faults  \* failures so far

layerVars == <<state, pages, active, table, gen>>
vars == <<layerVars, seal, heap, faults>>

NoSeal == [layer |-> "none", at |-> "idle"]
Idle == seal = NoSeal
At(l, point) == seal = [layer |-> l, at |-> point]
Goto(l, point) == seal' = [layer |-> l, at |-> point]

Halves == {"keys", "values"}
NewActive == [begin |-> 0, count |-> 0, owned |-> FALSE, bad |-> {}]
NewTable == [cap |-> 0, ent |-> <<>>]
Finite(l) == active[l].bad = {}
ActivePage(l) == [begin |-> active[l].begin, finite |-> Finite(l)]
Bit(b) == IF b THEN 1 ELSE 0

\* The seal points after which the candidate page owns device storage it has
\* not handed to Layer.pages.
Candidates == {"packing", "publishing", "grown", "replaced"}

\* Buffers the layer's own records, and the seal in progress, refer to.
Owned(l) ==
  LET mine(S) == Bit(seal.layer = l /\ seal.at \in S)
  IN  [page   |-> Len(pages[l]) + mine(Candidates),
       active |-> Bit(active[l].owned) + mine({"replaced", "pushed"}),
       table  |-> Bit(table[l].cap > 0)]

Init ==
  /\ state = [l \in Layers |-> "filling"]
  /\ pages = [l \in Layers |-> <<>>]
  /\ active = [l \in Layers |-> NewActive]
  /\ table = [l \in Layers |-> NewTable]
  /\ gen = [l \in Layers |-> 0]
  /\ seal = NoSeal
  /\ heap = [l \in Layers |-> [page |-> 0, active |-> 0, table |-> 0]]
  /\ faults = 0

\* cf_device_seal_stage_active_page: begin is stored as it comes.
Stage(l, begin, n, bad) ==
  /\ Idle
  /\ active' = [active EXCEPT ![l] = [begin |-> begin, count |-> n, owned |-> TRUE, bad |-> bad]]
  /\ heap' = IF active[l].owned THEN heap ELSE [heap EXCEPT ![l].active = @ + 1]
  /\ state' = [state EXCEPT ![l] = IF n = PageSize THEN "full" ELSE "filling"]
  /\ UNCHANGED <<pages, table, gen, seal, faults>>

Fails == faults < MaxFaults /\ faults' = faults + 1

\* The same call with a copy to the device failing: the buffers stay, and the keys
\* of the active page have been overwritten when it is the copy of the values.
StageFails(l, bad) ==
  /\ Idle /\ Fails
  /\ bad \ {"keys"} = active[l].bad \ {"keys"}
  /\ active' = [active EXCEPT ![l] = [@ EXCEPT !.owned = TRUE, !.bad = bad]]
  /\ heap' = IF active[l].owned THEN heap ELSE [heap EXCEPT ![l].active = @ + 1]
  /\ UNCHANGED <<state, pages, table, gen, seal>>

\* cf_device_seal_clear_async
Clear ==
  /\ Idle
  /\ heap' = [l \in Layers |-> [page   |-> heap[l].page - Owned(l).page,
                                active |-> heap[l].active - Owned(l).active,
                                table  |-> heap[l].table - Owned(l).table]]
  /\ state' = [l \in Layers |-> "filling"]
  /\ pages' = [l \in Layers |-> <<>>]
  /\ active' = [l \in Layers |-> NewActive]
  /\ table' = [l \in Layers |-> NewTable]
  /\ gen' = [l \in Layers |-> 0]
  /\ UNCHANGED <<seal, faults>>

---------------------------------------------------------------------------
(* cf_device_seal_full_page_async *)

\* A call on a layer without a full active page is refused.
Begin(l) ==
  /\ Idle /\ Len(pages[l]) < MaxPages
  /\ active[l].count = PageSize /\ state[l] = "full"
  /\ Goto(l, "started")
  /\ UNCHANGED <<layerVars, heap, faults>>

\* From one documented state to the next, without other effect.
Advance(l, from, to) ==
  /\ At(l, from) /\ Goto(l, to)
  /\ state' = [state EXCEPT ![l] = to]
  /\ UNCHANGED <<pages, active, table, gen, faults>>

Validate(l) == Advance(l, "started", "validating") /\ UNCHANGED heap

QuantizeAny(l) ==
  Advance(l, "validating", "quantizing") /\ UNCHANGED heap

\* The finite scan found neither NaN nor Inf.
Quantize(l) ==
  Finite(l) /\ Advance(l, "validating", "quantizing") /\ UNCHANGED heap

\* Scales and payload of the candidate page are allocated and written.
Pack(l) ==
  /\ Advance(l, "quantizing", "packing")
  /\ heap' = [heap EXCEPT ![l].page = @ + 1]

Describe(l) == Advance(l, "packing", "publishing") /\ UNCHANGED heap

GrowOffByOne(l) ==
  /\ At(l, "publishing") /\ Goto(l, "grown")
  /\ IF Len(pages[l]) <= table[l].cap /\ table[l].cap > 0
     THEN UNCHANGED <<table, heap>>
     ELSE /\ table' = [table EXCEPT ![l] = [cap |-> IF @.cap = 0 THEN FirstCapacity ELSE 2 * @.cap, ent |-> <<>>]]
          /\ heap' = [heap EXCEPT ![l].table = @ + 1 - Bit(table[l].cap > 0)]
  /\ UNCHANGED <<state, pages, active, gen, faults>>

\* The descriptor table is replaced by a larger one when it is full; nothing
\* is copied into the new one.
Grow(l) ==
  /\ At(l, "publishing") /\ Goto(l, "grown")
  /\ IF Len(pages[l]) < table[l].cap
     THEN UNCHANGED <<table, heap>>
     ELSE /\ table' = [table EXCEPT ![l] =
                         [cap |-> IF @.cap = 0 THEN FirstCapacity ELSE 2 * @.cap, ent |-> <<>>]]
          /\ heap' = [heap EXCEPT ![l].table = @ + 1 - Bit(table[l].cap > 0)]
  /\ UNCHANGED <<state, pages, active, gen, faults>>

\* The replacement active page is allocated.
Replace(l) ==
  /\ At(l, "grown") /\ Goto(l, "replaced")
  /\ heap' = [heap EXCEPT ![l].active = @ + 1]
  /\ UNCHANGED <<layerVars, faults>>

\* The candidate moves into Layer.pages.
Push(l) ==
  /\ At(l, "replaced") /\ Goto(l, "pushed")
  /\ pages' = [pages EXCEPT ![l] = Append(@, ActivePage(l))]
  /\ UNCHANGED <<state, active, table, gen, heap, faults>>

\* The table is copied to the device and the active page rolls over.
Publish(l) ==
  /\ At(l, "pushed") /\ seal' = NoSeal
  /\ table' = [table EXCEPT ![l].ent = pages[l]]
  /\ active' = [active EXCEPT ![l] = [NewActive EXCEPT !.begin = active[l].begin + active[l].count,
                                                       !.owned = TRUE]]
  /\ heap' = [heap EXCEPT ![l].active = @ - 1]
  /\ gen' = [gen EXCEPT ![l] = @ + 1]
  /\ state' = [state EXCEPT ![l] = "filling"]
  /\ UNCHANGED <<pages, faults>>

\* The catch block: the candidate's storage is released unless Layer.pages has
\* taken it, where it stays; a replacement active page, which no destructor frees,
\* is lost.
Undo(l) ==
  /\ seal' = NoSeal
  /\ state' = [state EXCEPT ![l] = "full"]
  /\ heap' = [heap EXCEPT ![l].page = @ - Bit(seal.at \in Candidates)]
  /\ UNCHANGED <<pages, active, table, gen>>

Reject(l) == At(l, "validating") /\ ~Finite(l) /\ Undo(l) /\ UNCHANGED faults

\* An injected fault, an allocation or a copy that fails, wherever the seal is.
Fail(l) == seal.layer = l /\ Undo(l) /\ Fails

SealStep(l) ==
  \/ Validate(l) \/ Quantize(l) \/ Pack(l) \/ Describe(l)
  \/ Grow(l) \/ Replace(l) \/ Push(l) \/ Publish(l) \/ Reject(l)

Next ==
  \/ \E l \in Layers, begin \in Begins, n \in 1 .. PageSize, bad \in SUBSET Halves : Stage(l, begin, n, bad)
  \/ \E l \in Layers, bad \in SUBSET Halves : StageFails(l, bad)
  \/ \E l \in Layers : Begin(l) \/ SealStep(l) \/ Fail(l)
  \/ Clear

Spec == Init /\ [][Next]_vars

---------------------------------------------------------------------------
(* Properties. *)

States == {"filling", "full", "validating", "quantizing", "packing", "publishing"}
Points == {"idle", "started", "validating", "quantizing", "packing", "publishing",
           "grown", "replaced", "pushed"}
Page == [begin : Nat, finite : BOOLEAN]

TypeOK ==
  /\ state \in [Layers -> States]
  /\ pages \in [Layers -> Seq(Page)]
  /\ active \in [Layers -> [begin : Nat, count : 0 .. PageSize, owned : BOOLEAN, bad : SUBSET Halves]]
  /\ table \in [Layers -> [cap : Nat, ent : Seq(Page)]]
  /\ heap \in [Layers -> [page : Nat, active : Nat, table : Nat]]
  /\ gen \in [Layers -> Nat]
  /\ seal.layer \in Layers \cup {"none"} /\ seal.at \in Points
  /\ faults \in Nat

\* A seal that fails may leave the table shorter than the pages, but between calls
\* it has room for a descriptor of each, the kernel reads Len(pages) of them, and
\* those in it are of the first pages, in order: never of a page that is gone, or
\* of a list from before a clear.
TableLeads ==
  Idle => \A l \in Layers : /\ Len(pages[l]) <= table[l].cap
                            /\ Len(table[l].ent) <= Len(pages[l])
                            /\ \A i \in DOMAIN table[l].ent : table[l].ent[i] = pages[l][i]

\* "Candidate pages remain invisible until transactional publication completes"
\* (docs/m12-production-performance.md): between calls the pages a kernel walks are
\* the published ones, with their descriptors.  In the code a copy of the table that
\* fails leaves the candidate among the pages and the table without its descriptor.
CandidatesInvisible ==
  Idle => \A l \in Layers : Len(pages[l]) = gen[l] /\ table[l].ent = pages[l]

\* Everything the records refer to is allocated, so no buffer is released twice
\* or used after its release, and a failed seal loses at most the one replacement
\* active page: page storage and descriptor tables always have an owner.
BuffersAccounted ==
  \A l \in Layers : /\ heap[l].page = Owned(l).page /\ heap[l].table = Owned(l).table
                    /\ heap[l].active \in Owned(l).active .. Owned(l).active + faults

\* The storage of the engine between the steps of a seal, failed ones included:
\* the type invariant, the table a kernel would read, and the owner of each buffer.
StorageSound == TypeOK /\ TableLeads /\ BuffersAccounted

\* The abstract history: a page joins it in one step, whatever the seal went through.
History == INSTANCE SealedHistory WITH
  history <- [l \in Layers |-> IF At(l, "pushed") THEN SubSeq(pages[l], 1, Len(pages[l]) - 1)
                               ELSE pages[l]],
  tail <- [l \in Layers |-> [begin |-> active[l].begin, count |-> active[l].count, finite |-> Finite(l)]]
ImplementsHistory == History!Spec
=============================================================================
