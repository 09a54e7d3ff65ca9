-------------------------- MODULE MsCudaResolver --------------------------
(***************************************************************************)
(* The multi-sequence CUDA resolver: src/src/cuda/multisequence_cuda_      *)
(* resolver.cu.  Sequences share immutable compressed pages by logical     *)
(* reference; a batch takes snapshots of the sequences it reads, which     *)
(* hold in-flight references and raw device pointers, drops the mutex,     *)
(* launches one kernel per item, takes the mutex again and attaches an     *)
(* event to every snapshot.  A page whose logical references are gone is   *)
(* retired, and erased by a later reclaim once nothing is in flight.       *)
(*                                                                         *)
(* Every public function runs under the mutex, so it is one action, except *)
(* execute_batch, which is Acquire, one Launch per item, and Record.  Each *)
(* of the three may throw; the batch is then unwinding until its catch     *)
(* block has the mutex again and releases what the batch still holds.      *)
(* Device work is submitted to one in-order stream.  A call that returns   *)
(* -1 without changing state is not an action.                             *)
(***************************************************************************)
EXTENDS Integers, Sequences, FiniteSets

CONSTANTS
  Seqs,        \* sequence ids the callers use
  Layers,      \* layer indices, 0 .. layer_count - 1
  Workers,     \* threads that call execute_batch
  MaxPages,    \* bound: pages ever registered
  MaxSnaps,    \* bound: snapshots holding references at a time
  MaxBatch,    \* bound: items of a batch
  MaxStream,   \* bound: operations queued on the device stream
  MaxInc,      \* bound: device buffers of one owner alive or pointed at, less one
  MaxTokens,   \* bound: logical token positions
  MaxFaults,   \* bound: CUDA calls that fail
  MinCapacity, \* first capacity of a descriptor table (4 in the source)
  PageSize,    \* config.page_size
  Calls        \* the functions the callers of a run use

ASSUME BoundsAreNat ==
  /\ {MaxPages, MaxSnaps, MaxBatch, MaxStream, MaxInc, MaxTokens, MaxFaults} \subseteq Nat
  /\ {MinCapacity, PageSize} \subseteq Nat \ {0}
ASSUME LayersAreNat == Layers \subseteq Nat
ASSUME SeqsFinite == IsFiniteSet(Seqs)

PageIds == 1 .. MaxPages
Slots == 1 .. MaxSnaps
Null == -1

VARIABLES
  live,     \* keys of resolver->sequences
  disp,     \* live sequences with dispatchable = true
  refs,     \* refs[s]: page ids referenced by s, over all its layers
  begin,    \* begin[s][p]: PageRef.logical_token_begin
  layerOf,  \* the layer a page was published to; copies keep it
  nextPage, \* next_page_id
  pstate,   \* none, live, retired, or erased from resolver->pages
  logical,  \* SharedPage.logical_refs
  inflight, \* SharedPage.in_flight_refs
  table,    \* table[s][l]: LayerState.descriptors, capacity and device contents
  active,   \* active[s][l]: ActivePage, its K/V buffers and whether token_count > 0
  heap,     \* device allocations <<kind, s, l, n>> not yet freed
  slot,     \* Snapshot objects that hold in-flight references
  ptr,      \* raw device pointers of a snapshot, kept while a launch may use them
  stream,   \* device work submitted and not finished, in order
  batch,    \* batch[w]: snapshots vector of w's execute_batch call
  launched, \* launched[w]: kernels launched so far by that call
  unwinding,\* workers whose call has thrown and is not in its catch block yet
  faults,   \* CUDA calls that have failed
  balance   \* counters.snapshots_acquired - counters.snapshots_released

seqVars == <<live, disp, refs, begin>>
pageVars == <<layerOf, nextPage, pstate, logical>>
bufVars == <<table, active, heap>>
execVars == <<inflight, slot, ptr, stream, batch, launched, unwinding, balance>>
vars == <<seqVars, pageVars, bufVars, execVars, faults>>

---------------------------------------------------------------------------
(* State predicates and helpers. *)

LayerPages(s, l) == {p \in refs[s] : layerOf[p] = l}

\* Number of references to p the audit counts by walking the sequences.
Observers(p) == {s \in live : p \in refs[s]}

\* Descriptors the host would upload for layer l of s: page and position.
Entries(s, l) == {<<p, begin[s][p]>> : p \in LayerPages(s, l)}

NoTable == [buf |-> Null, cap |-> 0, ent |-> {}]
NoActive == [buf |-> Null, staged |-> FALSE]
NoSnap == [ref |-> "none", seq |-> Null, layer |-> Null, pages |-> {}]
NoPtr == [table |-> Null, active |-> Null]

Outstanding == {i \in Slots : slot[i].ref # "none"}
Holders(p) == {i \in Outstanding : p \in slot[i].pages}
EventDone(i) == \A j \in DOMAIN stream : stream[j] # [op |-> "event", slot |-> i]
CompletedUnchecked == {i \in Slots : slot[i].ref = "pending"}
Completed == {i \in Slots : slot[i].ref = "pending" /\ EventDone(i)}
RunningPages == UNION {stream[j].pages : j \in {k \in DOMAIN stream : stream[k].op = "kernel"}}

\* A device allocation is named by its owner and an incarnation number that is
\* neither allocated nor still pointed at by a snapshot.
Pointed(s, l) ==
  UNION {{ptr[i].table, ptr[i].active} :
           i \in {k \in Slots : slot[k].seq = s /\ slot[k].layer = l}}
FreeIncs(kind, s, l) ==
  {n \in 0 .. MaxInc : <<kind, s, l, n>> \notin heap /\ n \notin Pointed(s, l)}
Fresh(kind, s, l) == CHOOSE n \in FreeIncs(kind, s, l) : TRUE

\* Smallest power-of-two multiple of the first capacity that fits (source: the doubling loop).
Grow(cap, n) ==
  LET fits == {c \in {MinCapacity * 2^k : k \in 0 .. MaxPages} : c >= n /\ c >= 2 * cap}
  IN  CHOOSE c \in fits : \A d \in fits : c <= d

RefreshedOffByOne(t, s, l, want, outcome) ==
  IF Cardinality(want) > t.cap + 1
  THEN [buf |-> Fresh("table", s, l), cap |-> Grow(t.cap, Cardinality(want)), ent |-> want]
  ELSE [t EXCEPT !.ent = want]

\* refresh_descriptor_table of t, owned by layer l of s, to hold the entries want.
\* outcome: "ok"; "alloc", the grown table cannot be allocated after the old one
\* was released; "upload", the copy to the device fails.
Refreshed(t, s, l, want, outcome) ==
  IF Cardinality(want) > t.cap
  THEN IF outcome = "alloc"
       THEN [t EXCEPT !.buf = Null, !.ent = {}]
       ELSE [buf |-> Fresh("table", s, l), cap |-> Grow(t.cap, Cardinality(want)),
             ent |-> IF outcome = "ok" THEN want ELSE {}]
  ELSE IF outcome = "ok" THEN [t EXCEPT !.ent = want] ELSE t

Allocation(kind, s, l, buf) == IF buf = Null THEN {} ELSE {<<kind, s, l, buf>>}

\* Allocations layer l of s owns.
Owned(s, l) == Allocation("table", s, l, table[s][l].buf)
               \cup Allocation("active", s, l, active[s][l].buf)
StorageTails(s) == UNION {Allocation("active", s, l, active[s][l].buf) : l \in Layers}
Storage(s) == UNION {Owned(s, l) : l \in Layers}

\* Logical counts once every page of P is referenced once more.
ReferencedNot(P) == logical
Referenced(P) == [p \in PageIds |-> IF p \in P THEN logical[p] + 1 ELSE logical[p]]

\* The pages of s whose last counted reference s holds.
LastReferencedEarly(s) == {p \in refs[s] : logical[p] <= 2}
LastReferenced(s) == {p \in refs[s] : logical[p] = 1}

MayCall(call) == call \in Calls

Fails == faults < MaxFaults /\ faults' = faults + 1

---------------------------------------------------------------------------
(* Initial state: cf_ms_cuda_create. *)

Init ==
  /\ live = {} /\ disp = {}
  /\ refs = [s \in Seqs |-> {}]
  /\ begin = [s \in Seqs |-> [p \in PageIds |-> 0]]
  /\ layerOf = [p \in PageIds |-> Null]
  /\ nextPage = 1
  /\ pstate = [p \in PageIds |-> "none"]
  /\ logical = [p \in PageIds |-> 0]
  /\ inflight = [p \in PageIds |-> 0]
  /\ table = [s \in Seqs |-> [l \in Layers |-> NoTable]]
  /\ active = [s \in Seqs |-> [l \in Layers |-> NoActive]]
  /\ heap = {}
  /\ slot = [i \in Slots |-> NoSnap]
  /\ ptr = [i \in Slots |-> NoPtr]
  /\ stream = <<>>
  /\ batch = [w \in Workers |-> <<>>]
  /\ launched = [w \in Workers |-> 0]
  /\ unwinding = {}
  /\ faults = 0
  /\ balance = 0

---------------------------------------------------------------------------
(* Sequence and page operations. *)

\* cf_ms_cuda_sequence_create
Create(s) ==
  /\ MayCall("create") /\ s \notin live
  /\ live' = live \cup {s} /\ disp' = disp \cup {s}
  /\ UNCHANGED <<refs, begin, pageVars, bufVars, execVars, faults>>

\* cf_ms_cuda_publish_page_async: the page is registered and referenced before
\* the table is refreshed, and stays so when the refresh fails.  The caller
\* publishes at the end of the layer's sealed history.
Publish(s, l, outcome) ==
  LET p    == nextPage
      pos  == PageSize * Cardinality(LayerPages(s, l))
      t    == Refreshed(table[s][l], s, l, Entries(s, l) \cup {<<p, pos>>}, outcome)
  IN
  /\ MayCall("publish") /\ s \in live /\ p \in PageIds
  /\ FreeIncs("table", s, l) # {}
  /\ IF outcome = "ok" THEN faults' = faults ELSE Fails
  /\ outcome = "alloc" => Cardinality(LayerPages(s, l)) + 1 > table[s][l].cap
  /\ nextPage' = p + 1
  /\ layerOf' = [layerOf EXCEPT ![p] = l]
  /\ pstate' = [pstate EXCEPT ![p] = "live"]
  /\ logical' = [logical EXCEPT ![p] = 1]
  /\ refs' = [refs EXCEPT ![s] = @ \cup {p}]
  /\ begin' = [begin EXCEPT ![s][p] = pos]
  /\ table' = [table EXCEPT ![s][l] = t]
  /\ heap' = IF t.buf = table[s][l].buf THEN heap
             ELSE (heap \ Allocation("table", s, l, table[s][l].buf))
                  \cup Allocation("table", s, l, t.buf)
  /\ UNCHANGED <<live, disp, active, execVars>>

\* cf_ms_cuda_stage_active_async.  The tail keeps its buffers and is overwritten
\* in place; the K and V buffers are one allocation here.  A copy to the device
\* that fails leaves the recorded range alone, the buffers allocated.
StageActive(s, l, outcome) ==
  LET a == active[s][l]
      b == IF a.buf = Null THEN Fresh("active", s, l) ELSE a.buf
  IN
  /\ MayCall("stage") /\ s \in live
  /\ FreeIncs("active", s, l) # {}
  /\ IF outcome = "ok" THEN faults' = faults ELSE Fails
  /\ IF outcome = "alloc"
     THEN a.buf = Null /\ UNCHANGED <<active, heap>>
     ELSE /\ active' = [active EXCEPT ![s][l] =
                          [buf |-> b, staged |-> a.staged \/ outcome = "ok"]]
          /\ heap' = heap \cup {<<"active", s, l, b>>}
  /\ UNCHANGED <<seqVars, pageVars, table, execVars>>

\* The active tail copy_sequence builds for the destination: a private buffer,
\* or nothing when the source has no active tokens.
CopiedTail(a, d, l) ==
  IF active[a][l].staged THEN [buf |-> Fresh("active", d, l), staged |-> TRUE] ELSE NoActive

CanCopy(a, d) ==
  /\ MayCall("copy") /\ a \in live /\ a # d
  /\ (d \in live) => ("overwrite" \in Calls)
  /\ \A l \in Layers, kind \in {"table", "active"} : FreeIncs(kind, d, l) # {}

\* cf_ms_cuda_copy_sequence_async.  A destination that exists is replaced by
\* move assignment: the references and the device buffers it held are not released.
Copy(a, d) ==
  LET t == [l \in Layers |-> Refreshed(NoTable, d, l, Entries(a, l), "ok")]
      n == [l \in Layers |-> CopiedTail(a, d, l)]
  IN
  /\ CanCopy(a, d)
  /\ live' = live \cup {d} /\ disp' = disp \cup {d}
  /\ refs' = [refs EXCEPT ![d] = refs[a]]
  /\ begin' = [begin EXCEPT ![d] = begin[a]]
  /\ logical' = Referenced(refs[a])
  /\ table' = [table EXCEPT ![d] = t]
  /\ active' = [active EXCEPT ![d] = n]
  /\ heap' = heap \cup UNION {Allocation("table", d, l, t[l].buf)
                              \cup Allocation("active", d, l, n[l].buf) : l \in Layers}
  /\ UNCHANGED <<layerOf, nextPage, pstate, execVars, faults>>

\* The same call failing in layer k: at the tail's allocation, at the table's
\* allocation or at its upload.  The references taken and the buffers allocated
\* so far stay; nothing owns them (Buffer has no destructor).
CopyFails(a, d, k, point) ==
  LET gone(kind, l) == \/ l < k
                       \/ l = k /\ kind = "active" /\ point # "tail"
                       \/ l = k /\ kind = "table" /\ point = "upload"
      tails == {l \in Layers : gone("active", l) /\ active[a][l].staged}
      tabs  == {l \in Layers : gone("table", l) /\ LayerPages(a, l) # {}}
  IN
  /\ CanCopy(a, d) /\ Fails
  /\ IF point = "tail" THEN active[a][k].staged ELSE LayerPages(a, k) # {}
  /\ logical' = Referenced({p \in refs[a] : layerOf[p] <= k})
  /\ heap' = heap \cup {<<"active", d, l, Fresh("active", d, l)>> : l \in tails}
                  \cup {<<"table", d, l, Fresh("table", d, l)>> : l \in tabs}
  /\ UNCHANGED <<seqVars, layerOf, nextPage, pstate, table, active, execVars>>

CancelFreeing(s) ==
  /\ MayCall("cancel") /\ s \in disp
  /\ disp' = disp \ {s} /\ heap' = heap \ Storage(s)
  /\ UNCHANGED <<live, refs, begin, pageVars, table, active, execVars, faults>>

\* cf_ms_cuda_cancel_sequence_async
Cancel(s) ==
  /\ MayCall("cancel") /\ s \in disp
  /\ disp' = disp \ {s}
  /\ UNCHANGED <<live, refs, begin, pageVars, bufVars, execVars, faults>>

\* cf_ms_cuda_sequence_remove_async: drops the references, retires pages that
\* lose their last one, and frees the tables and tails at once.
Remove(s) ==
  /\ MayCall("remove") /\ s \in live
  /\ live' = live \ {s} /\ disp' = disp \ {s}
  /\ logical' = [p \in PageIds |-> IF p \in refs[s] THEN logical[p] - 1 ELSE logical[p]]
  /\ pstate' = [p \in PageIds |-> IF p \in LastReferenced(s) THEN "retired" ELSE pstate[p]]
  /\ refs' = [refs EXCEPT ![s] = {}]
  /\ begin' = [begin EXCEPT ![s] = [p \in PageIds |-> 0]]
  /\ heap' = heap \ Storage(s)
  /\ table' = [table EXCEPT ![s] = [l \in Layers |-> NoTable]]
  /\ active' = [active EXCEPT ![s] = [l \in Layers |-> NoActive]]
  /\ UNCHANGED <<layerOf, nextPage, execVars, faults>>

\* cf_ms_cuda_shift_sequence walks layers in order and pages in order of
\* publication, and throws at the first page the range cuts, with the pages
\* before it already moved.  The descriptor tables are not refreshed.
Shift(s, lo, hi, delta) ==
  LET inside(p)  == begin[s][p] >= lo /\ begin[s][p] + PageSize <= hi
      cut(p)     == ~inside(p) /\ begin[s][p] < hi /\ begin[s][p] + PageSize > lo
      before(p, q) == layerOf[p] < layerOf[q] \/ (layerOf[p] = layerOf[q] /\ p < q)
      moved == {p \in refs[s] : inside(p) /\ \A q \in refs[s] : cut(q) => before(p, q)}
  IN
  /\ MayCall("shift") /\ s \in live /\ moved # {}
  /\ \A p \in moved : begin[s][p] + delta \in 0 .. MaxTokens
  /\ begin' = [begin EXCEPT ![s] = [p \in PageIds |-> IF p \in moved THEN @[p] + delta ELSE @[p]]]
  /\ UNCHANGED <<live, disp, refs, pageVars, bufVars, execVars, faults>>

---------------------------------------------------------------------------
(* cf_ms_cuda_execute_batch_async and the device. *)

\* acquire_snapshot: the references and raw pointers of layer l of s.
Snapshot(s, l) == [ref |-> "held", seq |-> s, layer |-> l, pages |-> LayerPages(s, l)]
Pointers(s, l) == [table |-> table[s][l].buf, active |-> active[s][l].buf]

ReleasedTwice(D) == [p \in PageIds |-> inflight[p] - 2 * Cardinality(D \cap Holders(p))]
ReleasedOnce(D) == [p \in PageIds |-> IF D \cap Holders(p) = {} THEN inflight[p] ELSE inflight[p] - 1]

\* The in-flight counts after the references of the slots in D are released.
Released(D) == [p \in PageIds |-> inflight[p] - Cardinality(D \cap Holders(p))]

\* acquire_snapshot for n items: items[j] is the <<sequence, layer>> of the j-th,
\* and its snapshot goes to slot f[j], the lowest free ones.
TakeSnapshots(w, n, items, f) ==
  LET taken   == {f[j] : j \in 1 .. n}
      item(i) == items[CHOOSE j \in 1 .. n : f[j] = i]
      new(i)  == Snapshot(item(i)[1], item(i)[2])
  IN
  /\ MayCall("execute") /\ batch[w] = <<>> /\ w \notin unwinding
  /\ \A j \in 1 .. n : items[j][1] \in disp
  /\ \A j, k \in 1 .. n : j < k => f[j] < f[k]
  /\ taken \cap Outstanding = {}
  /\ \A i \in Slots \ (taken \cup Outstanding) : \A j \in taken : j < i
  /\ slot' = [i \in Slots |-> IF i \in taken THEN new(i) ELSE slot[i]]
  /\ ptr' = [i \in Slots |-> IF i \in taken THEN Pointers(item(i)[1], item(i)[2]) ELSE ptr[i]]
  /\ inflight' = [p \in PageIds |-> inflight[p] + Cardinality({i \in taken : p \in new(i).pages})]
  /\ batch' = [batch EXCEPT ![w] = f]
  /\ balance' = balance + n
  /\ UNCHANGED <<seqVars, pageVars, bufVars, stream, launched, faults>>

\* First critical section: every item is validated and snapshotted.
Acquire(w, n, items, f) == TakeSnapshots(w, n, items, f) /\ UNCHANGED unwinding

\* The same section when the item after the first n is invalid, or its sequence
\* is missing or cancelled: the references taken so far outlive the section.
AcquireFails(w, n, items, f) ==
  n < MaxBatch /\ TakeSnapshots(w, n, items, f) /\ unwinding' = unwinding \cup {w}

\* One kernel is launched, outside the mutex.
Launch(w) ==
  /\ w \notin unwinding /\ launched[w] < Len(batch[w]) /\ Len(stream) < MaxStream
  /\ stream' = Append(stream, [op |-> "kernel", pages |-> slot[batch[w][launched[w] + 1]].pages])
  /\ launched' = [launched EXCEPT ![w] = @ + 1]
  /\ UNCHANGED <<seqVars, pageVars, bufVars, inflight, slot, ptr, batch, unwinding, balance, faults>>

BatchSlots(w) == {batch[w][j] : j \in DOMAIN batch[w]}

\* execute_batch returns: its snapshots vector is gone.
Return(w) ==
  /\ ptr' = [i \in Slots |-> IF i \in BatchSlots(w) THEN NoPtr ELSE ptr[i]]
  /\ batch' = [batch EXCEPT ![w] = <<>>]
  /\ launched' = [launched EXCEPT ![w] = 0]
  /\ unwinding' = unwinding \ {w}

\* A launch fails.
LaunchFails(w) ==
  /\ w \notin unwinding /\ launched[w] < Len(batch[w]) /\ Fails
  /\ unwinding' = unwinding \cup {w}
  /\ UNCHANGED <<seqVars, pageVars, bufVars, inflight, slot, ptr, stream, batch, launched, balance>>

Events(q) == [j \in DOMAIN q |-> [op |-> "event", slot |-> q[j]]]
Pending(D) == [i \in Slots |-> IF i \in D THEN [slot[i] EXCEPT !.ref = "pending"] ELSE slot[i]]

\* Second critical section: every snapshot becomes pending behind an event.
Record(w) ==
  /\ w \notin unwinding /\ batch[w] # <<>> /\ launched[w] = Len(batch[w])
  /\ Len(stream) + Len(batch[w]) <= MaxStream
  /\ slot' = Pending(BatchSlots(w))
  /\ stream' = stream \o Events(batch[w])
  /\ Return(w)
  /\ UNCHANGED <<seqVars, pageVars, bufVars, inflight, balance, faults>>

\* The event of the k-th snapshot cannot be created or recorded.  The earlier
\* ones are pending; the k-th was moved out of the vector and is lost with its
\* references; the later ones stay in the vector.  The catch block also counts
\* the k that were moved as released, which is done here.
RecordFails(w, k) ==
  LET q == batch[w]
      before == {q[j] : j \in {i \in DOMAIN q : i < k}}
  IN
  /\ w \notin unwinding /\ k \in DOMAIN q /\ launched[w] = Len(q) /\ Fails
  /\ Len(stream) + Len(q) <= MaxStream
  /\ slot' = [Pending(before) EXCEPT ![q[k]].ref = "leaked"]
  /\ ptr' = [i \in Slots |-> IF i \in BatchSlots(w) THEN NoPtr ELSE ptr[i]]
  /\ stream' = stream \o Events(SubSeq(q, 1, k - 1))
  /\ batch' = [batch EXCEPT ![w] = SubSeq(q, k + 1, Len(q))]
  /\ unwinding' = unwinding \cup {w}
  /\ balance' = balance - k
  /\ UNCHANGED <<seqVars, pageVars, bufVars, inflight, launched>>

\* The catch block: every snapshot still in the vector is released, the ones
\* whose kernels have been launched too.
Unwind(w) ==
  /\ w \in unwinding
  /\ inflight' = Released(BatchSlots(w))
  /\ slot' = [i \in Slots |-> IF i \in BatchSlots(w) THEN NoSnap ELSE slot[i]]
  /\ balance' = balance - Len(batch[w])
  /\ Return(w)
  /\ UNCHANGED <<seqVars, pageVars, bufVars, stream, faults>>

\* The device finishes the oldest operation of the stream.
DeviceStep ==
  /\ stream # <<>> /\ stream' = Tail(stream)
  /\ UNCHANGED <<seqVars, pageVars, bufVars, inflight, slot, ptr, batch, launched, unwinding, balance, faults>>

ErasableInFlight(p) == pstate[p] = "retired" /\ logical[p] = 0
ErasableBefore(p) == pstate[p] = "retired" /\ logical[p] = 0 /\ inflight[p] = 0

\* The pages reclaim erases, given the counts left by the releases before it.
Erasable(p) == pstate[p] = "retired" /\ logical[p] = 0 /\ inflight'[p] = 0

\* cf_ms_cuda_reclaim_async: releases the snapshots whose events are done, then
\* erases every retired page without references.
Reclaim ==
  /\ MayCall("reclaim")
  /\ inflight' = Released(Completed)
  /\ slot' = [i \in Slots |-> IF i \in Completed THEN NoSnap ELSE slot[i]]
  /\ balance' = balance - Cardinality(Completed)
  /\ pstate' = [p \in PageIds |-> IF Erasable(p) THEN "erased" ELSE pstate[p]]
  /\ UNCHANGED <<seqVars, layerOf, nextPage, logical, bufVars, ptr, stream, batch, launched, unwinding, faults>>

\* The same call when an event query fails: some completed snapshots, the ones
\* before it in the vector, are released, and no page is erased.  The order of
\* the vector is not kept, so D is any part of them.
ReclaimFails(D) ==
  /\ MayCall("reclaim") /\ D \subseteq Completed
  /\ \E i \in Slots \ D : slot[i].ref = "pending"
  /\ Fails
  /\ inflight' = Released(D)
  /\ slot' = [i \in Slots |-> IF i \in D THEN NoSnap ELSE slot[i]]
  /\ balance' = balance - Cardinality(D)
  /\ UNCHANGED <<seqVars, pageVars, bufVars, ptr, stream, batch, launched, unwinding>>

---------------------------------------------------------------------------
(* Next-state relation and specification. *)

Outcomes == {"ok", "alloc", "upload"}
Points == {"tail", "table", "upload"}
Item == Seqs \X Layers

ExecuteNext ==
  \/ \E w \in Workers, n \in 1 .. MaxBatch :
       \E items \in [1 .. n -> Item], f \in [1 .. n -> Slots] :
         Acquire(w, n, items, f) \/ AcquireFails(w, n, items, f)
  \/ \E w \in Workers : Launch(w)
  \/ \E w \in Workers : LaunchFails(w)
  \/ \E w \in Workers : Record(w)
  \/ \E w \in Workers, k \in 1 .. MaxBatch : RecordFails(w, k)
  \/ \E w \in Workers : Unwind(w)
  \/ DeviceStep
  \/ Reclaim
  \/ \E D \in SUBSET Slots : ReclaimFails(D)

OwnershipNext ==
  \/ \E s \in Seqs : Create(s)
  \/ \E s \in Seqs, l \in Layers, o \in Outcomes : Publish(s, l, o)
  \/ \E s \in Seqs, l \in Layers, o \in Outcomes : StageActive(s, l, o)
  \/ \E a, d \in Seqs : Copy(a, d)
  \/ \E a, d \in Seqs, k \in Layers, point \in Points : CopyFails(a, d, k, point)
  \/ \E s \in Seqs : Cancel(s)
  \/ \E s \in Seqs : Remove(s)
  \/ \E s \in Seqs, lo, hi \in 0 .. MaxTokens, delta \in {-1, 1} : Shift(s, lo, hi, delta)

Next == OwnershipNext \/ ExecuteNext
Spec == Init /\ [][Next]_vars

---------------------------------------------------------------------------
(* Properties. *)

SnapType == [ref : {"none", "held", "pending", "leaked"},
             seq : Seqs \cup {Null}, layer : Layers \cup {Null},
             pages : SUBSET PageIds]

\* Types of the counters, page states, references, snapshots and batches.
TypeOK ==
  /\ live \in SUBSET Seqs /\ disp \in SUBSET live
  /\ refs \in [Seqs -> SUBSET PageIds]
  /\ begin \in [Seqs -> [PageIds -> Int]]
  /\ layerOf \in [PageIds -> Layers \cup {Null}]
  /\ nextPage \in 1 .. MaxPages + 1
  /\ pstate \in [PageIds -> {"none", "live", "retired", "erased"}]
  /\ logical \in [PageIds -> Nat]
  /\ inflight \in [PageIds -> Nat]
  /\ slot \in [Slots -> SnapType]
  /\ batch \in [Workers -> Seq(Slots)]
  /\ launched \in [Workers -> Nat] /\ unwinding \in SUBSET Workers
  /\ faults \in 0 .. MaxFaults
  /\ balance \in Int

\* No sequence references a page that is not registered or is retired: what
\* refresh_descriptor_table throws on and the audit rejects never happens.
NoDanglingReference == \A s \in live : \A p \in refs[s] : pstate[p] = "live"

\* A page's logical count is never below the number of sequences that reference
\* it, even after failed copies and overwrites, so remove never underflows it.
LogicalRefsCover == \A p \in PageIds : Cardinality(Observers(p)) <= logical[p]

\* A page's in-flight count is the number of snapshots that still hold it,
\* leaked ones included: release_snapshot_refs never meets an underflow.
InFlightExact == \A p \in PageIds : inflight[p] = Cardinality(Holders(p))

\* Reclaim never erases a page some snapshot still holds, whatever fails.
SnapshotPagesKept ==
  \A i \in Outstanding : \A p \in slot[i].pages : pstate[p] \in {"live", "retired"}

\* A kernel on the device never reads a page that reclaim has erased: the
\* in-flight references outlive the kernels, not only the host call.
KernelPagesKept == \A p \in RunningPages : pstate[p] \in {"live", "retired"}

\* cf_ms_cuda_audit: references resolve, and counts agree with the references.
AuditPasses ==
  /\ NoDanglingReference
  /\ \A p \in PageIds : pstate[p] = "live" => logical[p] = Cardinality(Observers(p))

\* The descriptor table a kernel would read lists the layer's pages at the
\* positions the sequence gives them.
TableCurrent ==
  \A s \in live, l \in Layers :
    /\ table[s][l].ent = Entries(s, l)
    /\ LayerPages(s, l) # {} => <<"table", s, l, table[s][l].buf>> \in heap

\* While no CUDA call fails nothing is lost: the allocations not freed are those
\* a sequence owns, snapshots_acquired - snapshots_released counts the snapshots
\* still held, and no page outlives its last sequence without being retired.
NothingLeaks ==
  /\ heap = UNION {Owned(s, l) : s \in live, l \in Layers}
  /\ balance = Cardinality(Outstanding)
  /\ \A p \in PageIds : pstate[p] = "live" <=> Observers(p) # {}

\* What shutdown relies on, which calls reclaim once: when the device is idle, no
\* batch is between its two halves and no CUDA call has failed, one reclaim
\* releases every snapshot and erases every retired page.
Quiet == stream = <<>> /\ \A w \in Workers : batch[w] = <<>>
Settles ==
  Reclaim /\ Quiet /\ faults = 0 => Outstanding' = {} /\ \A p \in PageIds : pstate'[p] # "retired"
ReclaimSettles == [][Settles]_vars

\* Slots of snapshots whose kernels have not been launched yet, and will be.
Unlaunched ==
  UNION {{batch[w][j] : j \in launched[w] + 1 .. Len(batch[w])} : w \in Workers \ unwinding}

\* The buffers the raw pointers of a snapshot point at.
SnapStorage(i) ==
  Allocation("table", slot[i].seq, slot[i].layer, ptr[i].table)
  \cup Allocation("active", slot[i].seq, slot[i].layer, ptr[i].active)

\* The raw pointers a batch captured are still allocated when it launches with them.
HeldStorageAllocated == \A i \in Unlaunched : SnapStorage(i) \subseteq heap

\* How a batch comes to hold a pointer to a freed buffer: only by the removal of
\* the sequence, or a publication to the same layer that replaces its table,
\* between its two halves.  No other call in the gap does it, whatever fails.
Dangles(i) == ~(SnapStorage(i) \subseteq heap)
FreedByOwner(i) ==
  LET s == slot[i].seq
      l == slot[i].layer
  IN \/ Remove(s)
     \/ \E o \in Outcomes : Publish(s, l, o) /\ table'[s][l].buf # table[s][l].buf
OwnersFree ==
  \A i \in Unlaunched' : Dangles(i)' => i \in Unlaunched /\ (Dangles(i) \/ FreedByOwner(i))
OnlyOwnersFree == [][OwnersFree]_vars

\* The resolver implements page sharing: owners are the referencing sequences,
\* readers the snapshots that hold the page, leaked ones included.
Sharing == INSTANCE SharedPages WITH
  Pages <- PageIds, Readers <- Slots, store <- pstate,
  owners <- [p \in PageIds |-> Observers(p)], readers <- [p \in PageIds |-> Holders(p)]
ImplementsSharing == Sharing!Spec
=============================================================================
