# chromoFold: formal models of the serving runtime

TLA+ models of the parts of chromoFold that own state or decide something: the caches
that share compressed key/value pages between sequences, the engines that fill and seal
pages, the server runtime over them, the scheduler, leases and device placement of the
cluster, the release gates, the page store on disk, and the indices and codecs the
kernels read. Each module is translated from the source file it names, is model-checked
by TLC on a small instance, and, where listed below, is proved about with TLAPS for
every value of its constants.

Paths are relative to the repository. `PROJECT.json` maps every modelled definition to
its lines and lists the hazards, the runs, and for every checked property a
one-definition mutation of the model that TLC must reject.

## 1. The system

| Component | Source | State | Calls that change it | Module |
|---|---|---|---|---|
| CUDA multi-sequence resolver | `src/cuda/multisequence_cuda_resolver.cu` | sequences and their page references, shared pages with two reference counts, descriptor tables, active tails, snapshots behind CUDA events | create, publish, stage, copy, cancel, remove, shift, execute batch, reclaim | `MsCudaResolver` |
| Host multi-sequence cache | `src/multisequence_cache.cpp` | active tail of each layer, generations, speculation transactions | create, copy, remove, remove range, shift, append, speculation begin, commit, rollback | `MultisequenceCache` |
| Server runtime | `src/llama_server_runtime.cpp` | the list of live sequences, the shutdown flag | slot create, reset, cancel, copy, partial removal, shift, append, execute batch, shutdown | `ServerRuntime` |
| llama-server bridges | `integrations/llama.cpp/multisequence/` | slot to sequence map | slot create, reset, sequence copy, remove, cancel | `ServerSlots` |
| Device sealing engine | `src/cuda/device_kv_seal_attention.cu` | sealed pages, the active page, the descriptor table, the seal in progress | stage, seal, clear | `SealEngine` |
| Device KV dataplane | `src/cuda/device_kv_dataplane.cu` | active buffers and their token range | append, clear; seal and attention refuse | `DeviceKvDataplane` |
| Compressed KV cache | `src/runtime/compressed_kv_cache.cu` | pages and tail of each (layer, head) | append, seal, flush, clear | `CompressedKvCache` |
| llama.cpp callback, C bridge | `integrations/llama.cpp/runtime/` | pending K or V of a layer, next position, captured query | the graph callback; append, seal, flush, clear | `KvCallback`, `RuntimeBridge` |
| Paged KV runtime, reference, attention window | `src/runtime/kv_*.cpp`, `src/cuda/paged_kv_attention.cu` | none kept between calls | layout validation, the walk of the kernels, online softmax | `KvPages` |
| Page and stream codecs | `src/runtime/kv_runtime.cpp`, `kv_reference.cpp`; `fused_matmul.cu`, `rans.cu`, `delta_apply.cu` | none | quantise, decode from any block | `Codecs` |
| Adaptive compression | `src/adaptive_compression.cpp` | configuration, counters | analyse, choose, encode, decode, recompress | `AdaptiveCompression` |
| Text index | `tools/build_index.cpp`, `rrr_wavelet_device.cuh`, `suffix_array.cu` | the index under construction, the search in progress | prefix doubling, build, search, locate | `TextIndex` |
| Production scheduler | `src/production_scheduler.cpp` | tenants and their usage, workers and circuits, requests | register tenant or worker, admit, complete, cancel, open or recover a circuit, drain, shutdown audit | `ProductionScheduler` |
| RC1 runtime, qualification | `src/rc1_runtime.cpp`, `src/qualification.cpp` | samples and the verdict | record, decide | `ReleaseGates` |
| Disaggregated serving | `src/disaggregated_serving.cpp` | leases, manifests, worker registry | acquire, renew, transfer, publish; register and fail a worker, route | `ClusterLease` (leases) |
| Distributed runtime | `src/distributed_runtime.cpp` | placements of sequences, peer links | place, migrate, execute, shutdown | `DistributedRuntime` |
| Multi-GPU CUDA runtime | `src/cuda/multigpu_cuda_runtime.cu` | failed devices, evidence counters | validate topology, execute, migrate, inject failure, shutdown | `MultiGpuRuntime` |
| Persistent page store | `src/persistent_page_store.cpp` | the file, its temporary file, the index | open, put, close | `PersistentPageStore` |
| Device memory helpers, benchmarks; security release; hub, tools, packaging, site | see `PROJECT.json` | none, or files | | not modelled |

How they interact. A llama-server slot is mapped to a sequence id by the bridge. The
server runtime keeps the list of live ids and drives two caches under it, the host cache
and the CUDA resolver, which have a mutex each and do not know of one another. A batch
takes snapshots in the resolver: an in-flight reference for each page and the raw
pointers of the table and tail. It then drops the mutex, launches kernels, and hands the
snapshots to CUDA events that a later reclaim polls. There are three single-sequence
paths under a llama.cpp graph: the dataplane, which only collects tokens; the sealing
engine, which turns a full active page into compressed storage; and the compressed
cache, fed tensor by tensor from the graph callback or layer by layer from the C bridge.
The scheduler places requests on workers, the cluster decides which worker owns a cached
page, the distributed runtime on which device a sequence lives, and the gates judge what
was measured of all of it.

What is hard here:

- two reference counts for each page with different owners (sequences, snapshots) and
  releases in any order, by three different calls;
- critical sections with a gap: execute batch in the resolver, and five calls of the
  server runtime, act on what they checked before they dropped a mutex;
- exceptions half-way: copies, publications, seals, appends and batches of shards make
  several CUDA calls and mostly have no undo; `Buffer` has no destructor;
- two or three mutable copies of one fact: host references and the uploaded table; the
  live list and the two caches; a lease and its copy in a manifest; a placement and the
  copies callers keep; the heads of a layer, which are appended one by one;
- transactions over layers that are applied one layer at a time;
- K, V and Q of a layer that arrive as separate callbacks, in any order, some rejected;
- boundaries: positions that wrap, partial blocks and superblocks, percentile indices,
  ranks of equal prefixes.

## 2. Modules and how they compose

    SharedPages            what page sharing promises: owners, readers, retire, erase
      ^ implemented by
    MsCudaResolver         counts, tables, buffers, snapshots, stream and failures
      |- MsCudaResolver_proofs   invariants, refinement, what is exact without failures
      '- MCMsCudaResolver        instances

    ServerRuntime          live list over the interfaces of both caches
      '- ServerRuntime_proofs; with Cluster in Fleet (MCFleet)

    MultisequenceCache     the host cache alone
    ServerSlots            the bridge's map over the host cache's set of sequences
      '- both in CacheBridge (MultisequenceCache_proofs, MCMultisequenceCache)

    SealedHistory          what sealing does to the pages, in one step
      ^ implemented by
    SealEngine             the seal point by point
    DeviceKvDataplane
    CompressedKvCache  <- extended by -  KvCallback, RuntimeBridge
      '- all in DeviceEngines (DeviceEngines_proofs)

    ProductionScheduler, ReleaseGates
      '- both in ControlPlane (ProductionScheduler_proofs, MCProductionScheduler)
    ClusterLease, DistributedRuntime, MultiGpuRuntime
      '- all in Cluster (ClusterLease_proofs); with ServerRuntime in Fleet (MCFleet)

    TextIndex, KvPages, AdaptiveCompression
      '- all in Kernels (Kernels_proofs)
    Codecs
      '- with Kernels in DataPaths; with DeviceEngines in DevicePaths (MCDevicePaths)

    PersistentPageStore                                  in MCPersistentPageStore
    FoldTheorems           folds over sets and sequences, for the proofs

Components that share no state in the code share a run, not a state: a composition
(`CacheBridge`, `DeviceEngines`, `ControlPlane`, `Cluster`, `Kernels`, `DataPaths`,
`Fleet`, `DevicePaths`) has a variable chosen in the initial states (`part`, `engine`,
`control`, `bridge`, `side`, `work`) that says which of them a behaviour is of, and the
variables of the others stay where they start.
So the size of such a run is the sum of its parts, and a property of a part is the
part's own property under that condition. The compositions have the constants of their
parts, and theorems are about them; an `MC...` module adds the sets of a run. Modules
name code functions in the comment above each action; state names follow the source's.

**MsCudaResolver.** `live`, `disp`, `refs`, `begin` are the sequence map; `pstate`,
`logical`, `inflight` are `SharedPage`; `table` and `active` are `LayerState`; `heap` is
what `cudaMalloc` has given out; `slot` and `ptr` are the snapshots; `stream` is the
in-order CUDA stream; `batch` and `launched` are the local variables of a thread inside
`execute_batch`. That function is three kinds of step (`Acquire`, `Launch` for each
item, `Record`), because only its first and last parts hold the mutex; every other
function is one action. A CUDA call that can fail is an `outcome` parameter or a
`...Fails` action that leaves exactly what the code leaves when the exception passes
through it. `Calls` selects the functions a run's clients use. `Acquire` refuses a batch
with an invalid item without a step: the code takes the references of the items before
it and gives them back inside one critical section.

**MultisequenceCache.** No function in the file inserts into `page_store`, so what
changes is tails, generations and transactions. `ok` records whether the last call
returned success: a call that throws at a later layer has changed the earlier ones, and
`Reached(Bad)` is the set of layers it got to. Shifts are by any of `Deltas`; one that
fails leaves the layers before it moved. `born` and `opened` are history variables.

**ServerRuntime.** `call[w]` is the position of a thread between the runtime's mutex and
the caches' calls. "Lives" number the sequence objects built under an id, so that acting
on a re-created id is visible. A second shutdown returns at once (`ShutdownAgain`); a
batch whose events cannot be created loses its snapshots (`RecordFails`).

**ServerSlots.** `loose` collects the slots whose sequence a call not their own has
replaced or removed: a copy, a plain removal, or the reset of another slot on that id.

**SealEngine.** A seal is a chain of points, `started` to `pushed`; `Fail` is the catch
block reached from any of them, the last included. A staging stores the position it is
given, and one that fails at the values has overwritten the keys. The abstract
`SealedHistory` seals in one step, and says what a failure after the push leaves
(`PublishFails`): the page in the history, its tokens still active.

**DeviceKvDataplane.** A buffer maps an index to the value stored there: the append,
token, head and dimension it came from. An append may fail at either allocation, or when
the launch error is read, when the kernel of either tensor may have run. Strides are
bytes, so a stride that divides by no scalar, or that is short of a row, is among the
inputs. The sums of the contiguity and the capacity check wrap at `Word`.

**CompressedKvCache, KvCallback, RuntimeBridge.** A token is a record of the pass its
key and its value came from, so a key paired with the value of another pass is visible.
The cache's calls are operators on the record `cache`, with the number of uploads that
succeed before one fails; the two clients turn them into actions. In `KvCallback`,
llama.cpp itself is external: one forward pass at a time, layers in order, K, V and Q of
a layer in any order, `kqv_out` last; a pass of several tokens starts a sequence.

**KvPages.** A layout is any pages and tail the validation may be given, on a position
range that wraps soon. `Attended` is what the reference kernel walks, in its order; the
softmax it carries is a maximum and a bag of weights, so that a rescaling left out is
visible without exponentials. The windows of the fused and of the production kernel are
the sets `FusedWindow` and `ProductionWindow`; the latter has no upper end, and wraps.

**Codecs.** A quantised page keeps its largest magnitude as the scale, which makes
dequantisation exact rational arithmetic. The decoders are the kernels'; encoders, where
the repository has only the decoder, are modelled from what the decoder reads and marked
external. `Emitted` and `Refilled` (rANS renormalisation) and `LowerBound` (the search
of a leaf) are the only RECURSIVE operators of the project; no module with a theorem
reaches them.

**AdaptiveCompression.** `choose` over the analysis of the values of each half of a
page, packing into bytes with block scales, and recompression from the decoded values.
Values are multiples of a unit chosen so that every quantised value is an integer, and
within the range that raw pages do not clamp (`AdaptiveConstants`): beyond it a raw page
stores the nearest end of the range, and no half step bounds the error.

**TextIndex.** Prefix doubling is one action for each round, for the host builder
(ranks) and the GPU builder (packed 64-bit keys); then the BWT, one action for each
wavelet level with its RRR plane, and the samples for locating. Backward search and the
LF-walk are stepped symbol by symbol.

**ProductionScheduler.** One action for each call. Selection iterates a hash map, so the
worker is `Selected(order, q)`, the fold of the loop over an arbitrary order of the
workers.

**ReleaseGates.** A sample is the side of each limit it is on. A sorted list of samples
then is a number of samples and how many are above, and a percentile is within the limit
when its index is below the first of those. What is reported is any sample of the sets
`Events`, `ReferenceSamples` and `Measurements`; the series of a measurement is a model
value chosen apart from its error, where the code's key contains the error's name.

**ClusterLease.** `held` is every lease ever returned to a worker; a renewal, transfer
or publication presents any of them at any time, which covers lost, duplicated, delayed
and reordered calls.

**DistributedRuntime, MultiGpuRuntime.** `copies` is every placement ever returned to a
caller. A batch is one action, since its call holds the mutex throughout; its items are
folded in order, and the fold stops where the code returns. Items, shards and their
number are constants, and so is which CUDA call of a batch fails (`FailingCalls`, 0 for
none). `batch` and `last` are history variables for the action properties.

**PersistentPageStore.** `file` and `tmp` are sequences of records; a failed write
leaves a torn record, a crash between write and rename a whole one. A scan of a torn
record may take any key from it, since its bytes run into what follows. `Get` takes a
torn record as rejected; the checksum does not cover scales, so a record torn there
might be served, which the model leaves out.

## 3. Runs

| Run | Shows | Bounds |
|---|---|---|
| `resolver_sharing` | without CUDA failures: counts equal references (`AuditPasses`), tables list what the host lists (`TableCurrent`), no allocation or snapshot is lost (`NothingLeaks`), no kernel on the device reads an erased page (`KernelPagesKept`), and one reclaim of an idle device releases every snapshot and erases every retired page (`ReclaimSettles`) | 2 sequences, 2 pages, 2 threads, batches of 2, table capacity from 1 |
| `resolver_faults` | one CUDA failure anywhere, copies onto live sequences: counts never fall below what they count (`LogicalRefsCover`, `InFlightExact`), held pages stay (`SnapshotPagesKept`), the resolver implements `SharedPages` (`ImplementsSharing`), and a batch comes to point at a freed buffer only by a removal of its sequence or a publication that replaces its table (`OnlyOwnersFree`) | 2 sequences, 1 page, 2 snapshots |
| `resolver_layers` | copies and stagings failing in either of two layers, and shifts that stop at a cut page, leave references resolvable (`NoDanglingReference`) | 2 layers, 2 pages, no overlap with a batch |
| `resolver_reset_race` (violation) | the raw pointers of an acquired batch outlive its sequence's buffers (`HeldStorageAllocated`): they do not | 1 sequence and 1 batch suffice |
| `cache_calls` | tails fit their page and transactions stay within a sequence's life (`CacheSound`); commits keep a prefix, and a call that fails at a layer leaves the layers before it cut short or moved and the others as they were (`StepsKeepTokens`); rollback restores even tails (`RollbackRestoresLength`); a slot owns its sequence, alone, until another call takes that away, and no two slots own one (`MappingSound`) | 2 sequences, 2 layers, page size 2, 6 generations, 1 transaction, shifts by 1 both ways; 3 slots, 3 ids, 6 lives |
| `device_paths`, the data paths | prefix doubling orders prefixes (`RanksOrderPrefixes`), all readers of the index agree (`ReadersAgree`), search and locate are exact (`SearchExact`); a layout that validates holds each position once (`LayoutsDisjoint`); a launch of the reference kernels attends to its window, each position once, with one softmax, the fused window is the same, and the production window leaves out nothing of it that does not wrap (`AttentionExact`); adaptive pages decode to half a step (`PageFaithful`); quantised pages read the same by the fast and the table path, to half a step, and Huffman, rANS and delta streams decode to what was encoded from wherever a kernel starts (`DecodersExact`) | text: streams of 1 and 19 symbols of 3, blocks of 4, superblocks of 2, sampling 3, patterns to 2; layouts: 2 KV heads of 2, 6 positions, 3 pages of 2, windows to 2; adaptive: 3 values, blocks of 2, 3 calls; codecs: words of 8 bits, widths 2 and 4, 2 x 3 pages, blocks of 1, 2, 4, streams of up to 4 of 3 symbols |
| `device_paths`, the engines | seals that fail at any point, after the push included: no buffer is freed twice or lost but a replacement page, the table never holds the descriptor of another list (`StorageSound`), and pages join the history whole, finite and in order (`ImplementsHistory`); an active page holds exactly the accepted appends (`ActivePageExact`); behind the callback and the bridge: statistics are the tokens held (`StatsExact`), heads stay in step with what the client counts (`ClientsInStep`), what replaces llama.cpp's attention is attention over its own tokens (`ServedExact`), a failed upload is made up for (`AppendRecovers`) | seal: 2 layers, 2 pages of 2, table capacity from 1, staged at 0 or 1, 1 failure; dataplane: 2 layers, page size 2, 2 heads of 2, strides 2, 4, 5, 12, tensors of 1 and 2 tokens at 0 or 1, 3 appends, words to 8; callback: 2 layers, 2 heads, passes of up to 3 tokens, 5 in a sequence, 6 in all, 1 rejection, 1 failing upload, the first or second of its call; bridge: 3 tokens, 1 such failure |
| `seal_failure` (violation) | a page that was not published stays invisible (`CandidatesInvisible`): after a failed copy of the table it does not | as `device_paths` |
| `control_plane` | admission counts are exact and bounds hold (`AdmissionSound`), drained workers stay idle (`DrainsHold`), the choice of worker is independent of map order (`BestWorkerChosen`); an opening verdict is true of everything recorded (`VerdictsSound`) | 4 requests, 2 tenants, 2 workers, 3 kinds of request; gates: 21 samples with one trouble each at most, limits of 2 series, availability 95, counts wrap at 4 |
| `completion_quota` (violation) | a tenant is never charged more completion tokens than its quota (`QuotaKept`): it is | as `control_plane`, 2 requests |
| `fleet` | the server: the live list is backed by both caches, a held snapshot has one launcher, the resolver is empty when the first shutdown has returned (`ServerInv`); leases: only the owner of the lease in force is accepted (`Fenced`), a page the router counts is published under it (`RoutedIsOwned`); placements: stale ones are told from the one in force, which gives the layers out in order and leaves no device idle (`Fencing`); batches: the counters say what happened (`EvidenceExact`) | server: 2 ids, 2 threads, 2 lives, 2 snapshots, 1 failure; leases: 1 page, 2 workers, duration 2, clock to 5, 4 generations; devices: 3 in two peer groups, 5 layers, 1 sequence, 3 generations, a batch of up to 2 items; GPUs: 2, up to 2 calls, then a batch of up to 2 shards of up to 2 pages failing at any of its seven CUDA calls |
| `fleet_transport` (violation) | a batch refused for want of a transport has dispatched nothing (`BatchValidatedFirst`): it has | as `fleet` |
| `store_two_keys` (violation) | a page put with success is served (`PutPagesServed`): after a second put it is not | 2 keys, 2 pages, 2 records |

Why these bounds are enough. In the resolver the interesting shapes are a shared page
(two sequences), a last and a not-last reference, a table that grows (capacity 1 and 2
pages), a batch with more than one item so that some kernels are launched before others,
and two snapshots of one page; each occurs within the bounds. A second layer matters
only to calls that walk layers, and these get a run of their own. Speculation needs two
layers with unequal tails and a page size of 2, so that there is a partial accept. A
second page makes a seal's table grow once it has a page to lose. The callback needs a
prompt longer than a page, a page that fills up afterwards, one pass turned away and a
second sequence; the heads drift, or do not, with two of them. Admission needs each
bound to be hit by two requests while a third has another tenant; from 20 samples on a
95th percentile leaves one out, and 21 are one more. A stale lease needs an owner, a
successor and a time when both leases are unexpired by their own copies; generation 4
allows the first owner to come back, and so does generation 3 of a placement. Five
layers on three devices do not divide evenly. A stream of 19 symbols takes several
rounds of doubling and fills more than one superblock and anchor; one of a single symbol
leaves the last block partial. Lease pages do not interact, so one is enough. Two shards
with two pages each from the other device make seven CUDA calls, and any of them fails.
A tensor of two tokens fills a page and does not fit behind one of one token; with words
to 8 the sums of the dataplane's checks do not wrap, which `PlaneConstants` asks for
(section 7).

Every bound of a run, and every set of inputs that stands for a larger one, is a
CONSTANT, and its module says what it bounds or which calls it is an input of.
Only the windows that `AttentionExact` tries, which has no theorem, are written in the
property.

Symmetry is used for sets of ids that the module treats alike: sequences, threads of the
resolver, requests, layers of the engines.

`CHECK_DEADLOCK FALSE` is set where the bounded instance ends: generations or lives are
used up (`cache_calls`), the server has stopped (`fleet`), tokens or appends are used
up, a search or an encoding is done (`device_paths`, `seal_failure`), the temporary file
is full (`store_two_keys`).

## 4. Fairness

No run checks liveness, and no specification assumes fairness. What a user of the
resolver would ask for first, that retired pages are erased eventually, is promised by
nothing in the code: only shutdown calls reclaim, once, and without waiting for events.
What can be said without that is `ReclaimSettles`: the one reclaim leaves nothing behind
if the device is idle and no batch is between its halves. The loops of the server, of a
batch and of a seal are over finite lists and wait for nothing.

## 5. Theorems

Assumptions are the named `ASSUME`s of the modules: bounds are naturals, `Seqs` and the
scheduler's workers are finite, layers are naturals, sizes and limits are positive, a
sort key has room for a rank or a symbol and one more, an adaptive page's values are in
the range that raw pages do not clamp, a length or position given to the dataplane and a
page together fit its words. TLC evaluates them in the runs.

**Resolver** (`MsCudaResolver_proofs`): `TypeCorrect`, `ReferencesResolve`,
`LogicalCounted`, `InFlightCounted`, `HeldPagesKept`: for any number of sequences,
layers, threads, pages and failures, with any subset of the calls. None of them is
inductive alone. `IInv` is `TypeOK`, `NoDanglingReference`, `LogicalRefsCover`,
`InFlightExact`, `SnapshotPagesKept` and three facts:

- `FreshUnused`: ids from `next_page_id` on are unregistered, unreferenced and
  uncounted;
- `DeadSeqsEmpty`: a sequence that is not live has no references;
- `FreeSlotsEmpty`: an unused snapshot holds no pages.

`LogicalRefsCover` is what makes `Remove` sound: a page with count 1 is referenced by
the leaving sequence alone, so retiring it leaves no dangling reference. `InFlightExact`
does the same for `Reclaim`: a count of 0 means no holder, so what is erased is not
held. `Shift` keeps begins integers and touches no count. The proof has a lemma for each
ownership action, and for batches one for acquiring and one for releasing any set of
snapshots, which serves `Reclaim`, its failure, `LaunchFails` and `RecordFails`.

**Refinement** (same module): `Spec => ImplementsSharing`, from the same `IInv`. Owners
of a page are the live sequences that reference it, readers the snapshots that hold it,
leaked ones included. Publish maps to `Publish`, a copy to `Share`, a removal to `Drop`,
acquisition to `Read`, and every release to `Collect`. Failed copies stutter, since the
extra counts have no owner. What `SharedPages` promises then holds of the resolver:
`UsedKept` (referenced pages are live, held ones exist) and `RetirementFinal` (a retired
page never regains an owner, a reader, or its storage).

**Exactness** (same module, second half). `KernelsReadLivePages`, `AuditHolds`,
`NothingLost`, `TablesCurrent` and `ReclaimLeavesNothing` are not true of every
behaviour, and each theorem has the hypothesis its counterexamples ask for (section 7):

- `faults = 0` so far, in all five: a launch error releases the pages of kernels that
  are on the stream, a failed event keeps a snapshot for ever, and failed calls keep
  counts and buffers;
- no copy onto a live sequence, in all but the first: it overwrites references and
  buffers;
- no shift, in `TablesCurrent`: a shift does not refresh the uploaded table.

Each hypothesis is about the state or about which calls clients make, never about the
interleaving. The invariants behind them, one for each part of the state: `BatchInv`
(the snapshots of a batch are held and its own, and the pages of every kernel on the
stream are held by a snapshot that is in a batch or has an event behind that kernel),
`CountInv` (counts equal observers, and a page is live exactly when observed),
`BufferInv` (the heap is the tables and tails of live sequences, one owner each),
`TablesListed` (a table lists the pages of its layer at their positions).
`ReclaimLeavesNothing` (`ReclaimSettles`) follows from `BatchInv` and `CountInv`: on an
idle device every event has completed, and what counts are left are those of sequences.
`OwnersFreeBuffers` (`OnlyOwnersFree`) delimits `resolver_reset_race` with no hypothesis
at all, failures and every call in the gap included: a pointer of a snapshot that waits
for its launch is to an allocated buffer until a removal of its sequence, or a
publication to its layer that replaces the table. A copy, a cancellation, a staging, a
reclaim, or a call for another sequence never does it.

**Host cache** (`MultisequenceCache_proofs`): `TransactionsInLife`, `TokensKept`,
`LengthsRestored`, for any sequences, layers, page size and order of the calls, failing
ones included. `TokensKept` says of a call that fails at a layer exactly what the code
leaves: that layer, the later ones and the transactions as they were, the layers before
it cut short by a commit or a removal, or moved by one distance by a shift, which is any
integer. `IInv` is `TypeOK` and, for each sequence: tails fit a page; the
generations are ordered, birth, then the speculation's, then the sequence's, then the
global one; an open speculation belongs to a present sequence, and its baseline is the
length some layer had when it began. The order is what tells a transaction of an
overwritten sequence from one of its successor; the last part gives `LengthsRestored`,
since a rollback gives every tail the baseline, and equal opening lengths are all equal
to it.

**Slots** (same module): `SlotsKeepTheirSequences` (`MappingSound`), for any slots, ids
and lives. `SlotsInv` has beside the types that no slot and no id has a life not yet
built (`LivesBuilt`), that no two slots have the same one (`GivenOnce`), and that a slot
not in `loose` has the life now under its id (`SlotsCurrent`). Two such slots on one id
would have the same life, so each is the only owner. Slots in `loose` are excepted, and
section 7 has what becomes of them.

**Server runtime** (`ServerRuntime_proofs`): `ServerSound`, `Spec => []ServerInv`, for
any sequences, threads and batches and a failure in any copy, launch or event. `IInv` is
types, `LiveIsBacked`, and:

- `Closing`: one thread shuts down; until it is done, whatever either cache still has is
  on its list, and of the sequence it is at nothing remains in the resolver after the
  device call;
- `Launching`: launchers and held snapshots correspond one to one.

`Closing` is why a shutdown that races copies and slot creations misses nothing: the
flag and the list change in one critical section, and the locked calls check the flag.
It speaks of the shutdown that took the list; a second one returns 0 at once, while the
first may be at work, and its return means nothing (section 7).

**Sealing engine** (`DeviceEngines_proofs`), with failures at any point, after the push
included, and whatever positions are staged. `NothingFreedTwice`: each record and the
seal in progress own what they refer to, and what is allocated beyond that is at most
one page for each failure (`SealAccounted`). `StorageHolds` (`StorageSound`) adds the
table: it has room for the pages, and what it holds are descriptors of this list, in
order; that it holds all of them is `CandidatesInvisible`, which the run `seal_failure`
refutes. `SealsExtendHistory` (`ImplementsHistory`): every behaviour is one of
`SealedHistory`, in which a page joins whole, finite, with the position it was staged
with, behind those before it, and only a clear takes pages away. Their invariant adds
`Ordered`: the table has room for the pages and leads with theirs, a page past the scan
is finite, and the page pushed is the active one.

**Device KV dataplane** (same module): `AppendsHeld` (`ActivePageExact`), for any
layers, heads, dimensions and page size, and any lengths, strides and positions of the
tensors within `PlaneConstants`. Two things make it more than bookkeeping. Strides that
pass validation keep every value of a tensor clear of every other (`LaterIsBeyond`), so
what is loaded is what was meant; and the index of a value determines its token, head
and dimension (`IndexParts`), so the one-dimensional kernel writes the tokens it is
given behind those held, and nothing else (`ConvertExact`). Both are nonlinear
arithmetic, done with a monotonicity lemma. `PlaneInv` is, for each layer: types;
appends are within the range of the layer, and have as many tokens as it counts; each is
stored, in K and in V, where its position puts it. A failed append leaves this because
it writes behind the tokens held only, and a new beginning is written only when none
are. The bytes counted are at most those allocated: a successful append counts them all,
a failed one only adds.

**Compressed KV cache** (same module): `StatsHeld` (`StatsExact`), `ClientsStay`
(`ClientsInStep`) and `Recovery` (`AppendRecovers`), for any layers, heads and page
size, under both clients and whatever uploads fail. The argument is about one head at a
time: what sealing leaves a head with and puts among its pages (`CutHead`), and that
pages are whole and follow one another up to the tail (`Regular`). An append at the end
of a regular head is never refused and leaves it regular, wherever the uploads stop
(`AppendKeeps`), which is why the callback may advance `tok_begin` without looking. The
loop over the heads of a layer is a recursive function: its existence and what holds
after each head are proved by least counterexample (`LayerKeeps`, `LayerReaches`). For
the bridge the heads up to one hold the tokens appended and the others do not. The
statistics are sums over slots, and each call changes a sum by what it moves
(`SealKeeps`, `FlushKeeps`). The positions of a regular head, a flattened sequence of
sequences, are the numbers up to its length (`RegularPositions`).

`AttentionServed` (`ServedExact`) is about the tokens at those positions, and needs what
the callback has done of a pass in progress. `Carries` says that a head holds a given
sequence, page by page and then its tail; cutting keeps it and an append extends it
(`CutFills`, `AppendFills`, `LayerFills`). `ShadowInv` says, while no tensor has been
turned away: a layer the pass is through with holds all of llama.cpp's tokens, one it is
not holds those before the pass, unless these are of an older sequence which the first
layer has yet to drop; a buffer holds the tensor of the pass whose counterpart has not
come, and the query captured is of this pass. Without the condition on rejections it is
false: a buffer left by a rejected tensor is paired with a later pass. kqv_out comes
when keys, values and queries have, so its layer holds everything, and what a query at
position q attends to, page by page and then the tail, is the first q + 1 of the tokens
(`LocatedIs`, `AttendedIs`).

**Scheduler** (`ProductionScheduler_proofs`), for any tenants, workers, policies,
requests and orders of calls, ids used again included. `AdmissionCounts`
(`AdmissionSound`): what admission decides on equals the requests, the GPU time charged
to tenants is that on record, sums over tenants are within the cluster's limits, tenants
within their own, and a request taken is running, waiting, completed once or cancelled.
It says nothing of completion tokens, which the run `completion_quota` shows to exceed
their quota. `IInv` is the types and each tenant's counts and limits, `Books` (each
total over the tenants is what it counts, and within its limit), `Placed` (requests are
on registered workers, and none on a drained one). `DrainsStay`: no order of drain,
circuit and recovery puts a request on a drained worker. `BestWorkerAlways`: the fold
over any order of the hash map picks the best score and least id, because the comparison
is a total order.

**Gates** (same module): `VerdictsHold` (`VerdictsSound`), for any sizes and limits, and
any sequence of events, measurements and reference samples of any sets of them, several
troubles in one sample included. `Rc1Inv` and `QualInv` say what the totals are of; that
a percentile index points into the good samples is arithmetic on the index the code
computes.

**Leases** (`ClusterLease_proofs`): `StaleLeasesFenced` and `RoutedPagesOwned`, for any
pages, workers and duration. `IInv` adds `Behind` (a manifest is of the lease's
generation, with its owner and no later expiry, or of an earlier one and expired) and
`Bounded` (a lease ends at most one duration ahead, so a renewal never shortens it). An
acquisition needs an expired lease, and the manifest has expired with it; a transfer
rewrites the manifest.

**Placements** (same module): `PlacementsFenced` (`Fencing`), for any devices and any
number of layers. `PlacementInv` says which generations are in use and that a placement
kept by a caller is the one in force or older; the layers are in order, with no device
idle when there are layers enough, by the arithmetic of the division the code does.

**Batches** (same module): `EvidenceHolds` (`EvidenceExact`), for any devices and links,
any items, shards and pages and any number of them, and any failing CUDA call.
`CountersTyped` is the invariant; the rest is about one call. It says what a batch that
stops has counted, its first shards among it; that those should not have been dispatched
is `BatchValidatedFirst`, which the run `fleet_transport` refutes. A batch is two nested
loops, over its items and over the shards of an item, that stop where the code returns.
`BatchCounted` and `ExecuteIsExact` bring them to a closed form for calls of any length:
which prefix was dispatched, and by how much each counter grew for it, proved prefix by
prefix with a least counterexample.

**Text index** (`Kernels_proofs`): `AnyTextOrdered` (`RanksOrderPrefixes`), for any text
that a sort key has room for, any alphabet and both builders; `PrefixesOrdered` is the
same of the streams of the runs. `Sorting` says that between rounds the ranks fit a key
and order the suffixes by their first `k` symbols, a suffix that has ended first. A
prefix of 2k symbols is one of k and the k behind it (`-1` where the text has ended), so
comparing pairs of ranks compares prefixes; the host builder counts smaller pairs, the
GPU builder packs a pair into one key, whose halves do not run into each other by
`KeysFit`, and counts keys.

**Layouts** (same module): `LayoutsHold` (`LayoutsDisjoint`), for any pages, heads,
capacities and position width. `LayoutInv` says that while a layout validates the sealed
tokens counted are the positions held; a page that validates against the others adds an
interval of its own. The tail is apart from all of them because the ends that were
compared did not wrap, which `ValidatePage` sees to.

**Adaptive pages** (same module): `AnyPagesFaithful` (`PageFaithful`), for any values in
range, any number of them, any unit, blocks (a short last one too) and codecs;
`PagesFaithful` is the same of the runs' values. Rounding to a step leaves half a step;
a field of 2, 4, 8 or 16 bits comes out of the byte it shares as it went in, since a
byte is a sum of digits; two's complement gives back the sign. `AdaptiveInv` says that
both halves are `Pack` of a source in range whose block scales the steps of all codecs
divide, so the argument holds of a recompression as well: what decoding returns has the
block scales it was decoded with.

**Sums** (`FoldTheorems`). The library's induction theorems take an operator parameter,
which the installed provers cannot instantiate. What a fold over a finite set computes
is proved without them, by least counterexample: if a statement about all subsets of a
finite set fails, it fails for a subset of which every smaller one satisfies it
(`MinimalExists`), and one step of the fold refutes that. So a sum is a natural, depends
on its values only, does not depend on the order they are taken in, and changes by what
one of them changes (`SumUpdate`, `SumPut`). The same argument serves the scan for the
best worker, and folds of sequences from the left, which the batches use: a fold over a
sequence is the step of its last element on the fold of the others.

**Only model-checked**: of `device_paths`, `ReadersAgree`, `SearchExact` and
`AttentionExact`, which are about the wavelet matrix, the walk over it and the kernel's
walk over pages, all folds over sequences filtered or built by recursion;
`DecodersExact`, whose decoders use RECURSIVE operators. Liveness under fairness and
`ENABLED` are out of the prover's reach; no property of the project needs them.

## 6. Where code and documents disagree: shown by runs

1. `resolver_reset_race`. `cf_ms_cuda_sequence_remove_async` frees the table and the
   tail at once. A batch that has its snapshot and has not launched yet then launches
   with freed pointers. `docs/m10-cuda-sequence-resolver.md:29` promises "cancellation
   that blocks new dispatch without freeing in-flight storage"; line 46 describes reset
   with outstanding snapshots as safe. In-flight references protect pages only.
2. `store_two_keys`. Each put starts a new temporary file and renames it over the store,
   so the file holds one record. An earlier key is answered with the later key's page
   (the key of the record is never compared), and is missing after reopening.
   `docs/m13-adaptive-compression.md:15` describes records with a semantic page key; the
   only test uses one key.
3. `seal_failure`. The seal moves the candidate into the layer's pages before the copy
   of the descriptor table (`device_kv_seal_attention.cu:316`), and its catch block does
   not take it out: after a failed copy the page counts among those attention walks, its
   tokens are still active, and the table lacks it; a retry seals the tokens again. A
   failure after the growth of the table (line 308) leaves all sealed pages without
   descriptors. `docs/m12-production-performance.md:27`: "Candidate pages remain
   invisible until transactional publication completes."
   `docs/m9-gpu-seal-attention.md:33`: "Any failure returns the layer to `ACTIVE_FULL`;
   the existing page remains intact and the descriptor-table generation is unchanged."
4. `completion_quota`. Admission compares the tokens charged so far with what one
   request asks for (`production_scheduler.cpp:125`), and completion charges what it is
   told (line 220): requests admitted together take a tenant over its quota.
   `docs/m17-production-scheduler.md:24`: "hard quotas fail closed;".
5. `fleet_transport`. A permitted transport is looked for page by page in the loop that
   dispatches (`multigpu_cuda_runtime.cu:157`), after earlier shards and pages were
   counted. `docs/m15-multigpu-cuda-runtime.md:20`: "The entire shard batch is validated
   before any transport or dispatch occurs."

## 7. What the models show beyond the properties

Met while modelling, and kept out of the runs by the choice of calls or failures, or
stated by a property as the code has it (each is named at the definition or in the
hazards):

- Resolver: a launch error releases references of kernels already on the stream, so
  `KernelPagesKept` does not hold with failures. A copy onto a live destination keeps
  the counts and buffers of what it replaces: `NothingLeaks` fails, the proved one-sided
  properties hold. A shift does not refresh the uploaded table: `TableCurrent` fails.
  Growing a table frees the buffer of a batch that has not launched.
- Host cache: a speculation records one baseline for all layers; with unequal tails a
  rollback does not restore them (against `docs/m10-multisequence-cache.md:36`). A shift
  that would take a layer below zero throws there, with the layers before it moved
  (`multisequence_cache.cpp:381-384`): the layers no longer stand at one position.
- Server: nothing but shutdown reclaims, and that one reclaim does not wait, so retired
  pages of a running server keep their storage, and a stopped runtime may still have
  pending snapshots. A second shutdown, as destroy makes one, returns 0 at once while
  the first may be at work on its list. A call checked against one sequence may act on a
  later one under the same id. Partial removal cuts the host tail only.
- Bridge: a slot whose sequence was removed or overwritten keeps its mapping. After
  create(k1, q), remove(q), create(k2, q), a reset of k1 removes the sequence of k2
  (against `docs/m10-multisequence-cache.md:65`); `MappingSound` excepts such slots.
- Sealing engine: a staging stores the position it is given without a look at the sealed
  pages, so pages may overlap or leave a gap; one that fails at the values has
  overwritten the keys, and the page may be sealed so.
- Dataplane: seal always refuses, so a full page stays until clear, though append says
  "seal before retry". `active_bytes` is below what is allocated after an append that
  failed between K and V. A refusal by the argument checks leaves the old error text,
  which the graph bridge then reports. The contiguity and the capacity check add in 32
  bits: a tensor long enough to wrap passes them, which `PlaneConstants` excludes.
- Callback: a tensor turned away leaves its counterpart pending, so K and V of different
  passes may be paired; `ServedExact` is of sequences with none turned away. A query
  that is not F32 leaves the one before it usable. After an upload failure a full page
  of a later head is left out of attention without an error when head 0 has no tail
  (`TailLost`).
- C bridge: an append that fails at a head keeps the heads before it, so its retry is
  refused, or, where their tails were cut to nothing, appended a second time.
- Paged attention: the optimised decode kernel of the production path cuts its window at
  the lower end only (`production_attention.cu:84`). It attends to one token more than
  the reference there, to every token after the query, and where position and window
  wrap at 32 bits it skips tokens. `docs/m12-production-performance.md:3` keeps the M9
  kernel as the oracle, which cuts at both ends (`device_kv_seal_attention.cu:154`); no
  run shows it: `AttentionExact` claims of that kernel only that without a wrap it skips
  nothing the reference attends to. A variable-width codec is sent to the warp kernel by
  `head_dim` alone, where the comment at `paged_kv_attention.cu:178` has it on the
  scalar one. With no token visible the kernels write zeros and the reference throws.
  Layout validation does not bound the end of the tail; launch validation does.
- Adaptive compression: the estimated error of a width is below half a step (`max/15`
  against `max/14` for int4), so the error budget is not a bound on the error. Raw pages
  store integers. A recompression over the budget falls back to raw.
- Text index: a pattern that only starts empty ranges asks for a buffer of no bytes,
  which CUDA reports as an error.
- Scheduler: a waiting request is never promoted, usage windows never end, a completed
  id admitted again can only be cancelled, and a drained worker is healthy after
  recovery.
- RC1: only the last memory and reference samples count; references never recorded count
  as zero and do not make the verdict INCOMPLETE; their sum wraps; requests after the
  limit are refused and not counted. Qualification: with `minimum_samples` 0 it may pass
  on no sample; the memory difference decides nothing.
- Cluster: routing compares no page identities; a failed worker's page may be acquired
  by a worker without a replica; a renewal does not reach the manifest.
- Distributed: an item with the same unknown device on both ends is dispatched (against
  `docs/m14-distributed-multigpu.md:18`). The copies of a rejected batch's earlier items
  stay counted.
- Multi-GPU: a migration to a failed device counts as completed. A transfer failure is
  counted as an error and as a rejection.

## 8. Not modelled

Floating-point arithmetic (attention, softmax, rounding of quantised values) and, but
for the dataplane, buffer contents, with one consequence: the race between staging and a
batch that reads the same tail is listed as a hazard without a property. Counters that
no decision and no property reads. Error texts. Thread and block indices of kernels,
launch arithmetic and uploads of immutable arrays. Device memory helpers and benchmarks:
wrappers of single CUDA calls, and programs that measure. Security release: checks of
signatures, provenance and policy. Hub, tools other than the index builder, packaging
and site: I/O and formatting. Reading of configuration and file formats. `destroy`
functions free everything and end the object.

Left out of the components listed as partly modelled: the worker registry, transfer
checks and scores of disaggregated serving; the counters and the verification calls of
the llama.cpp bridges; the part of the paged runtime that builds page descriptors; the
attempts counted by adaptive compression.

## 9. Plan

Done: the resolver with its abstract specification, refinement and exactness; the host
cache and the slot map, the server runtime, the sealing engine, the dataplane, the
compressed cache under its two clients, the scheduler and the gates, leases, placements
and batches, suffix sorting, page layouts and adaptive pages, modelled and proved;
everything else of section 2 modelled and checked.

Left, in order of what it would add:

1. Proofs for what is only checked: `ReadersAgree` (rank over an RRR plane is a count of
   ones, whatever the superblocks) first, then `AttentionExact`.
2. `PersistentPageStore`: a passing run on what survives crashes (the last put is served
   in its own session), beside the violation.
3. The worker registry of `disaggregated_serving.cpp` in `ClusterLease`: failed workers
   and their pages, and the score the router chooses by.
4. One client specification that both `KvCallback` and `RuntimeBridge` refine: a
   sequence of tokens, appended and attended to.
