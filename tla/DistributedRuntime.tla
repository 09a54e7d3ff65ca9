-------------------------- MODULE DistributedRuntime --------------------------
(* The control plane of several devices: where a sequence is placed, its      *)
(* migrations, the routing of layers, the peer links and the admission of a   *)
(* batch.  Every call holds the runtime's mutex, so each is one step.         *)
EXTENDS Integers, FiniteSets, FiniteSetsExt, Sequences

CONSTANTS Devices,        \* ordinals, 0 .. device_count - 1 in the order configured
          Group,          \* device -> peer_group
          LayerCount, TensorParallelSize,
          SeqIds,         \* sequence ids
          Items,          \* bound: the items of a batch: seq, layer, source, target
          MaxItems,       \* bound: items of a batch
          MaxGeneration,  \* bound: migrations of a placement
          MaxBatches      \* bound: batches submitted

VARIABLES setup,          \* mode, allow_host_staging, strict_peer_access, and the hash of a sequence
          placements,     \* sequence -> [device, generation, shards]
          copies,         \* [seq, at]: the placements callers were given
          tally,          \* counters of links, copies, failures and batches
          batch,          \* of the last batch: items, those changing device, unplaced ones, and the result
          closing

Modes == {"single", "layer", "tensor"}

PlacementOf(seq) ==
  [device |-> setup.hash[seq], generation |-> 1,
   shards |-> IF setup.mode = "tensor" THEN TensorParallelSize ELSE 1]

PlaceSequence(seq) ==
  /\ ~closing
  /\ LET placed == IF seq \in DOMAIN placements THEN placements[seq] ELSE PlacementOf(seq)
     IN /\ placements' = [x \in DOMAIN placements \cup {seq} |-> IF x = seq THEN placed ELSE placements[x]]
        /\ copies' = copies \cup {[seq |-> seq, at |-> placed]}
  /\ UNCHANGED <<setup, tally, batch, closing>>

MigrateKeepsGeneration(seq, device) ==
  /\ seq \in DOMAIN placements /\ placements[seq].generation < MaxGeneration
  /\ placements' = [placements EXCEPT ![seq].device = device]
  /\ UNCHANGED <<setup, copies, tally, batch, closing>>

\* A migration hands no copy out; the caller asks for the placement again.
MigrateSequence(seq, device) ==
  /\ seq \in DOMAIN placements /\ placements[seq].generation < MaxGeneration
  /\ placements' = [placements EXCEPT ![seq].device = device, ![seq].generation = @ + 1]
  /\ UNCHANGED <<setup, copies, tally, batch, closing>>

\* Layers in equal runs over the devices, in order.
RouteLayer(layer) ==
  IF setup.mode = "single" THEN 0 ELSE Min({(layer * Cardinality(Devices)) \div LayerCount, Cardinality(Devices) - 1})

\* Links are counted up to the first pair a strict configuration cannot do
\* without; a behaviour asks for them once.
EnablePeerLinks ==
  /\ tally.links = 0 /\ tally.refused = 0
  /\ LET pairs == {p \in Devices \X Devices : p[1] < p[2]}
         upTo(p, q) == p[1] < q[1] \/ (p[1] = q[1] /\ p[2] <= q[2])
         apart == {p \in pairs : Group[p[1]] # Group[p[2]]}
         stop  == {p \in apart : setup.strict /\ ~setup.staging /\ \A q \in apart : upTo(p, q)}
         seen  == {p \in pairs : \A q \in stop : upTo(p, q)}
     IN tally' = [tally EXCEPT !.links = Cardinality(seen \ apart), !.refused = Cardinality(seen \cap apart)]
  /\ UNCHANGED <<setup, placements, copies, batch, closing>>

-----------------------------------------------------------------------------
(* Batches *)

Peers(item) == Group[item.source] = Group[item.target]

\* What stops an item; the devices of one that stays where it is are not looked up.
Fault(item) ==
  IF item.layer >= LayerCount \/ item.seq \notin DOMAIN placements THEN "routing"
  ELSE IF item.source = item.target THEN "none"
  ELSE IF ~({item.source, item.target} \subseteq Devices) THEN "device"
  ELSE IF Peers(item) \/ setup.staging THEN "none" ELSE "transport"

\* Copies are counted item by item, before the batch is known to be sound.
ExecuteBatch(items) ==
  /\ ~closing /\ tally.batches + tally.failed < MaxBatches
  /\ LET bad    == {n \in DOMAIN items : Fault(items[n]) # "none"}
         passed == 1 .. IF bad = {} THEN Len(items) ELSE Min(bad) - 1
         copied == {n \in passed : items[n].source # items[n].target}
         local  == {n \in copied : Peers(items[n])}
     IN /\ tally' = [tally EXCEPT
             !.peer     = @ + Cardinality(local),
             !.staged   = @ + Cardinality(copied \ local),
             !.failures = @ + (IF bad # {} /\ Fault(items[Min(bad)]) = "routing" THEN 1 ELSE 0),
             !.failed   = @ + (IF bad # {} THEN 1 ELSE 0),
             !.batches  = @ + (IF bad = {} THEN 1 ELSE 0)]
        /\ batch' = [items |-> Len(items), ok |-> bad = {},
                     crossing |-> Cardinality({n \in DOMAIN items : items[n].source # items[n].target}),
                     placed |-> \A n \in DOMAIN items : items[n].seq \in DOMAIN placements]
  /\ UNCHANGED <<setup, placements, copies, closing>>

Shutdown ==
  /\ closing' = TRUE
  /\ placements' = [seq \in {} |-> 0]
  /\ UNCHANGED <<setup, copies, tally, batch>>

DistributedInit ==
  /\ setup \in [mode : Modes, staging : BOOLEAN, strict : BOOLEAN, hash : [SeqIds -> Devices]]
  /\ placements = [seq \in {} |-> 0] /\ copies = {} /\ closing = FALSE
  /\ tally = [links |-> 0, refused |-> 0, peer |-> 0, staged |-> 0, failures |-> 0, failed |-> 0, batches |-> 0]
  /\ batch = [items |-> 0, ok |-> TRUE, crossing |-> 0, placed |-> TRUE]

DistributedNext ==
  \/ \E seq \in SeqIds : PlaceSequence(seq) \/ \E device \in Devices : MigrateSequence(seq, device)
  \/ EnablePeerLinks \/ Shutdown
  \/ \E n \in 1 .. MaxItems : \E items \in [1 .. n -> Items] : ExecuteBatch(items)

-----------------------------------------------------------------------------
(* Properties *)

\* The generation fences a placement: a copy a caller still holds either is the
\* placement in force or has an older generation, through any migrations, a
\* return to the first device included; after shutdown nothing is in force.
\* Every layer a batch may name has a device, layers are handed to the devices in
\* order, and no device is left idle when there are layers for all.
Fencing ==
  /\ \A c \in copies : c.seq \in DOMAIN placements =>
       \/ c.at = placements[c.seq]
       \/ c.at.generation < placements[c.seq].generation
  /\ closing => DOMAIN placements = {}
  /\ LET at(layer) == RouteLayer(layer)
     IN /\ \A layer \in 0 .. LayerCount - 1 : at(layer) \in Devices /\ (layer > 0 => at(layer - 1) <= at(layer))
        /\ setup.mode # "single" /\ Cardinality(Devices) <= LayerCount => Devices = {at(layer) : layer \in 0 .. LayerCount - 1}

\* A dispatched batch names placed sequences only, and each of its items that
\* changes device is counted once, as staged only where staging is allowed; a
\* rejected one counts no copy twice and none for the item at fault.
BatchExact ==
  tally'.batches + tally'.failed > tally.batches + tally.failed =>
    LET moved == tally'.peer - tally.peer + tally'.staged - tally.staged
    IN /\ tally'.staged > tally.staged => setup.staging
       /\ batch'.ok => batch'.placed /\ moved = batch'.crossing
       /\ ~batch'.ok => moved <= batch'.crossing /\ moved < batch'.items
=============================================================================
