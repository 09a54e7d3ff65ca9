------------------------------- MODULE Cluster -------------------------------
(* What decides where cached pages and sequences live: page leases, the        *)
(* distributed control plane and the multi-GPU runtime.  The code has them     *)
(* know nothing of each other, so a behaviour is of one of them, its part, and *)
(* the variables of the others stay where they start.                          *)
EXTENDS ClusterLease, FiniteSets, Sequences

CONSTANTS Devices, Group, LayerCount, TensorParallelSize, SeqIds, MaxGeneration, MaxBatches,
          Items, MaxItems, Gpus, Shards, MaxShards, PageSources, FailingCalls, MaxCalls

VARIABLES part, setup, placements, copies, tally, batch, closing,
          links, broken, counts, stopping, last

Distributed == INSTANCE DistributedRuntime
Gpu == INSTANCE MultiGpuRuntime

\* What cf_distributed_create accepts: a device and a layer at least.
ASSUME DevicesConfigured ==
  LayerCount \in Nat \ {0} /\ Cardinality(Devices) \in Nat \ {0} /\ Devices = 0 .. Cardinality(Devices) - 1

\* What callers hand in, and the CUDA calls that fail.
ASSUME CallsConfigured ==
  /\ MaxItems \in Nat /\ MaxShards \in Nat /\ FailingCalls \subseteq Nat
  /\ \A shard \in Shards : shard.sources \in Seq(Int)

deviceVars == <<setup, placements, copies, tally, batch, closing>>
gpuVars == <<links, broken, counts, stopping, last>>
clusterVars == <<part, leaseVars, deviceVars, gpuVars>>

NoDevices == setup = <<>> /\ placements = <<>> /\ copies = {} /\ tally = <<>> /\ batch = <<>> /\ closing = FALSE
NoGpus    == links = <<>> /\ broken = {} /\ counts = <<>> /\ stopping = FALSE /\ last = <<>>

ClusterInit ==
  /\ LeaseInit
  /\ \/ part = "leases" /\ NoDevices /\ NoGpus
     \/ part = "devices" /\ Distributed!DistributedInit /\ NoGpus
     \/ part = "gpus" /\ NoDevices /\ Gpu!GpuInit

ClusterNext ==
  /\ UNCHANGED part
  /\ \/ part = "leases" /\ LeaseNext /\ UNCHANGED <<deviceVars, gpuVars>>
     \/ part = "devices" /\ Distributed!DistributedNext /\ UNCHANGED <<leaseVars, gpuVars>>
     \/ part = "gpus" /\ Gpu!GpuNext /\ UNCHANGED <<leaseVars, deviceVars>>

ClusterSpec == ClusterInit /\ [][ClusterNext]_clusterVars

-----------------------------------------------------------------------------

\* DistributedRuntime's Fencing: stale placements are told from the one in force.
Fencing == part = "devices" => Distributed!Fencing

\* The counters of a batch are what happened to it, in both runtimes.
EvidenceExact ==
  [][(part = "devices" => Distributed!BatchExact) /\ (part = "gpus" => Gpu!ExecuteExact)]_clusterVars

\* MultiGpuRuntime's ValidatedFirst: a rejected batch moved nothing.
BatchValidatedFirst == [][part = "gpus" => Gpu!ValidatedFirst]_clusterVars
=============================================================================
