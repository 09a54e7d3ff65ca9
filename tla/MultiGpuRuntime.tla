---------------------------- MODULE MultiGpuRuntime ----------------------------
(* The multi-GPU CUDA runtime: admission and dispatch of a batch of attention *)
(* shards, the transport of their remote pages, injected failures.  It keeps  *)
(* no data, only the counters a qualification reads as evidence.              *)
EXTENDS Integers, FiniteSets, Sequences, SequencesExt

CONSTANTS Gpus,        \* device ordinals
          Shards,      \* bound: the shards of a batch: device, the source device of each page, wellFormed
          MaxShards,   \* bound: shards of a batch
          PageSources, \* bound: the source devices of the pages of a migration
          FailingCalls,\* bound: the CUDA call of a batch that fails; call 0 is none
          MaxCalls     \* bound: calls before the batch of a behaviour

VARIABLES links,       \* peers, allow_host_staging, require_peer_access
          broken,      \* devices marked as failed
          counts, stopping,
          last         \* the last execute call: the remote pages of its shards, its admission and its result

gpuVars == <<links, broken, counts, stopping, last>>

Counters == {"p2p", "staged", "remote", "dispatched", "submitted", "rejections", "transferErrors", "cudaErrors",
             "migrations", "failures"}
Counted(c, names) == [f \in Counters |-> IF f \in names THEN c[f] + 1 ELSE c[f]]

\* An error path: counters move and the call returns -1.
Rejected(names) == counts' = Counted(counts, names)

ValidateTopology(cudaFails) ==
  LET unreachable == \E a, b \in Gpus : a # b /\ <<a, b>> \notin links.peers
  IN /\ IF cudaFails THEN Rejected({"cudaErrors"})
        ELSE IF unreachable /\ links.require /\ ~links.allow THEN Rejected({"rejections"})
        ELSE UNCHANGED counts
     /\ UNCHANGED <<links, broken, stopping, last>>

-----------------------------------------------------------------------------
(* Dispatch: CUDA calls are numbered, and the one numbered fail fails.       *)

Failing(acc, names) == [acc EXCEPT !.failed = TRUE, !.counts = Counted(@, names)]

CudaCall(acc) ==
  LET next == [acc EXCEPT !.calls = @ + 1] IN IF next.calls = acc.fail THEN Failing(next, {"cudaErrors"}) ELSE next

LoadPage(acc, shard, source) ==
  LET asked == CudaCall(acc)
  IN IF acc.failed \/ source = shard.device THEN acc
     ELSE IF asked.failed THEN asked
     ELSE IF <<shard.device, source>> \in links.peers THEN [asked EXCEPT !.counts = Counted(@, {"p2p", "remote"})]
     ELSE IF links.allow THEN [asked EXCEPT !.counts = Counted(@, {"staged", "remote"})]
     ELSE Failing(asked, {"transferErrors", "rejections"})

CountsEarly(acc, shard) ==
  IF acc.failed THEN acc
  ELSE LET load(a, source) == LoadPage(a, shard, source)
       IN FoldLeft(load, CudaCall([acc EXCEPT !.counts = Counted(@, {"dispatched"})]), shard.sources)

DispatchShard(acc, shard) ==
  IF acc.failed THEN acc
  ELSE LET load(a, source) == LoadPage(a, shard, source)
           loaded == FoldLeft(load, CudaCall(acc), shard.sources)
       IN IF loaded.failed THEN loaded ELSE [loaded EXCEPT !.counts = Counted(@, {"dispatched"})]

\* The batch counts as submitted before the launch error is read.
Submit(acc) == IF acc.failed THEN acc ELSE CudaCall([acc EXCEPT !.counts = Counted(@, {"submitted"})])

Admitted(shard) == shard.wellFormed /\ shard.device \in Gpus \ broken

Remote(shard) == Cardinality({i \in DOMAIN shard.sources : shard.sources[i] # shard.device})

Execute(shards, fail) ==
  LET start == [counts |-> counts, calls |-> 0, fail |-> fail, failed |-> FALSE]
      done  == Submit(FoldLeft(DispatchShard, start, shards))
      ran   == ~stopping /\ \A n \in DOMAIN shards : Admitted(shards[n])
  IN /\ IF ran THEN counts' = done.counts ELSE Rejected({"rejections"})
     /\ last' = [remote |-> [n \in DOMAIN shards |-> Remote(shards[n])], ok |-> ran /\ ~done.failed,
                 sound |-> \A n \in DOMAIN shards : shards[n].wellFormed /\ shards[n].device \notin broken,
                 number |-> last.number + 1]
     /\ UNCHANGED <<links, broken, stopping>>

-----------------------------------------------------------------------------

\* Neither device is looked up: a migration to a failed device is counted too.
MigrateSequence(source, destination, sources) ==
  /\ source # destination /\ ~stopping
  /\ Rejected(IF \E n \in DOMAIN sources : sources[n] # source THEN {"rejections"} ELSE {"migrations"})
  /\ UNCHANGED <<links, broken, stopping, last>>

InjectDeviceFailure(device) ==
  /\ broken' = broken \cup {device} /\ Rejected({"failures"})
  /\ UNCHANGED <<links, stopping, last>>

Shutdown == stopping' = TRUE /\ UNCHANGED <<links, broken, counts, last>>

GpuInit ==
  /\ links \in [peers : SUBSET {p \in Gpus \X Gpus : p[1] # p[2]}, allow : BOOLEAN, require : BOOLEAN]
  /\ broken = {} /\ stopping = FALSE
  /\ counts = [f \in Counters |-> 0]
  /\ last = [remote |-> <<>>, ok |-> TRUE, sound |-> TRUE, number |-> 0]

\* Counters only grow, and every call adds to them alone: a behaviour ends with
\* one batch, after at most MaxCalls counted calls of the other kinds.
GpuNext ==
  \/ /\ last.number = 0
     /\ counts["migrations"] + counts["failures"] + counts["rejections"] + counts["cudaErrors"] < MaxCalls
     /\ \/ \E cudaFails \in BOOLEAN : ValidateTopology(cudaFails)
        \/ \E source, destination \in Gpus, sources \in PageSources : MigrateSequence(source, destination, sources)
        \/ \E device \in Gpus : InjectDeviceFailure(device)
  \/ /\ last.number = 0
     /\ \E n \in 1 .. MaxShards, fail \in FailingCalls : \E shards \in [1 .. n -> Shards] : Execute(shards, fail)
  \/ Shutdown

-----------------------------------------------------------------------------

Total(counted) == FoldLeft(LAMBDA n, r : n + r, 0, counted)

\* The counters of an execute call can be read as evidence of it.  One that
\* succeeds counts every shard and every remote page, once, by a permitted
\* transport, and no error.  One that fails counts one error, and neither shard
\* nor page when a shard is malformed or its device broken, wherever in the batch.
\* However far a call got, shards and pages agree: the pages counted are those of
\* the shards counted, and at most some of the next shard's.  How far a rejected
\* call may get is ValidatedFirst's question.
ExecuteExact ==
  last'.number # last.number =>
    LET moved(f) == counts'[f] - counts[f]
        remote   == last'.remote
        done     == moved("dispatched")
        upTo(n)  == Total(SubSeq(remote, 1, n))
    IN /\ moved("remote") = moved("p2p") + moved("staged")
       /\ moved("staged") > 0 => links.allow
       /\ upTo(done) <= moved("remote")
       /\ done < Len(remote) => moved("remote") <= upTo(done + 1)
       /\ last'.ok => done = Len(remote) /\ moved("submitted") = 1 /\ moved("rejections") = 0 /\ moved("cudaErrors") = 0
       /\ ~last'.ok => moved("rejections") + moved("cudaErrors") = 1
       /\ ~last'.sound => done = 0 /\ moved("remote") = 0
       /\ moved("submitted") = 1 => done = Len(remote)
       /\ moved("transferErrors") = 1 => ~links.allow /\ moved("rejections") = 1

\* "The entire shard batch is validated before any transport or dispatch occurs"
\* (docs/m15-multigpu-cuda-runtime.md): a call that counts a rejection counts
\* neither a shard nor a page.  The code looks for a transport page by page, in
\* the loop that dispatches.
ValidatedFirst ==
  last'.number # last.number /\ counts'["rejections"] > counts["rejections"] =>
    counts'["dispatched"] = counts["dispatched"] /\ counts'["remote"] = counts["remote"]
=============================================================================
