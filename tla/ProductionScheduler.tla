------------------------ MODULE ProductionScheduler ------------------------
(***************************************************************************)
(* The tenant-aware scheduler: src/src/production_scheduler.cpp.  Every    *)
(* call runs under the scheduler mutex and is one action.  Policies,       *)
(* worker capacities and request sizes never change once given, so they    *)
(* are constants; of a score the model keeps what differs between workers, *)
(* the estimate counted for requests with a deadline and the load.  The    *)
(* fairness term is one number for all workers, the cached prefix shortens *)
(* the estimate only, and rejections, plan_scale and the other counters    *)
(* change nothing that is read again.                                      *)
(***************************************************************************)
EXTENDS Integers, Sequences, SequencesExt, FiniteSetsExt, Functions

CONSTANTS
  Requests,  \* request ids
  Tenants,   \* tenant ids
  Workers,   \* worker ids: positive integers, compared when scores are equal
  Specs,     \* requests that clients send: [tenant, model, prompt, max, deadline]
  Policy,    \* Policy[t]: [active, queued, prompt, completion, gpu], all limits
  Capacity,  \* Capacity[w]: [load, pace, models], what worker w registers with
  Limit,     \* the configuration: [tenants, workers, active, queued]
  Births,    \* states and circuits workers are registered in
  Generated, \* token counts reported on completion
  GpuTimes   \* GPU times reported on completion

WorkerStates == {"healthy", "degraded", "draining", "quarantined", "failed"}
Circuits == {"closed", "open", "half_open"}

ASSUME SchedulerConstants ==
  /\ Workers \subseteq Nat \ {0} /\ IsFiniteSet(Workers)
  /\ Specs \subseteq [tenant : Tenants, model : Nat, prompt : Nat \ {0}, max : Nat \ {0},
                      deadline : BOOLEAN]
  /\ Policy \in [Tenants -> [active : Nat \ {0}, queued : Nat \ {0}, prompt : Nat,
                             completion : Nat, gpu : Nat]]
  /\ Capacity \in [Workers -> [load : Nat, pace : Nat, models : SUBSET Nat]]
  /\ Limit \in [tenants : Nat \ {0}, workers : Nat \ {0}, active : Nat \ {0}, queued : Nat \ {0}]
  /\ Births \subseteq [state : WorkerStates, circuit : Circuits]
  /\ Generated \subseteq Nat /\ GpuTimes \subseteq Nat

VARIABLES
  tenants,   \* TenantState of each registered tenant
  workers,   \* state and circuit of each registered worker
  requests,  \* RequestState of each request admitted or queued and not ended
  usage,     \* usage_records: the GPU time of each completed request id
  taken,     \* counters.admissions + counters.queued
  cancelled, \* counters.cancellations
  shutting,  \* shutting_down
  audited    \* whether a shutdown audit has succeeded

vars == <<tenants, workers, requests, usage, taken, cancelled, shutting, audited>>

\* A map with k sent to v, and one without k.
Put(f, k, v) == [x \in DOMAIN f \cup {k} |-> IF x = k THEN v ELSE f[x]]
Drop(f, k) == Restrict(f, DOMAIN f \ {k})
Empty == [x \in {} |-> x]

Init ==
  /\ tenants = Empty /\ workers = Empty /\ requests = Empty /\ usage = Empty
  /\ taken = 0 /\ cancelled = 0
  /\ shutting = FALSE /\ audited = FALSE

\* cf_scheduler_register_tenant
RegisterTenant(t) ==
  /\ ~shutting /\ t \notin DOMAIN tenants /\ Cardinality(DOMAIN tenants) < Limit.tenants
  /\ tenants' = Put(tenants, t, [active |-> 0, queued |-> 0, prompt |-> 0, completion |-> 0, gpu |-> 0])
  /\ UNCHANGED <<workers, requests, usage, taken, cancelled, shutting, audited>>

\* cf_scheduler_register_worker: in whatever state the caller says.
RegisterWorker(w, birth) ==
  /\ ~shutting /\ w \notin DOMAIN workers /\ Cardinality(DOMAIN workers) < Limit.workers
  /\ workers' = Put(workers, w, birth)
  /\ UNCHANGED <<tenants, requests, usage, taken, cancelled, shutting, audited>>

WithinQuota(q) ==
  LET t == tenants[q.tenant]
      p == Policy[q.tenant]
  IN /\ t.prompt + q.prompt <= p.prompt
     /\ t.completion + q.max <= p.completion
     /\ t.gpu < p.gpu

\* The workers a request may go to.
Eligible(w, q) ==
  /\ workers[w].state \in {"healthy", "degraded"} /\ workers[w].circuit # "open"
  /\ q.model \in Capacity[w].models

Score(w, q) == (IF q.deadline THEN (q.prompt + q.max) * Capacity[w].pace ELSE 0) + Capacity[w].load

\* The worker the scan has when it has met w after best: 0 stands for none.
BetterLatest(best, w, q) ==
  IF Eligible(w, q) /\ (best = 0 \/ Score(w, q) <= Score(best, q)) THEN w ELSE best
Better(best, w, q) ==
  IF /\ Eligible(w, q)
     /\ \/ best = 0
        \/ Score(w, q) < Score(best, q)
        \/ Score(w, q) = Score(best, q) /\ w < best
  THEN w ELSE best

\* The scan over the hash map of workers, in the order it is iterated in.
Selected(order, q) == FoldLeft(LAMBDA best, w : Better(best, w, q), 0, order)

Total(count) == SumFunction([t \in DOMAIN tenants |-> tenants[t][count]])
MustQueue(t) ==
  Total("active") >= Limit.active \/ tenants[t].active >= Policy[t].active
QueueFull(t) ==
  Total("queued") >= Limit.queued \/ tenants[t].queued >= Policy[t].queued

\* The tenant of q once it has taken it, to run or to wait.
Joined(q, late) ==
  LET t == tenants[q.tenant]
  IN IF late THEN [t EXCEPT !.queued = @ + 1, !.prompt = @ + q.prompt]
             ELSE [t EXCEPT !.active = @ + 1, !.prompt = @ + q.prompt]

\* cf_scheduler_admit, when it takes the request.
Admit(r, q) ==
  LET t == q.tenant
      late == MustQueue(t)
  IN
  /\ ~shutting /\ r \notin DOMAIN requests /\ t \in DOMAIN tenants
  /\ WithinQuota(q)
  /\ late => ~QueueFull(t)
  /\ \E order \in SetToSeqs(DOMAIN workers) :
       /\ Selected(order, q) # 0
       /\ requests' = Put(requests, r, [spec |-> q, worker |-> Selected(order, q), queued |-> late])
  /\ tenants' = [tenants EXCEPT ![t] = Joined(q, late)]
  /\ taken' = taken + 1
  /\ UNCHANGED <<workers, usage, cancelled, shutting, audited>>

LeftActive(r) ==
  LET t == tenants[requests[r].spec.tenant]
  IN [t EXCEPT !.active = IF @ > 0 THEN @ - 1 ELSE @]

\* The tenant of r once r has left it.
Left(r) ==
  LET t == tenants[requests[r].spec.tenant]
  IN IF requests[r].queued THEN [t EXCEPT !.queued = IF @ > 0 THEN @ - 1 ELSE @]
                           ELSE [t EXCEPT !.active = IF @ > 0 THEN @ - 1 ELSE @]

\* cf_scheduler_complete: also of a request that is still queued; an id that has
\* been completed before is refused.
Complete(r, tokens, time) ==
  /\ r \in DOMAIN requests /\ r \notin DOMAIN usage
  /\ tenants' = [tenants EXCEPT ![requests[r].spec.tenant] =
                   [Left(r) EXCEPT !.completion = @ + tokens, !.gpu = @ + time]]
  /\ usage' = Put(usage, r, time)
  /\ requests' = Drop(requests, r)
  /\ UNCHANGED <<workers, taken, cancelled, shutting, audited>>

\* cf_scheduler_cancel: nothing is refunded.
Cancel(r) ==
  /\ r \in DOMAIN requests
  /\ tenants' = [tenants EXCEPT ![requests[r].spec.tenant] = Left(r)]
  /\ requests' = Drop(requests, r)
  /\ cancelled' = cancelled + 1
  /\ UNCHANGED <<workers, usage, taken, shutting, audited>>

\* cf_scheduler_open_circuit
OpenCircuit(w) ==
  /\ w \in DOMAIN workers
  /\ workers' = [workers EXCEPT ![w] = [state |-> "quarantined", circuit |-> "open"]]
  /\ UNCHANGED <<tenants, requests, usage, taken, cancelled, shutting, audited>>

\* cf_scheduler_recover_circuit: healthy again, drained or not.
RecoverCircuit(w) ==
  /\ w \in DOMAIN workers /\ workers[w].circuit = "open"
  /\ workers' = [workers EXCEPT ![w] = [state |-> "healthy", circuit |-> "closed"]]
  /\ UNCHANGED <<tenants, requests, usage, taken, cancelled, shutting, audited>>

DrainIgnoresQueue(w) ==
  /\ w \in DOMAIN workers
  /\ \A r \in DOMAIN requests : requests[r].worker = w => requests[r].queued
  /\ workers' = [workers EXCEPT ![w].state = "draining"]
  /\ UNCHANGED <<tenants, requests, usage, taken, cancelled, shutting, audited>>

\* cf_scheduler_drain_worker: refused while any request is assigned to w.
DrainWorker(w) ==
  /\ w \in DOMAIN workers
  /\ \A r \in DOMAIN requests : requests[r].worker # w
  /\ workers' = [workers EXCEPT ![w].state = "draining"]
  /\ UNCHANGED <<tenants, requests, usage, taken, cancelled, shutting, audited>>

\* cf_scheduler_shutdown_audit: shuts down even when the audit fails.
ShutdownAudit ==
  /\ shutting' = TRUE
  /\ audited' = (audited \/ DOMAIN requests = {})
  /\ UNCHANGED <<tenants, workers, requests, usage, taken, cancelled>>

Next ==
  \/ \E t \in Tenants : RegisterTenant(t)
  \/ \E w \in Workers, birth \in Births : RegisterWorker(w, birth)
  \/ \E r \in Requests, q \in Specs : Admit(r, q)
  \/ \E r \in Requests, tokens \in Generated, time \in GpuTimes : Complete(r, tokens, time)
  \/ \E r \in Requests : Cancel(r)
  \/ \E w \in Workers : OpenCircuit(w) \/ RecoverCircuit(w) \/ DrainWorker(w)
  \/ ShutdownAudit

Spec == Init /\ [][Next]_vars

---------------------------------------------------------------------------
(* Properties. *)

TypeOK ==
  /\ DOMAIN tenants \subseteq Tenants /\ DOMAIN workers \subseteq Workers
  /\ \A t \in DOMAIN tenants :
       tenants[t] \in [active : Nat, queued : Nat, prompt : Nat, completion : Nat, gpu : Nat]
  /\ \A w \in DOMAIN workers : workers[w] \in [state : WorkerStates, circuit : Circuits]
  /\ DOMAIN requests \subseteq Requests
  /\ \A r \in DOMAIN requests :
       /\ requests[r] \in [spec : Specs, worker : DOMAIN workers, queued : BOOLEAN]
       /\ requests[r].spec.tenant \in DOMAIN tenants
  /\ DOMAIN usage \subseteq Requests /\ \A r \in DOMAIN usage : usage[r] \in Nat
  /\ taken \in Nat /\ cancelled \in Nat
  /\ shutting \in BOOLEAN /\ audited \in BOOLEAN

\* The requests of tenant t that run, or that wait.
RequestsOf(t, waits) == {r \in DOMAIN requests : requests[r].spec.tenant = t /\ requests[r].queued = waits}

\* The counts admission is decided on are the numbers of requests they count.
CountsExact ==
  \A t \in DOMAIN tenants : /\ tenants[t].active = Cardinality(RequestsOf(t, FALSE))
                            /\ tenants[t].queued = Cardinality(RequestsOf(t, TRUE))

\* Every request taken is running, waiting, completed once or cancelled, and the
\* GPU time charged to the tenants is the GPU time on record, also when request
\* ids are used again.
RequestsBalance == taken = Cardinality(DOMAIN requests) + Cardinality(DOMAIN usage) + cancelled
BooksBalance ==
  /\ CountsExact /\ RequestsBalance
  /\ Total("gpu") = SumFunction(usage)

\* Work in the cluster never exceeds a bound: not the active or waiting requests
\* of all tenants or of one, nor the prompt tokens taken from a tenant.
WithinPolicy ==
  \A t \in DOMAIN tenants : /\ Cardinality(RequestsOf(t, FALSE)) <= Policy[t].active
                            /\ Cardinality(RequestsOf(t, TRUE)) <= Policy[t].queued
                            /\ tenants[t].prompt <= Policy[t].prompt
WithinLimits ==
  /\ WithinPolicy
  /\ Cardinality({r \in DOMAIN requests : ~requests[r].queued}) <= Limit.active
  /\ Cardinality({r \in DOMAIN requests : requests[r].queued}) <= Limit.queued

\* What admission relies on and what it promises, in every state.
AdmissionSound == TypeOK /\ BooksBalance /\ WithinLimits

\* "Hard quotas fail closed" (docs/m17-production-scheduler.md): no tenant is charged
\* more completion tokens than its policy allows.  The code compares what a request
\* asks for when it is admitted, and charges what was generated when it ends.
QuotaKept == \A t \in DOMAIN tenants : tenants[t].completion <= Policy[t].completion

\* Selection does not depend on the order of the hash map: a request goes to the
\* one worker that is least by score and id among those in service for its model.
GoesToBest ==
  \A r \in DOMAIN requests' \ DOMAIN requests :
    LET q == requests'[r].spec
        w == requests'[r].worker
    IN /\ workers[w].state \notin {"draining", "quarantined", "failed"}
       /\ workers[w].circuit # "open" /\ q.model \in Capacity[w].models
       /\ \A v \in DOMAIN workers : Eligible(v, q) /\ v # w =>
            Score(w, q) < Score(v, q) \/ (Score(w, q) = Score(v, q) /\ w < v)
BestWorkerChosen == [][GoesToBest]_vars

\* A successful drain and a successful shutdown audit stay true: no request is
\* on a drained worker, and none is in an audited scheduler.
DrainsHold ==
  /\ \A r \in DOMAIN requests : workers[requests[r].worker].state # "draining"
  /\ audited => DOMAIN requests = {}
=============================================================================
