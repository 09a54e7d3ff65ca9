----------------------- MODULE MCProductionScheduler -----------------------
(* ControlPlane with two tenants and two workers: the workers tie for a      *)
(* request without a deadline, the second is faster, and only it has the     *)
(* second model.  The gates take one more sample than the 20 at which a      *)
(* percentile leaves one out.                                                *)
EXTENDS ControlPlane, TLC

CONSTANTS t1, t2

TwoTenants == {t1, t2}

ThreeSpecs ==
  {[tenant |-> t1, model |-> 1, prompt |-> 1, max |-> 1, deadline |-> FALSE],
   [tenant |-> t1, model |-> 2, prompt |-> 2, max |-> 1, deadline |-> TRUE],
   [tenant |-> t2, model |-> 1, prompt |-> 1, max |-> 2, deadline |-> TRUE]}

Policies ==
  (t1 :> [active |-> 2, queued |-> 2, prompt |-> 5, completion |-> 1, gpu |-> 2])
  @@ (t2 :> [active |-> 1, queued |-> 1, prompt |-> 2, completion |-> 4, gpu |-> 1])

Capacities == <<[load |-> 1, pace |-> 2, models |-> {1}], [load |-> 1, pace |-> 1, models |-> {1, 2}]>>
Limits == [tenants |-> 2, workers |-> 2, active |-> 2, queued |-> 2]
TwoBirths == {[state |-> "healthy", circuit |-> "closed"], [state |-> "degraded", circuit |-> "half_open"]}

\* One trouble to a sample at most, so that 21 samples tell the limits apart.
One(troubles) == Cardinality({n \in DOMAIN troubles : troubles[n]}) <= 1

SomeEvents ==
  {e \in [slow : BOOLEAN, stalled : BOOLEAN, faults : {{}, {"prompt_leaks"}, {"cuda_errors"}}] :
     One(<<e.slow, e.stalled, e.faults # {}>>)}
SomeMeasurements ==
  {m \in [slow : BOOLEAN, decode : {5, 6}, tokens : {0, 2}, error : {"none", "cuda"}, trace : {1, 2},
          content : BOOLEAN] :
     One(<<m.slow, m.decode = 6, m.error # "none", m.trace = 2, m.content>>)}
NoRefs == [pages |-> 0, snapshots |-> 0, leases |-> 0, requests |-> 0]
SomeReferences == {NoRefs, [NoRefs EXCEPT !.leases = 1], [NoRefs EXCEPT !.pages = RefLimit - 1, !.requests = 1]}

RequestSymmetry == Permutations(Requests)
=============================================================================
