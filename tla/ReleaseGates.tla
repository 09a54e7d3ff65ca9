----------------------------- MODULE ReleaseGates -----------------------------
(* The two release gates, fed by a harness and asked for a verdict at any     *)
(* time: the RC1 runtime and the qualification runtime.  A sample is kept as  *)
(* which side of each limit it is on; a percentile then needs the number of   *)
(* samples above the limit only, as they are the last of the sorted ones.     *)
EXTENDS Integers, FiniteSets

CONSTANTS MaxRequests,    \* config.max_requests, max_requests
          MaxSeries,      \* max_series
          MinSamples,     \* policy.minimum_samples
          Availability,   \* policy.availability_percent
          TokenLimit,     \* policy.inter_token_p95_us
          RefLimit,       \* 2^64: counts of references wrap
          Events,           \* requests reported to RC1: [slow, stalled, faults]
          ReferenceSamples, \* references reported: [pages, snapshots, leases, requests]
          Measurements      \* [slow, decode, tokens, error, trace, content]

VARIABLES rc1,    \* requests, those above each latency limit, faults, last memory and reference samples
          qual,   \* samples, those above each limit, errors, series, redaction, bounded, references
          over    \* what a verdict should not miss: slow decodes, counted exactly

gateVars == <<rc1, qual, over>>

Percentile95Below(count) == (95 * count) \div 100 - 1

\* The index percentile95 reads, of count sorted values.
Percentile95(count) == (95 * count + 99) \div 100 - 1

\* Whether the value read is within the limit: above of count are not.
WithinP95(count, above) == count = 0 \/ Percentile95(count) < count - above

Bit(b) == IF b THEN 1 ELSE 0

-----------------------------------------------------------------------------
(* RC1 *)

\* faults: prompt_leaks, correctness_failures, cuda_errors, cross_tenant_contamination.
RecordRequest(event) ==
  /\ rc1.requests < MaxRequests
  /\ rc1' = [rc1 EXCEPT !.requests = @ + 1, !.slow = @ + Bit(event.slow), !.stalled = @ + Bit(event.stalled),
                        !.faults = @ \cup event.faults]
  /\ UNCHANGED <<qual, over>>

Sum(refs) == refs.pages + refs.snapshots + refs.leases + refs.requests

\* The last sample counts, of memory as of references.
RecordMemory(accounted) ==
  /\ rc1' = [rc1 EXCEPT !.memory = IF accounted THEN "within" ELSE "beyond"]
  /\ UNCHANGED <<qual, over>>

RecordReferences(refs) ==
  /\ rc1' = [rc1 EXCEPT !.refs = Sum(refs) % RefLimit, !.sample = refs]
  /\ UNCHANGED <<qual, over>>

\* cf_rc1_finalize
Decision ==
  IF rc1.requests = 0 \/ rc1.memory = "none" THEN "INCOMPLETE"
  ELSE IF /\ rc1.faults = {} /\ rc1.refs = 0 /\ rc1.memory = "within"
          /\ WithinP95(rc1.requests, rc1.slow) /\ WithinP95(rc1.requests, rc1.stalled)
       THEN "PASS" ELSE "FAIL"

-----------------------------------------------------------------------------
(* Qualification *)

\* A measurement that generated no token counts as the fastest.
PerToken(decode, tokens) == IF tokens = 0 THEN 0 ELSE decode \div tokens

\* A series is one model and release, and one error.
Record(m) ==
  LET all == qual.series \cup {<<m.trace, m.error>>}
  IN /\ qual.samples < MaxRequests
     /\ qual' = [qual EXCEPT !.samples = @ + 1, !.slow = @ + Bit(m.slow), !.errors = @ + Bit(m.error # "none"),
                             !.stalled = @ + Bit(PerToken(m.decode, m.tokens) > TokenLimit), !.series = all,
                             !.bounded = @ /\ Cardinality(all) <= MaxSeries, !.redacted = @ /\ ~m.content]
     /\ over' = over + Bit(m.decode >= (TokenLimit + 1) * m.tokens /\ m.tokens > 0)
     /\ UNCHANGED rc1

NoReferences == [pages |-> 0, snapshots |-> 0, leases |-> 0, requests |-> 0]

SetReferenceState(refs) == qual' = [qual EXCEPT !.refs = refs] /\ UNCHANGED <<rc1, over>>

\* cf_qualification_evaluate: no samples, no availability.
Passed ==
  /\ qual.samples >= MinSamples
  /\ WithinP95(qual.samples, qual.slow) /\ WithinP95(qual.samples, qual.stalled)
  /\ (IF qual.samples = 0 THEN Availability = 0
      ELSE 100 * (qual.samples - qual.errors) >= Availability * qual.samples)
  /\ qual.refs = NoReferences /\ qual.redacted /\ qual.bounded

-----------------------------------------------------------------------------

GateInit ==
  /\ rc1 = [requests |-> 0, slow |-> 0, stalled |-> 0, faults |-> {}, memory |-> "none", refs |-> 0, sample |-> NoReferences]
  /\ qual = [samples |-> 0, slow |-> 0, stalled |-> 0, errors |-> 0, series |-> {}, redacted |-> TRUE, bounded |-> TRUE,
             refs |-> NoReferences]
  /\ over = 0

Rc1Next ==
  \/ \E event \in Events : RecordRequest(event)
  \/ \E accounted \in BOOLEAN : RecordMemory(accounted)
  \/ \E refs \in ReferenceSamples : RecordReferences(refs)

QualificationNext ==
  \/ \E m \in Measurements : Record(m)
  \/ \E refs \in ReferenceSamples : SetReferenceState(refs)

-----------------------------------------------------------------------------

\* A verdict that opens a release says, of everything recorded: at most one
\* sample in twenty is above either latency limit, errors and series are within
\* the policy, no request had a fault, and the last samples leave no memory
\* unaccounted and no reference, unless their sum wraps.  The time to a token
\* is exact: rounding it down hides nothing that reaches the next unit.
VerdictsSound ==
  /\ Decision = "PASS" =>
       /\ rc1.requests > 0 /\ 20 * rc1.slow <= rc1.requests /\ 20 * rc1.stalled <= rc1.requests
       /\ rc1.faults = {} /\ rc1.memory = "within"
       /\ rc1.sample = NoReferences \/ Sum(rc1.sample) >= RefLimit
  /\ Passed =>
       /\ 20 * qual.slow <= qual.samples /\ 20 * over <= qual.samples
       /\ 100 * qual.errors <= (100 - Availability) * qual.samples
       /\ Cardinality(qual.series) <= MaxSeries
=============================================================================
