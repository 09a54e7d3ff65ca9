---------------------------- MODULE ControlPlane ----------------------------
(* The scheduler, and the two gates that judge a release from what was        *)
(* measured of it.  They share no state, so a behaviour is of one of them.    *)
EXTENDS ProductionScheduler

CONSTANTS MaxRequests, MaxSeries, MinSamples, Availability, TokenLimit, RefLimit,
          Events, ReferenceSamples, Measurements

VARIABLES control, rc1, qual, over

Gates == INSTANCE ReleaseGates

\* The policy of a gate, and what a harness reports; counts of references wrap.
ASSUME GateConstants ==
  /\ MaxSeries \in Nat /\ Availability \in Nat /\ TokenLimit \in Nat
  /\ RefLimit \in Nat \ {0}
  /\ \A event \in Events : event.slow \in BOOLEAN /\ event.stalled \in BOOLEAN
  /\ ReferenceSamples \subseteq [pages : Nat, snapshots : Nat, leases : Nat, requests : Nat]
  /\ \A m \in Measurements : /\ m.slow \in BOOLEAN /\ m.content \in BOOLEAN
                              /\ m.decode \in Nat /\ m.tokens \in Nat

gateVars == <<rc1, qual, over>>

ControlInit == Init /\ Gates!GateInit /\ control \in {"scheduler", "rc1", "qualification"}

ControlNext ==
  \/ control = "scheduler" /\ Next /\ UNCHANGED <<control, gateVars>>
  \/ control = "rc1" /\ Gates!Rc1Next /\ UNCHANGED <<control, vars>>
  \/ control = "qualification" /\ Gates!QualificationNext /\ UNCHANGED <<control, vars>>

ControlSpec == ControlInit /\ [][ControlNext]_<<control, vars, gateVars>>

-----------------------------------------------------------------------------

\* The gates' VerdictsSound, wherever the samples came from.
VerdictsSound == Gates!VerdictsSound
=============================================================================
