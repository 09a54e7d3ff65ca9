---------------------------- MODULE ClusterLease ----------------------------
(***************************************************************************)
(* Page leases and published manifests of the disaggregated cluster:       *)
(* src/src/disaggregated_serving.cpp.  Calls run under the cluster mutex;  *)
(* the workers keep copies of the leases they were given and may present   *)
(* any of them at any later time, once, again, or out of order.  A token   *)
(* is a function of page, owner and generation, so that a lease matches    *)
(* the authoritative one when both agree on owner and generation.  The     *)
(* worker registry, the transfer checks, which leave no transfer in flight *)
(* between calls, and the counters touch no lease and are left out.        *)
(***************************************************************************)
EXTENDS Integers

CONSTANTS
  Pages,    \* page identities
  Nodes,  \* ids of workers; a lease may be given to any
  Duration, \* config.lease_duration_millis
  MaxTime,  \* bound: the clock
  MaxGen    \* bound: generations of a lease

ASSUME LeaseConstants ==
  /\ Duration \in Nat \ {0} /\ MaxTime \in Nat /\ MaxGen \in Nat

VARIABLES
  now,      \* now_millis
  lease,    \* the authoritative lease of each page
  manifest, \* the lease inside the published manifest of each page
  held      \* the leases of each page that workers have been given

leaseVars == <<now, lease, manifest, held>>

Lease == [owner : Nodes, generation : Nat \ {0}, expires : Nat]

\* A page without a lease, or without a manifest.
None == [owner |-> "none", generation |-> 0, expires |-> 0]

LeaseInit ==
  /\ now = 0
  /\ lease = [p \in Pages |-> None]
  /\ manifest = [p \in Pages |-> None]
  /\ held = [p \in Pages |-> {}]

\* The steady clock moves on.
Tick == now < MaxTime /\ now' = now + 1 /\ UNCHANGED <<lease, manifest, held>>

\* A lease a worker presents is the authoritative one of the page.
Matches(p, h) ==
  /\ lease[p] # None
  /\ h.generation = lease[p].generation /\ h.owner = lease[p].owner

Granted(w, generation) == [owner |-> w, generation |-> generation, expires |-> now + Duration]

\* The lease x becomes the authoritative one of p and is given out.
Give(p, x) ==
  /\ lease' = [lease EXCEPT ![p] = x]
  /\ held' = [held EXCEPT ![p] = @ \cup {x}]

\* cf_cluster_acquire_lease: only of a page without an unexpired lease.
AcquireLease(p, w) ==
  /\ lease[p].expires <= now /\ lease[p].generation < MaxGen
  /\ Give(p, Granted(w, lease[p].generation + 1))
  /\ UNCHANGED <<now, manifest>>

\* cf_cluster_renew_lease: an expired lease too, until another takes its place;
\* the manifest keeps the old expiry.
Renew(p, h) ==
  /\ Matches(p, h)
  /\ Give(p, Granted(lease[p].owner, lease[p].generation))
  /\ UNCHANGED <<now, manifest>>

TransferLeavesManifest(p, h, w) ==
  /\ Matches(p, h) /\ lease[p].generation < MaxGen
  /\ Give(p, Granted(w, lease[p].generation + 1))
  /\ UNCHANGED <<now, manifest>>
TransferSameGeneration(p, h, w) ==
  /\ Matches(p, h)
  /\ Give(p, Granted(w, lease[p].generation))
  /\ manifest' = [manifest EXCEPT ![p] = IF @ = None THEN None ELSE lease'[p]]
  /\ UNCHANGED now

\* cf_cluster_transfer_lease: the next generation, for another or the same
\* worker; the manifest, if there is one, goes with it.
Transfer(p, h, w) ==
  /\ Matches(p, h) /\ lease[p].generation < MaxGen
  /\ Give(p, Granted(w, lease[p].generation + 1))
  /\ manifest' = [manifest EXCEPT ![p] = IF @ = None THEN None ELSE lease'[p]]
  /\ UNCHANGED now

\* cf_cluster_publish_manifest: the manifest holds the copy that was presented.
Publish(p, h) ==
  /\ Matches(p, h)
  /\ manifest' = [manifest EXCEPT ![p] = h]
  /\ UNCHANGED <<now, lease, held>>

LeaseNext ==
  \/ Tick
  \/ \E p \in Pages, w \in Nodes : AcquireLease(p, w)
  \/ \E p \in Pages : \E h \in held[p] :
       Renew(p, h) \/ Publish(p, h) \/ \E w \in Nodes : Transfer(p, h, w)

LeaseSpec == LeaseInit /\ [][LeaseNext]_leaseVars

---------------------------------------------------------------------------
(* Properties. *)

LeaseTypeOK ==
  /\ now \in Nat
  /\ lease \in [Pages -> Lease \cup {None}]
  /\ manifest \in [Pages -> Lease \cup {None}]
  /\ held \in [Pages -> SUBSET Lease]

\* The pages cf_cluster_route_request counts as cached.
Routed == {p \in Pages : manifest[p].expires > now}

\* Fencing: the authoritative lease is ahead of every copy ever given out, and a
\* copy of its generation has its owner and no later expiry.  Whatever stale
\* lease is presented, in whatever order, only the owner's is accepted.
Fenced ==
  \A p \in Pages : \A h \in held[p] :
    /\ h.generation <= lease[p].generation
    /\ h.generation = lease[p].generation =>
         h.owner = lease[p].owner /\ h.expires <= lease[p].expires

\* A page the router counts as cached is published under the lease in force: its
\* owner and generation, and not past its end.
RoutedIsOwned ==
  \A p \in Routed : /\ manifest[p].generation = lease[p].generation
                    /\ manifest[p].owner = lease[p].owner
                    /\ lease[p].expires > now
=============================================================================
