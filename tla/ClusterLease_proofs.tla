------------------------ MODULE ClusterLease_proofs ------------------------
(***************************************************************************)
(* Theorems of Cluster: fencing of leases and placements, the freshness of *)
(* routed pages and the counters of a batch, for any pages, workers, lease *)
(* duration and schedule of stale copies, any devices, layers and batches. *)
(***************************************************************************)
EXTENDS Cluster, FoldTheorems, SequenceTheorems, TLAPS

\* A manifest is behind the authoritative lease of its page: of its generation it
\* has the owner and no later expiry, and one of an earlier generation is over.
Behind ==
  \A p \in Pages :
    /\ manifest[p].generation <= lease[p].generation
    /\ manifest[p].generation = lease[p].generation =>
         manifest[p].owner = lease[p].owner /\ manifest[p].expires <= lease[p].expires
    /\ manifest[p].generation < lease[p].generation => manifest[p].expires <= now

\* No lease lasts longer than one duration from now: a renewal never shortens it.
Bounded == \A p \in Pages : lease[p].expires <= now + Duration

IInv == LeaseTypeOK /\ Fenced /\ Behind /\ Bounded

\* What is not a lease has neither generation nor expiry.
LEMMA LeaseTypes ==
  ASSUME LeaseTypeOK, NEW p \in Pages
  PROVE  /\ lease[p] \in Lease \cup {None} /\ manifest[p] \in Lease \cup {None}
         /\ lease[p].generation \in Nat /\ lease[p].expires \in Nat
         /\ manifest[p].generation \in Nat /\ manifest[p].expires \in Nat
         /\ lease[p] = None <=> lease[p].generation = 0
<1>1. lease[p] \in Lease \cup {None} /\ manifest[p] \in Lease \cup {None}
  BY DEF LeaseTypeOK
<1>2. \A x \in Lease : x.generation \in Nat \ {0} /\ x.expires \in Nat
  BY DEF Lease
<1>3. None.generation = 0 /\ None.expires = 0
  BY DEF None
<1> QED
  BY <1>1, <1>2, <1>3

\* What is granted is a lease that starts now.
LEMMA GrantedLease ==
  ASSUME NEW w \in Nodes, NEW g \in Nat \ {0}, now \in Nat
  PROVE  /\ Granted(w, g) \in Lease
         /\ Granted(w, g).owner = w /\ Granted(w, g).generation = g
         /\ Granted(w, g).expires = now + Duration /\ Granted(w, g).expires > now
  BY LeaseConstants DEF Granted, Lease

\* A lease that matches is of the authoritative generation and owner.
LEMMA MatchesOwner ==
  ASSUME LeaseTypeOK, NEW p \in Pages, NEW h \in held[p], Matches(p, h)
  PROVE  /\ lease[p] \in Lease /\ h \in Lease
         /\ h.owner = lease[p].owner /\ h.generation = lease[p].generation
<1>1. h \in Lease
  BY DEF LeaseTypeOK
<1> QED
  BY <1>1 DEF LeaseTypeOK, Matches

\* Giving out the lease x of page p preserves types and fencing when x is of the
\* next generation, or of the present one with its owner and no earlier expiry.
LEMMA GiveSafe ==
  ASSUME IInv, NEW p \in Pages, NEW x \in Lease, Give(p, x), now' = now,
         \/ x.generation > lease[p].generation
         \/ /\ x.generation = lease[p].generation /\ x.owner = lease[p].owner
            /\ x.expires >= lease[p].expires
  PROVE  /\ lease' \in [Pages -> Lease \cup {None}]
         /\ held' \in [Pages -> SUBSET Lease]
         /\ lease'[p] = x /\ \A q \in Pages \ {p} : lease'[q] = lease[q]
         /\ Fenced'
<1> USE DEF IInv, LeaseTypeOK
<1>1. /\ lease' = [lease EXCEPT ![p] = x]
      /\ held' = [held EXCEPT ![p] = @ \cup {x}]
  BY DEF Give
<1>2. lease' \in [Pages -> Lease \cup {None}] /\ held' \in [Pages -> SUBSET Lease]
  BY <1>1
<1>3. lease'[p] = x /\ held'[p] = held[p] \cup {x}
  BY <1>1
<1>4. \A q \in Pages \ {p} : lease'[q] = lease[q] /\ held'[q] = held[q]
  BY <1>1
<1>5. ASSUME NEW q \in Pages, NEW h \in held'[q]
      PROVE  /\ h.generation <= lease'[q].generation
             /\ h.generation = lease'[q].generation =>
                  h.owner = lease'[q].owner /\ h.expires <= lease'[q].expires
  <2>1. CASE q # p
    BY <1>4, <1>5, <2>1 DEF Fenced
  <2>2. CASE q = p /\ h = x
    BY <1>3, <2>2 DEF Lease
  <2>3. CASE q = p /\ h \in held[p]
    <3>1. /\ h.generation <= lease[p].generation
          /\ h.generation = lease[p].generation =>
               h.owner = lease[p].owner /\ h.expires <= lease[p].expires
      BY <2>3 DEF Fenced
    <3>2. h \in Lease /\ x.generation \in Nat /\ x.expires \in Nat
      BY <2>3 DEF Lease
    <3>3. h.generation \in Nat /\ h.expires \in Nat
      BY <3>2 DEF Lease
    <3>4. lease[p].generation \in Nat /\ lease[p].expires \in Nat
      BY LeaseTypes
    <3> QED
      BY <1>3, <2>3, <3>1, <3>2, <3>3, <3>4
  <2> QED
    BY <1>3, <1>5, <2>1, <2>2, <2>3
<1>6. Fenced'
  BY <1>5 DEF Fenced
<1> QED
  BY <1>2, <1>3, <1>4, <1>6

LEMMA InitIInv == LeaseInit => IInv
<1> SUFFICES ASSUME LeaseInit PROVE IInv
  OBVIOUS
<1>1. /\ now = 0
      /\ lease = [p \in Pages |-> None] /\ manifest = [p \in Pages |-> None]
      /\ held = [p \in Pages |-> {}]
  BY DEF LeaseInit
<1>2. LeaseTypeOK
  BY <1>1 DEF LeaseTypeOK
<1>3. Fenced
  BY <1>1 DEF Fenced
<1>4. None.generation = 0 /\ None.expires = 0
  BY DEF None
<1>5. ASSUME NEW p \in Pages
      PROVE  /\ lease[p] = None /\ manifest[p] = None
             /\ lease[p].generation = 0 /\ lease[p].expires = 0
             /\ manifest[p].generation = 0 /\ manifest[p].expires = 0
  BY <1>1, <1>4
<1>6. Behind
  <2> SUFFICES ASSUME NEW p \in Pages
               PROVE  /\ manifest[p].generation <= lease[p].generation
                      /\ manifest[p].generation = lease[p].generation =>
                           manifest[p].owner = lease[p].owner
                           /\ manifest[p].expires <= lease[p].expires
                      /\ manifest[p].generation < lease[p].generation =>
                           manifest[p].expires <= now
    BY DEF Behind
  <2>1. /\ lease[p].generation = 0 /\ lease[p].expires = 0
        /\ manifest[p].generation = 0 /\ manifest[p].expires = 0
        /\ manifest[p].owner = lease[p].owner
    BY <1>5
  <2> QED
    BY <2>1
<1>7. Bounded
  <2> SUFFICES ASSUME NEW p \in Pages PROVE lease[p].expires <= now + Duration
    BY DEF Bounded
  <2>1. lease[p].expires = 0
    BY <1>5
  <2>2. 0 <= 0 + Duration
    BY LeaseConstants
  <2> QED
    BY <1>1, <2>1, <2>2
<1> QED
  BY <1>2, <1>3, <1>6, <1>7 DEF IInv

\* Giving out the lease x of page p, that ends one duration from now, preserves
\* the invariant as far as the manifest stays behind.
LEMMA GiveIInv ==
  ASSUME IInv, NEW p \in Pages, NEW w \in Nodes, NEW g \in Nat \ {0},
         Give(p, Granted(w, g)), now' = now, manifest' \in [Pages -> Lease \cup {None}],
         g > lease[p].generation \/ (g = lease[p].generation /\ w = lease[p].owner)
  PROVE  /\ LeaseTypeOK' /\ Fenced' /\ Bounded'
         /\ lease'[p] = Granted(w, g) /\ \A q \in Pages \ {p} : lease'[q] = lease[q]
<1> DEFINE x == Granted(w, g)
<1>1. now \in Nat /\ LeaseTypeOK
  BY DEF IInv, LeaseTypeOK
<1>2. /\ x \in Lease /\ x.owner = w /\ x.generation = g /\ x.expires = now + Duration
  BY <1>1, GrantedLease
<1>3. lease[p].expires <= x.expires
  BY <1>2 DEF IInv, Bounded
<1>4. lease[p].expires \in Nat /\ x.expires \in Nat
  BY <1>1, <1>2, LeaseTypes DEF Lease
<1>5. Give(p, x)
  OBVIOUS
<1> HIDE DEF x
<1>6. /\ lease' \in [Pages -> Lease \cup {None}] /\ held' \in [Pages -> SUBSET Lease]
      /\ lease'[p] = x /\ \A q \in Pages \ {p} : lease'[q] = lease[q]
      /\ Fenced'
  BY <1>2, <1>3, <1>4, <1>5, GiveSafe
<1>7. LeaseTypeOK'
  BY <1>1, <1>6 DEF LeaseTypeOK
<1>8. ASSUME NEW q \in Pages PROVE lease'[q].expires <= now' + Duration
  <2>1. CASE q = p
    BY <1>2, <1>4, <1>6, <2>1
  <2>2. CASE q # p
    BY <1>6, <2>2 DEF IInv, Bounded
  <2> QED
    BY <2>1, <2>2
<1> QED
  BY <1>6, <1>7, <1>8 DEF x, Bounded

\* Every step preserves the invariant.
LEMMA NextIInv == IInv /\ [LeaseNext]_leaseVars => IInv'
<1> SUFFICES ASSUME IInv, [LeaseNext]_leaseVars PROVE IInv'
  OBVIOUS
<1>a. LeaseTypeOK /\ Fenced /\ Behind /\ Bounded /\ now \in Nat
  BY DEF IInv, LeaseTypeOK
<1>b. /\ manifest \in [Pages -> Lease \cup {None}]
      /\ \A q \in Pages : /\ lease[q].generation \in Nat /\ lease[q].expires \in Nat
                          /\ manifest[q].generation \in Nat /\ manifest[q].expires \in Nat
  BY <1>a, LeaseTypes DEF LeaseTypeOK
<1>1. CASE Tick
  <2>1. LeaseTypeOK' /\ Fenced'
    BY <1>a, <1>1 DEF Tick, LeaseTypeOK, Fenced
  <2>2. Behind' /\ Bounded'
    BY <1>a, <1>b, <1>1, LeaseConstants DEF Tick, Behind, Bounded
  <2> QED
    BY <2>1, <2>2 DEF IInv
<1>2. ASSUME NEW p \in Pages, NEW w \in Nodes, AcquireLease(p, w) PROVE IInv'
  <2> DEFINE x == Granted(w, lease[p].generation + 1)
  <2>1. /\ lease[p].expires <= now /\ Give(p, x)
        /\ now' = now /\ manifest' = manifest
    BY <1>2 DEF AcquireLease
  <2>2. x.generation = lease[p].generation + 1
    BY DEF Granted
  <2>3. /\ LeaseTypeOK' /\ Fenced' /\ Bounded'
        /\ lease'[p] = x /\ \A q \in Pages \ {p} : lease'[q] = lease[q]
    BY <1>b, <2>1, GiveIInv
  <2> HIDE DEF x
  <2>4. manifest[p].generation < x.generation /\ manifest[p].expires <= now
    BY <1>a, <1>b, <2>1, <2>2 DEF Behind
  <2>5. Behind'
    BY <1>a, <1>b, <2>1, <2>2, <2>3, <2>4 DEF Behind
  <2> QED
    BY <2>3, <2>5 DEF IInv
<1>3. ASSUME NEW p \in Pages, NEW h \in held[p], Renew(p, h) PROVE IInv'
  <2> DEFINE x == Granted(lease[p].owner, lease[p].generation)
  <2>1. Matches(p, h) /\ Give(p, x) /\ now' = now /\ manifest' = manifest
    BY <1>3 DEF Renew
  <2>2. lease[p] \in Lease
    BY <1>a, <2>1, MatchesOwner
  <2>3. lease[p].owner \in Nodes /\ lease[p].generation \in Nat \ {0}
    BY <2>2 DEF Lease
  <2>4. /\ x.owner = lease[p].owner /\ x.generation = lease[p].generation
        /\ x.expires = now + Duration
    BY DEF Granted
  <2>5. /\ LeaseTypeOK' /\ Fenced' /\ Bounded'
        /\ lease'[p] = x /\ \A q \in Pages \ {p} : lease'[q] = lease[q]
    BY <1>b, <2>1, <2>3, GiveIInv
  <2> HIDE DEF x
  <2>6. lease[p].expires <= x.expires /\ x.expires \in Nat
    BY <1>a, <2>4, LeaseConstants DEF Bounded
  <2>7. Behind'
    BY <1>a, <1>b, <2>1, <2>4, <2>5, <2>6 DEF Behind
  <2> QED
    BY <2>5, <2>7 DEF IInv
<1>4. ASSUME NEW p \in Pages, NEW h \in held[p], NEW w \in Nodes, Transfer(p, h, w) PROVE IInv'
  <2> DEFINE x == Granted(w, lease[p].generation + 1)
  <2>1. /\ Matches(p, h) /\ Give(p, x) /\ now' = now
        /\ manifest' = [manifest EXCEPT ![p] = IF @ = None THEN None ELSE lease'[p]]
    BY <1>4 DEF Transfer
  <2>2. lease'[p] = x
    BY <1>a, <2>1 DEF Give, LeaseTypeOK
  <2>3. /\ x.generation = lease[p].generation + 1
        /\ x \in Lease
    BY <1>a, <1>b, GrantedLease
  <2>4. manifest' \in [Pages -> Lease \cup {None}]
    BY <1>b, <2>1, <2>2, <2>3
  <2>5. /\ LeaseTypeOK' /\ Fenced' /\ Bounded'
        /\ \A q \in Pages \ {p} : lease'[q] = lease[q]
    BY <1>b, <2>1, <2>4, GiveIInv
  <2> HIDE DEF x
  <2>6. \A q \in Pages \ {p} : manifest'[q] = manifest[q]
    BY <1>b, <2>1
  <2>7. CASE manifest[p] = None
    <3>1. manifest'[p] = None
      BY <1>b, <2>1, <2>7
    <3>2. None.generation = 0 /\ None.expires = 0
      BY DEF None
    <3>3. Behind'
      BY <1>a, <1>b, <2>1, <2>2, <2>3, <2>5, <2>6, <3>1, <3>2 DEF Behind
    <3> QED
      BY <2>5, <3>3 DEF IInv
  <2>8. CASE manifest[p] # None
    <3>1. manifest'[p] = x
      BY <1>b, <2>1, <2>2, <2>8
    <3>2. x.generation \in Nat /\ x.expires \in Nat
      BY <2>3 DEF Lease
    <3>3. Behind'
      BY <1>a, <1>b, <2>1, <2>2, <2>5, <2>6, <3>1, <3>2 DEF Behind
    <3> QED
      BY <2>5, <3>3 DEF IInv
  <2> QED
    BY <2>7, <2>8
<1>5. ASSUME NEW p \in Pages, NEW h \in held[p], Publish(p, h) PROVE IInv'
  <2>1. /\ Matches(p, h) /\ manifest' = [manifest EXCEPT ![p] = h]
        /\ now' = now /\ lease' = lease /\ held' = held
    BY <1>5 DEF Publish
  <2>2. /\ h \in Lease /\ h.owner = lease[p].owner /\ h.generation = lease[p].generation
    BY <1>a, <2>1, MatchesOwner
  <2>3. h.expires <= lease[p].expires
    BY <1>a, <2>2 DEF Fenced
  <2>4. manifest'[p] = h /\ \A q \in Pages \ {p} : manifest'[q] = manifest[q]
    BY <1>b, <2>1
  <2>5. LeaseTypeOK'
    BY <1>a, <1>b, <2>1, <2>2 DEF LeaseTypeOK
  <2>6. Fenced' /\ Bounded'
    BY <1>a, <2>1 DEF Fenced, Bounded
  <2>7. Behind'
    BY <1>a, <1>b, <2>1, <2>2, <2>3, <2>4 DEF Behind
  <2> QED
    BY <2>5, <2>6, <2>7 DEF IInv
<1>6. CASE UNCHANGED leaseVars
  BY <1>a, <1>6 DEF leaseVars, IInv, LeaseTypeOK, Fenced, Behind, Bounded
<1> QED
  BY <1>1, <1>2, <1>3, <1>4, <1>5, <1>6 DEF LeaseNext

\* The invariant implies the property of the router.
LEMMA BehindRouted == IInv => RoutedIsOwned
<1> SUFFICES ASSUME IInv, NEW p \in Routed
             PROVE  /\ manifest[p].generation = lease[p].generation
                    /\ manifest[p].owner = lease[p].owner
                    /\ lease[p].expires > now
  BY DEF RoutedIsOwned
<1>1. p \in Pages /\ manifest[p].expires > now /\ now \in Nat
  BY DEF Routed, IInv, LeaseTypeOK
<1>2. /\ manifest[p].generation \in Nat /\ lease[p].generation \in Nat
      /\ manifest[p].expires \in Nat /\ lease[p].expires \in Nat
  BY <1>1, LeaseTypes DEF IInv
<1> QED
  BY <1>1, <1>2 DEF IInv, Behind

LEMMA Invariant == LeaseSpec => []IInv
  BY InitIInv, NextIInv, PTL DEF LeaseSpec

\* No stale copy of a lease is accepted and no generation has two owners, in any
\* order in which copies given out by acquire, renew and transfer come back.
THEOREM StaleLeasesFenced == LeaseSpec => [](LeaseTypeOK /\ Fenced)
<1>1. IInv => LeaseTypeOK /\ Fenced
  BY DEF IInv
<1> QED
  BY <1>1, Invariant, PTL

\* A page cf_cluster_route_request counts as cached is under the lease in force.
THEOREM RoutedPagesOwned == LeaseSpec => []RoutedIsOwned
  BY Invariant, BehindRouted, PTL

-----------------------------------------------------------------------------
(* The control plane of several devices: DistributedRuntime, for any devices, *)
(* layers and sequences.                                                      *)

LEMMA SameDevices == Distributed!Cardinality(Devices) = Cardinality(Devices)
  BY DEF Distributed!Cardinality, Cardinality

LEMMA LeastOfTwo ==
  ASSUME NEW x \in Int, NEW y \in Int
  PROVE  Distributed!Min({x, y}) = IF x <= y THEN x ELSE y
<1>1. \E m \in {x, y} : \A z \in {x, y} : m <= z
  OBVIOUS
<1>2. Distributed!Min({x, y}) \in {x, y} /\ \A z \in {x, y} : Distributed!Min({x, y}) <= z
  BY <1>1 DEF Distributed!Min
<1> QED
  BY <1>2

\* A quotient is between its multiples.
LEMMA Quotient ==
  ASSUME NEW a \in Nat, NEW b \in Nat, b > 0
  PROVE  /\ a \div b \in Nat /\ (a \div b) * b <= a /\ a < (a \div b) * b + b
         /\ \A q \in Nat : q * b <= a /\ a < q * b + b => a \div b = q
<1>1. a \div b \in Nat /\ (a \div b) * b <= a /\ a < (a \div b) * b + b
  OBVIOUS
<1>2. ASSUME NEW q \in Nat, q * b <= a, a < q * b + b PROVE a \div b = q
<2>1. q * b < (a \div b + 1) * b /\ (a \div b) * b < (q + 1) * b
  BY <1>1, <1>2
<2>2. q < a \div b + 1 /\ a \div b < q + 1
  BY <1>1, <2>1
<2> QED
  BY <1>1, <2>2
<1> QED
  BY <1>1, <1>2

\* The devices and layers of a configuration.
Configured(n) == n \in Nat \ {0} /\ LayerCount \in Nat \ {0} /\ Devices = 0 .. n - 1

LEMMA RouteIs ==
  ASSUME NEW n, Configured(n), setup.mode # "single", NEW layer \in 0 .. LayerCount - 1
  PROVE  /\ Distributed!RouteLayer(layer) = (layer * n) \div LayerCount
         /\ (layer * n) \div LayerCount \in 0 .. n - 1
<1>1. Cardinality(Devices) = n
  BY FS_Interval DEF Configured
<1>2. layer \in Nat /\ n \in Nat /\ LayerCount \in Nat /\ LayerCount > 0 /\ layer * n \in Nat
  BY DEF Configured
<1>3. layer * n < n * LayerCount
  BY <1>2 DEF Configured
<1>4. (layer * n) \div LayerCount \in Nat /\ ((layer * n) \div LayerCount) * LayerCount <= layer * n
  BY <1>2, Quotient
<1>5. (layer * n) \div LayerCount < n
  BY <1>2, <1>3, <1>4
<1>6. Distributed!RouteLayer(layer) = Distributed!Min({(layer * n) \div LayerCount, n - 1})
  BY <1>1, SameDevices DEF Distributed!RouteLayer
<1> QED
  BY <1>2, <1>4, <1>5, <1>6, LeastOfTwo

LEMMA LayersInOrder ==
  ASSUME NEW n, Configured(n), NEW layer \in 1 .. LayerCount - 1
  PROVE  ((layer - 1) * n) \div LayerCount <= (layer * n) \div LayerCount
<1> DEFINE here == (layer * n) \div LayerCount
           before == ((layer - 1) * n) \div LayerCount
<1>1. /\ layer \in Nat /\ layer - 1 \in Nat /\ n \in Nat /\ LayerCount \in Nat /\ LayerCount > 0
      /\ layer * n \in Nat /\ (layer - 1) * n \in Nat /\ layer * n = (layer - 1) * n + n
  BY DEF Configured
<1>2. /\ here \in Nat /\ layer * n < here * LayerCount + LayerCount
      /\ before \in Nat /\ before * LayerCount <= (layer - 1) * n
  BY <1>1, Quotient
<1> HIDE DEF here, before
<1>3. before * LayerCount < (here + 1) * LayerCount
  BY <1>1, <1>2
<1>4. before < here + 1
  BY <1>1, <1>2, <1>3
<1> QED
  BY <1>2, <1>4 DEF here, before

\* The first layer at or after d equal runs of layers is on device d.
LEMMA NoDeviceIdle ==
  ASSUME NEW n, Configured(n), n <= LayerCount, NEW d \in 0 .. n - 1
  PROVE  \E layer \in 0 .. LayerCount - 1 : (layer * n) \div LayerCount = d
<1> DEFINE layer == (d * LayerCount + n - 1) \div n
<1>1. /\ d \in Nat /\ n \in Nat /\ n > 0 /\ n <= LayerCount /\ LayerCount \in Nat /\ LayerCount > 0
      /\ d * LayerCount + n - 1 \in Nat
  BY DEF Configured
<1>2. layer \in Nat /\ layer * n <= d * LayerCount + n - 1 /\ d * LayerCount + n - 1 < layer * n + n
  BY <1>1, Quotient
<1> HIDE DEF layer
<1>3. layer * n \in Nat /\ d * LayerCount <= layer * n /\ layer * n < d * LayerCount + LayerCount
  BY <1>1, <1>2
<1>4. (layer * n) \div LayerCount = d
  BY <1>1, <1>3, Quotient
<1>5. d * LayerCount + LayerCount <= n * LayerCount
<2>1. (d + 1) * LayerCount <= n * LayerCount
  BY <1>1
<2> QED
  BY <1>1, <2>1
<1>6. layer * n < LayerCount * n
  BY <1>1, <1>3, <1>5
<1>7. layer < LayerCount
  BY <1>1, <1>2, <1>6
<1>8. layer \in 0 .. LayerCount - 1
  BY <1>1, <1>2, <1>7
<1> QED
  BY ONLY <1>4, <1>8

\* Every layer has a device, in order, and no device is left idle.
DevicesServe ==
  /\ \A layer \in 0 .. LayerCount - 1 :
       /\ Distributed!RouteLayer(layer) \in Devices
       /\ layer > 0 => Distributed!RouteLayer(layer - 1) <= Distributed!RouteLayer(layer)
  /\ setup.mode # "single" /\ Distributed!Cardinality(Devices) <= LayerCount => Devices = {Distributed!RouteLayer(layer) : layer \in 0 .. LayerCount - 1}

LEMMA LayersRouted == ASSUME NEW n, Configured(n) PROVE DevicesServe
<1>1. CASE setup.mode = "single"
<2>1. \A layer : Distributed!RouteLayer(layer) = 0
  BY <1>1 DEF Distributed!RouteLayer
<2>2. 0 \in Devices
  BY DEF Configured
<2> QED
  BY <1>1, <2>1, <2>2 DEF DevicesServe
<1>2. CASE setup.mode # "single"
<2>1. \A layer \in 0 .. LayerCount - 1 : Distributed!RouteLayer(layer) \in Devices
  BY <1>2, RouteIs DEF Configured
<2>2. ASSUME NEW layer \in 0 .. LayerCount - 1, layer > 0
      PROVE  Distributed!RouteLayer(layer - 1) <= Distributed!RouteLayer(layer)
<3>1. layer \in 1 .. LayerCount - 1 /\ layer - 1 \in 0 .. LayerCount - 1
  BY <2>2 DEF Configured
<3> QED
  BY <1>2, <3>1, RouteIs, LayersInOrder
<2>3. ASSUME Distributed!Cardinality(Devices) <= LayerCount
      PROVE  Devices \subseteq {Distributed!RouteLayer(layer) : layer \in 0 .. LayerCount - 1}
<3> SUFFICES ASSUME NEW d \in 0 .. n - 1
             PROVE  \E layer \in 0 .. LayerCount - 1 : d = Distributed!RouteLayer(layer)
  BY DEF Configured
<3>2. n <= LayerCount
  BY <2>3, SameDevices, FS_Interval DEF Configured
<3>1. PICK layer \in 0 .. LayerCount - 1 : (layer * n) \div LayerCount = d
  BY ONLY Configured(n), d \in 0 .. n - 1, <3>2, NoDeviceIdle
<3> QED
  BY <1>2, <3>1, RouteIs
<2> QED
  BY <2>1, <2>2, <2>3 DEF DevicesServe
<1> QED
  BY <1>1, <1>2

\* A placement is younger than every other copy of it: until shutdown every copy
\* is of a placed sequence.
PlacementInv ==
  /\ \A seq \in DOMAIN placements : /\ placements[seq].generation \in Nat \ {0}
                                    /\ DOMAIN placements[seq] = {"device", "generation", "shards"}
  /\ closing \in BOOLEAN
  /\ closing => DOMAIN placements = {}
  /\ ~closing => \A c \in copies : c.seq \in DOMAIN placements
  /\ \A c \in copies : /\ c.at.generation \in Nat
                       /\ c.seq \in DOMAIN placements =>
                            c.at = placements[c.seq] \/ c.at.generation < placements[c.seq].generation

LEMMA PlaceSound ==
  ASSUME PlacementInv, NEW seq \in SeqIds, Distributed!PlaceSequence(seq)
  PROVE  PlacementInv'
<1> DEFINE new == IF seq \in DOMAIN placements THEN placements[seq] ELSE Distributed!PlacementOf(seq)
<1>1. /\ ~closing /\ closing' = closing
      /\ placements' = [x \in DOMAIN placements \cup {seq} |-> IF x = seq THEN new ELSE placements[x]]
      /\ copies' = copies \cup {[seq |-> seq, at |-> new]}
  BY DEF Distributed!PlaceSequence
<1>2. new.generation \in Nat \ {0} /\ DOMAIN new = {"device", "generation", "shards"}
  BY DEF PlacementInv, Distributed!PlacementOf
<1>3. seq \in DOMAIN placements => new = placements[seq]
  OBVIOUS
<1> HIDE DEF new
<1>4. /\ DOMAIN placements' = DOMAIN placements \cup {seq} /\ placements'[seq] = new
      /\ \A x \in DOMAIN placements : placements'[x] = placements[x]
  BY <1>1, <1>3
<1>5. ASSUME NEW c \in copies'
      PROVE  /\ c.seq \in DOMAIN placements' /\ c.at.generation \in Nat
             /\ c.at = placements'[c.seq] \/ c.at.generation < placements'[c.seq].generation
<2>1. CASE c \in copies
  BY <1>1, <1>4, <2>1 DEF PlacementInv
<2>2. CASE c = [seq |-> seq, at |-> new]
  BY <1>2, <1>4, <2>2
<2> QED
  BY <1>1, <2>1, <2>2
<1> QED
  BY <1>1, <1>2, <1>4, <1>5 DEF PlacementInv

\* A migration leaves every copy behind, of whatever device the sequence returns to.
LEMMA MigrateSound ==
  ASSUME PlacementInv, NEW seq \in SeqIds, NEW device \in Devices, Distributed!MigrateSequence(seq, device)
  PROVE  PlacementInv'
<1>1. /\ seq \in DOMAIN placements /\ closing' = closing /\ copies' = copies
      /\ placements' = [placements EXCEPT ![seq].device = device, ![seq].generation = @ + 1]
  BY DEF Distributed!MigrateSequence
<1>2. placements[seq].generation \in Nat \ {0} /\ DOMAIN placements[seq] = {"device", "generation", "shards"}
  BY <1>1 DEF PlacementInv
<1>3. /\ DOMAIN placements' = DOMAIN placements
      /\ \A x \in DOMAIN placements : x # seq => placements'[x] = placements[x]
      /\ placements'[seq] = [placements[seq] EXCEPT !.device = device, !.generation = @ + 1]
  BY <1>1
<1>4. /\ placements'[seq].generation = placements[seq].generation + 1
      /\ DOMAIN placements'[seq] = {"device", "generation", "shards"}
  BY <1>2, <1>3
<1>5. ASSUME NEW c \in copies, c.seq \in DOMAIN placements
      PROVE  c.at = placements'[c.seq] \/ c.at.generation < placements'[c.seq].generation
<2>1. /\ c.at.generation \in Nat
      /\ c.at = placements[c.seq] \/ c.at.generation < placements[c.seq].generation
  BY <1>5 DEF PlacementInv
<2>2. CASE c.seq = seq
  BY <1>2, <1>4, <2>1, <2>2
<2>3. CASE c.seq # seq
  BY <1>3, <1>5, <2>1, <2>3
<2> QED
  BY <2>2, <2>3
<1>6. ASSUME NEW x \in DOMAIN placements'
      PROVE  /\ placements'[x].generation \in Nat \ {0}
             /\ DOMAIN placements'[x] = {"device", "generation", "shards"}
<2>1. CASE x = seq
  BY <1>2, <1>4, <2>1
<2>2. CASE x # seq
<3>1. x \in DOMAIN placements /\ placements'[x] = placements[x]
  BY <1>3, <2>2
<3> QED
  BY <3>1 DEF PlacementInv
<2> QED
  BY <2>1, <2>2
<1> QED
  BY <1>1, <1>3, <1>5, <1>6 DEF PlacementInv

LEMMA PlacementStep == PlacementInv /\ [Distributed!DistributedNext]_deviceVars => PlacementInv'
<1> SUFFICES ASSUME PlacementInv, [Distributed!DistributedNext]_deviceVars PROVE PlacementInv'
  OBVIOUS
<1>1. CASE \E seq \in SeqIds : Distributed!PlaceSequence(seq)
  BY <1>1, PlaceSound
<1>2. CASE \E seq \in SeqIds : \E device \in Devices : Distributed!MigrateSequence(seq, device)
  BY <1>2, MigrateSound
<1>3. CASE Distributed!Shutdown
  BY <1>3 DEF Distributed!Shutdown, PlacementInv
<1>4. CASE UNCHANGED <<placements, copies, closing>>
  BY <1>4 DEF PlacementInv
<1>5. Distributed!EnablePeerLinks \/ UNCHANGED deviceVars => UNCHANGED <<placements, copies, closing>>
  BY DEF Distributed!EnablePeerLinks, deviceVars
<1>6. ASSUME NEW items, Distributed!ExecuteBatch(items) PROVE UNCHANGED <<placements, copies, closing>>
  BY <1>6 DEF Distributed!ExecuteBatch
<1> QED
  BY <1>1, <1>2, <1>3, <1>4, <1>5, <1>6 DEF Distributed!DistributedNext

\* A copy of a placement is in force or of an older generation, through any
\* migrations, and after shutdown none is in force; the layers are spread over the
\* devices in order, over all when they suffice.
THEOREM PlacementsFenced == ClusterSpec => []Fencing
<1> DEFINE Kept == part = "devices" => PlacementInv
<1>1. ClusterInit => Kept
  BY DEF ClusterInit, Distributed!DistributedInit, PlacementInv
<1>2. Kept /\ [ClusterNext]_clusterVars => Kept'
  BY PlacementStep DEF ClusterNext, clusterVars, deviceVars, PlacementInv
<1>3. Kept => Fencing
  BY DevicesConfigured, LayersRouted DEF Configured, PlacementInv, DevicesServe, Fencing, Distributed!Fencing
<1> QED
  BY <1>1, <1>2, <1>3, PTL DEF ClusterSpec

-----------------------------------------------------------------------------
(* The counters of a batch, in the control plane and the multi-GPU runtime *)

\* The counters of the control plane are numbers.
Tally == {"links", "refused", "peer", "staged", "failures", "failed", "batches"}

LEMMA SameCardinality == ASSUME NEW S PROVE Distributed!Cardinality(S) = Cardinality(S)
  BY DEF Distributed!Cardinality, Cardinality

\* The least member of a nonempty set of naturals, as the control plane takes it.
LEMMA LeastOf ==
  ASSUME NEW S, S \subseteq Nat, S # {}
  PROVE  Distributed!Min(S) \in S /\ \A x \in S : Distributed!Min(S) <= x
<1>1. \E m \in S : \A x \in S : m <= x
  BY LeastExists
<1> QED
  BY <1>1 DEF Distributed!Min

\* A batch counts each item that changes device once, up to the item at fault.
LEMMA BatchCounted ==
  ASSUME tally \in [Tally -> Nat], NEW n \in Nat, NEW items, items \in [1 .. n -> Items],
         Distributed!ExecuteBatch(items)
  PROVE  Distributed!BatchExact /\ tally' \in [Tally -> Nat]
<1> DEFINE bad == {i \in DOMAIN items : Distributed!Fault(items[i]) # "none"}
           upto == IF bad = {} THEN Len(items) ELSE Distributed!Min(bad) - 1
           passed == 1 .. upto
           copied == {i \in passed : items[i].source # items[i].target}
           local == {i \in copied : Distributed!Peers(items[i])}
           crossing == {i \in DOMAIN items : items[i].source # items[i].target}
<1>1. DOMAIN items = 1 .. n /\ Len(items) = n
  OBVIOUS
<1>2. /\ tally' = [tally EXCEPT
             !.peer     = @ + Distributed!Cardinality(local),
             !.staged   = @ + Distributed!Cardinality(copied \ local),
             !.failures = @ + (IF bad # {} /\ Distributed!Fault(items[Distributed!Min(bad)]) = "routing" THEN 1 ELSE 0),
             !.failed   = @ + (IF bad # {} THEN 1 ELSE 0),
             !.batches  = @ + (IF bad = {} THEN 1 ELSE 0)]
      /\ batch' = [items |-> Len(items), ok |-> bad = {},
                   crossing |-> Distributed!Cardinality(crossing),
                   placed |-> \A i \in DOMAIN items : items[i].seq \in DOMAIN placements]
      /\ setup' = setup
  BY Zenon DEF Distributed!ExecuteBatch
<1>3. bad # {} => Distributed!Min(bad) \in bad /\ \A x \in bad : Distributed!Min(bad) <= x
<2>1. bad \subseteq Nat
  BY <1>1
<2> HIDE DEF bad
<2> QED
  BY <2>1, LeastOf
<1>4. /\ upto \in Nat /\ upto <= n /\ (bad # {} => upto < n)
      /\ \A i \in passed : i \in DOMAIN items /\ i \notin bad
<2>1. bad \subseteq 1 .. n
  BY <1>1
<2> HIDE DEF bad
<2>2. upto \in Nat /\ upto <= n /\ (bad # {} => upto < n)
  <3>1. CASE bad = {}
    BY <1>1, <3>1
  <3>2. CASE bad # {}
    <4>1. PICK m : m = Distributed!Min(bad) /\ m \in 1 .. n
      BY <1>3, <2>1, <3>2
    <4>2. upto = m - 1
      BY <3>2, <4>1
    <4> QED
      BY <3>2, <4>1, <4>2
  <3> QED
    BY <3>1, <3>2
<2>3. ASSUME NEW i \in passed PROVE i \notin bad
  <3> SUFFICES ASSUME i \in bad PROVE FALSE
    OBVIOUS
  <3>1. PICK m : m = Distributed!Min(bad) /\ m \in 1 .. n /\ m <= i
    BY <1>3, <2>1
  <3>2. upto = m - 1
    BY <3>1
  <3> QED
    BY <3>1, <3>2
<2> QED
  BY <1>1, <2>2, <2>3
<1>5. ASSUME NEW i \in passed PROVE Distributed!Fault(items[i]) = "none"
  BY <1>4
<1>6. bad = {} => copied = crossing
  BY <1>1
<1>7. copied \subseteq crossing /\ copied \subseteq 1 .. upto /\ local \subseteq copied
  BY <1>1, <1>4
<1>8. copied \ local # {} => setup.staging
<2> SUFFICES ASSUME NEW i \in copied \ local PROVE setup.staging
  OBVIOUS
<2>1. Distributed!Fault(items[i]) = "none" /\ items[i].source # items[i].target /\ ~ Distributed!Peers(items[i])
  BY <1>5
<2> QED
  BY ONLY <2>1 DEF Distributed!Fault
<1>9. bad = {} => \A i \in DOMAIN items : items[i].seq \in DOMAIN placements
<2> SUFFICES ASSUME bad = {}, NEW i \in DOMAIN items PROVE items[i].seq \in DOMAIN placements
  OBVIOUS
<2>1. Distributed!Fault(items[i]) = "none"
  OBVIOUS
<2> QED
  BY ONLY <2>1 DEF Distributed!Fault
<1> HIDE DEF bad, copied, local, crossing, upto
<1>10. IsFiniteSet(1 .. upto) /\ Cardinality(1 .. upto) = upto /\ IsFiniteSet(crossing)
<2>1. crossing \subseteq 1 .. n /\ IsFiniteSet(1 .. n)
  BY <1>1, FS_Interval DEF crossing
<2>2. IsFiniteSet(1 .. upto) /\ Cardinality(1 .. upto) = upto
  BY <1>4, FS_Interval
<2> QED
  BY <2>1, <2>2, FS_Subset
<1>11. /\ IsFiniteSet(copied) /\ IsFiniteSet(local) /\ IsFiniteSet(copied \ local)
       /\ Cardinality(copied) <= upto /\ Cardinality(copied) <= Cardinality(crossing)
  BY ZenonT(40), <1>7, <1>10, FS_Subset
<1>12. /\ Cardinality(copied) = Cardinality(local) + Cardinality(copied \ local)
       /\ Cardinality(local) \in Nat /\ Cardinality(copied \ local) \in Nat
       /\ Cardinality(copied \ local) > 0 => copied \ local # {}
<2>1. copied = local \cup (copied \ local) /\ local \cap (copied \ local) = {}
  BY <1>7
<2>2. Cardinality(local \cup (copied \ local))
        = Cardinality(local) + Cardinality(copied \ local) - Cardinality(local \cap (copied \ local))
  BY <1>11, FS_Union
<2>3. Cardinality(local \cap (copied \ local)) = 0 /\ Cardinality({}) = 0
  BY <2>1, FS_EmptySet
<2>4. Cardinality(local) \in Nat /\ Cardinality(copied \ local) \in Nat
  BY <1>11, FS_CardinalityType
<2>5. Cardinality(copied) = Cardinality(local) + Cardinality(copied \ local)
  <3>1. Cardinality(copied) = Cardinality(local) + Cardinality(copied \ local) - 0
    BY Zenon, <2>1, <2>2, <2>3
  <3> QED
    BY ONLY <2>4, <3>1
<2>6. ASSUME copied \ local = {} PROVE Cardinality(copied \ local) = 0
  BY Zenon, <2>3, <2>6
<2> QED
  BY ONLY <2>4, <2>5, <2>6
<1>13. PICK a, b, c : /\ a = Cardinality(local) /\ b = Cardinality(copied \ local)
                      /\ c = Cardinality(crossing)
  OBVIOUS
<1>14. /\ a \in Nat /\ b \in Nat /\ c \in Nat /\ a + b <= upto /\ a + b <= c
       /\ b > 0 => setup.staging
       /\ bad = {} => a + b = c
  BY <1>6, <1>8, <1>10, <1>11, <1>12, <1>13, FS_CardinalityType
<1>15. tally' \in [Tally -> Nat] /\ tally'.peer = tally.peer + a /\ tally'.staged = tally.staged + b
<2>1. PICK x, y, z : /\ x \in Nat /\ y \in Nat /\ z \in Nat
                     /\ tally' = [tally EXCEPT !.peer = @ + a, !.staged = @ + b, !.failures = @ + x,
                                               !.failed = @ + y, !.batches = @ + z]
  BY <1>2, <1>13, SameCardinality
<2>2. /\ tally' = [f \in Tally |-> tally'[f]]
      /\ tally'["links"] = tally["links"] /\ tally'["refused"] = tally["refused"]
      /\ tally'["peer"] = tally["peer"] + a /\ tally'["staged"] = tally["staged"] + b
      /\ tally'["failures"] = tally["failures"] + x /\ tally'["failed"] = tally["failed"] + y
      /\ tally'["batches"] = tally["batches"] + z
  BY <2>1 DEF Tally
<2>3. \A f \in Tally : tally[f] \in Nat
  OBVIOUS
<2>4. /\ a \in Nat /\ b \in Nat /\ x \in Nat /\ y \in Nat /\ z \in Nat
      /\ tally["links"] \in Nat /\ tally["refused"] \in Nat /\ tally["peer"] \in Nat
      /\ tally["staged"] \in Nat /\ tally["failures"] \in Nat /\ tally["failed"] \in Nat
      /\ tally["batches"] \in Nat
  BY <1>14, <2>1, <2>3 DEF Tally
<2>5. /\ tally'["links"] \in Nat /\ tally'["refused"] \in Nat /\ tally'["peer"] \in Nat
      /\ tally'["staged"] \in Nat /\ tally'["failures"] \in Nat /\ tally'["failed"] \in Nat
      /\ tally'["batches"] \in Nat
  BY ONLY <2>2, <2>4
<2>6. \A f \in Tally : tally'[f] \in Nat
  BY ONLY <2>5 DEF Tally
<2> QED
  BY ONLY <2>2, <2>6
<1>16. /\ batch'.items = n /\ batch'.crossing = c
       /\ batch'.ok <=> bad = {}
       /\ batch'.ok => batch'.placed
<2>1. batch'.ok <=> bad = {}
  BY Zenon, <1>2
<2>2. batch'.items = Len(items) /\ batch'.crossing = Distributed!Cardinality(crossing)
  BY Zenon, <1>2
<2>3. batch'.placed <=> \A i \in DOMAIN items : items[i].seq \in DOMAIN placements
  BY Zenon, <1>2
<2>4. Distributed!Cardinality(crossing) = c
  BY Zenon, <1>13, SameCardinality
<2>5. bad = {} => batch'.placed
  BY Zenon, <1>9, <2>3
<2> QED
  BY Zenon, <1>1, <2>1, <2>2, <2>4, <2>5
<1>17. tally.peer \in Nat /\ tally.staged \in Nat /\ n \in Nat /\ upto \in Nat
       /\ upto <= n /\ (bad # {} => upto < n)
  BY <1>4 DEF Tally
<1>18. PICK moved : /\ moved = tally'.peer - tally.peer + tally'.staged - tally.staged
                    /\ moved = a + b
  BY <1>14, <1>17, <1>15
<1>19. /\ tally'.staged > tally.staged => setup.staging
       /\ bad = {} => moved = c
       /\ bad # {} => moved <= c /\ moved < n
  BY SMTT(20), <1>14, <1>17, <1>18, <1>15
<1>20. Distributed!BatchExact
<2> SUFFICES /\ tally'.staged > tally.staged => setup.staging
             /\ batch'.ok => batch'.placed /\ moved = batch'.crossing
             /\ ~batch'.ok => moved <= batch'.crossing /\ moved < batch'.items
  BY Zenon, <1>18 DEF Distributed!BatchExact
<2>1. batch'.ok => bad = {} /\ moved = c /\ batch'.crossing = c
  BY ONLY <1>16, <1>19
<2>2. ~batch'.ok => bad # {} /\ moved <= c /\ moved < n /\ batch'.crossing = c /\ batch'.items = n
  BY ONLY <1>16, <1>19
<2> QED
  BY <1>16, <1>19, <2>1, <2>2
<1> QED
  BY <1>15, <1>20

\* The counters stay numbers, and no other call counts a batch.
LEMMA TallyStep ==
  ASSUME tally \in [Tally -> Nat], [Distributed!DistributedNext]_deviceVars
  PROVE  Distributed!BatchExact /\ tally' \in [Tally -> Nat]
<1>1. CASE tally' = tally
  BY <1>1 DEF Distributed!BatchExact, Tally
<1>2. CASE Distributed!EnablePeerLinks
<2>1. PICK x, y : tally' = [tally EXCEPT !.links = x, !.refused = y] /\ x \in Nat /\ y \in Nat
<3> DEFINE pairs == {p \in Devices \X Devices : p[1] < p[2]}
           upTo(p, q) == p[1] < q[1] \/ (p[1] = q[1] /\ p[2] <= q[2])
           apart == {p \in pairs : Group[p[1]] # Group[p[2]]}
           stop  == {p \in apart : setup.strict /\ ~setup.staging /\ \A q \in apart : upTo(p, q)}
           seen  == {p \in pairs : \A q \in stop : upTo(p, q)}
<3>1. tally' = [tally EXCEPT !.links = Distributed!Cardinality(seen \ apart), !.refused = Distributed!Cardinality(seen \cap apart)]
  BY Zenon, <1>2 DEF Distributed!EnablePeerLinks
<3>2. seen \subseteq Devices \X Devices
  OBVIOUS
<3> HIDE DEF seen, apart
<3>3. IsFiniteSet(Devices)
  BY DevicesConfigured, FS_Interval
<3>4. IsFiniteSet(Devices \X Devices)
  BY <3>3, FS_Product
<3>5. IsFiniteSet(seen \ apart) /\ IsFiniteSet(seen \cap apart)
  BY <3>2, <3>4, FS_Subset
<3>6. Cardinality(seen \ apart) \in Nat /\ Cardinality(seen \cap apart) \in Nat
  BY <3>5, FS_CardinalityType
<3> QED
  BY <3>1, <3>6, SameCardinality
<2>2. /\ tally' = [f \in Tally |-> tally'[f]] /\ tally'["links"] = x /\ tally'["refused"] = y
      /\ \A f \in Tally \ {"links", "refused"} : tally'[f] = tally[f]
  BY <2>1 DEF Tally
<2>3. \A f \in Tally : tally[f] \in Nat
  OBVIOUS
<2>4. ASSUME NEW f \in Tally PROVE tally'[f] \in Nat
  BY <2>1, <2>2, <2>3 DEF Tally
<2>5. tally' \in [Tally -> Nat]
  BY <2>2, <2>4
<2>6. /\ tally'["failed"] = tally["failed"] /\ tally'["batches"] = tally["batches"]
      /\ tally["failed"] \in Nat /\ tally["batches"] \in Nat
  BY <2>2, <2>3 DEF Tally
<2> QED
  BY <2>5, <2>6 DEF Distributed!BatchExact
<1>3. ASSUME NEW n \in 1 .. MaxItems, NEW items \in [1 .. n -> Items], Distributed!ExecuteBatch(items)
      PROVE  Distributed!BatchExact /\ tally' \in [Tally -> Nat]
<2>1. n \in Nat
  BY CallsConfigured
<2> QED
  BY <1>3, <2>1, BatchCounted
<1>4. ASSUME NEW seq \in SeqIds, Distributed!PlaceSequence(seq) PROVE tally' = tally
  BY <1>4 DEF Distributed!PlaceSequence
<1>5. ASSUME NEW seq \in SeqIds, NEW device \in Devices, Distributed!MigrateSequence(seq, device) PROVE tally' = tally
  BY <1>5 DEF Distributed!MigrateSequence
<1>6. Distributed!Shutdown \/ UNCHANGED deviceVars => tally' = tally
  BY DEF Distributed!Shutdown, deviceVars
<1> QED
  BY <1>1, <1>2, <1>3, <1>4, <1>5, <1>6 DEF Distributed!DistributedNext

\* What a dispatch carries: the counters, the CUDA calls made, the one that fails.
Accs == [counts : [Gpu!Counters -> Nat], calls : Nat, fail : Nat, failed : BOOLEAN]

\* The pages of a shard are loaded in order, from the first position on.
Loads(it, acc, shard) ==
  it = [s \in SUBSET DOMAIN shard.sources |->
          IF s = {} THEN Gpu!CudaCall(acc)
          ELSE Gpu!LoadPage(it[s \ {LastOf(s)}], shard, shard.sources[LastOf(s)])]
Loaded(acc, shard) == (CHOOSE it : Loads(it, acc, shard))[DOMAIN shard.sources]

LEMMA DispatchIs ==
  ASSUME NEW acc, NEW shard
  PROVE  Gpu!DispatchShard(acc, shard) =
           IF acc.failed THEN acc
           ELSE IF Loaded(acc, shard).failed THEN Loaded(acc, shard)
           ELSE [Loaded(acc, shard) EXCEPT !.counts = Gpu!Counted(@, {"dispatched"})]
  BY DEF Gpu!DispatchShard, Gpu!FoldLeft, Gpu!MapThenFoldSet, Gpu!Max, LastOf, Loads, Loaded

Dispatches(it, start, shards) ==
  it = [s \in SUBSET DOMAIN shards |->
          IF s = {} THEN start ELSE Gpu!DispatchShard(it[s \ {LastOf(s)}], shards[LastOf(s)])]
Dispatched(start, shards) == (CHOOSE it : Dispatches(it, start, shards))[DOMAIN shards]

LEMMA DispatchedIs ==
  ASSUME NEW start, NEW shards
  PROVE  Gpu!FoldLeft(Gpu!DispatchShard, start, shards) = Dispatched(start, shards)
  BY DEF Gpu!FoldLeft, Gpu!MapThenFoldSet, Gpu!Max, LastOf, Dispatches, Dispatched

Adds(it, c) ==
  it = [s \in SUBSET DOMAIN c |-> IF s = {} THEN 0 ELSE it[s \ {LastOf(s)}] + c[LastOf(s)]]

LEMMA TotalIs == ASSUME NEW c PROVE Gpu!Total(c) = (CHOOSE it : Adds(it, c))[DOMAIN c]
  BY DEF Gpu!Total, Gpu!FoldLeft, Gpu!MapThenFoldSet, Gpu!Max, LastOf, Adds

\* A total is that of one number less, and the last number.
Numbers(c, n) == DOMAIN c = 1 .. n /\ \A i \in 1 .. n : c[i] \in Nat
Totals(p, n, c) ==
  /\ p \in [0 .. n -> Nat] /\ p[0] = 0 /\ Gpu!Total(c) = p[n]
  /\ \A i \in 1 .. n : p[i] = p[i - 1] + c[i]

LEMMA TotalPrefix ==
  ASSUME NEW n \in Nat, NEW c, Numbers(c, n)
  PROVE  \E p : Totals(p, n, c)
<1> DEFINE step == [z \in Nat \X (1 .. n) |-> z[1] + c[z[2]]]
           chosen == CHOOSE it : Adds(it, c)
<1>1. DOMAIN c = 1 .. n /\ \A i \in 1 .. n : c[i] \in Nat
  BY DEF Numbers
<1>2. step \in [Nat \X (1 .. n) -> Nat] /\ \A x \in Nat, i \in 1 .. n : step[<<x, i>>] = x + c[i]
  BY <1>1
<1>3. 1 .. n \subseteq Int /\ IsFiniteSet(1 .. n)
<2>1. 1 \in Int /\ n \in Int
  OBVIOUS
<2> QED
  BY <2>1, FS_Interval
<1> HIDE DEF step
<1>4. \E it \in [SUBSET (1 .. n) -> Nat] : Folds(it, 0, step, SUBSET (1 .. n))
  BY <1>2, <1>3, FoldExists
<1>5. PICK it \in [SUBSET (1 .. n) -> Nat] : Folds(it, 0, step, SUBSET (1 .. n))
  BY <1>4
<1>6. ASSUME NEW s \in SUBSET (1 .. n), s # {}
      PROVE  step[<<it[s \ {LastOf(s)}], LastOf(s)>>] = it[s \ {LastOf(s)}] + c[LastOf(s)]
<2>1. IsFiniteSet(s) /\ s \subseteq Int
  BY <1>3, FS_Subset
<2>2. LastOf(s) \in 1 .. n
  BY <1>6, <2>1, LastExists
<2> QED
  BY <1>2, <1>5, <2>2
<1>7. Adds(it, c)
  BY <1>1, <1>5, <1>6 DEF Folds, Adds
<1>8. Adds(chosen, c)
  BY <1>7
<1> HIDE DEF chosen
<1> DEFINE p == [i \in 0 .. n |-> chosen[1 .. i]]
<1>9. p[0] = 0
  BY <1>1, <1>8 DEF Adds
<1>10. ASSUME NEW i \in 1 .. n PROVE p[i] = p[i - 1] + c[i]
<2>1. LastOf(1 .. i) = i /\ (1 .. i) \ {i} = 1 .. i - 1 /\ 1 .. i # {}
  <3>1. i \in Nat \ {0}
    OBVIOUS
  <3> QED
    BY ONLY <3>1, LastOfPrefix
<2>2. 1 .. i \in SUBSET (1 .. n) /\ i - 1 \in 0 .. n
  OBVIOUS
<2>3. chosen[1 .. i] = chosen[(1 .. i) \ {i}] + c[i]
  BY ONLY <1>8, <2>1, <2>2, <1>1 DEF Adds
<2>4. p[i] = chosen[1 .. i] /\ p[i - 1] = chosen[1 .. i - 1]
  BY <2>2
<2> QED
  BY ONLY <2>1, <2>3, <2>4
<1>11. Gpu!Total(c) = p[n]
  BY <1>1, TotalIs DEF chosen
<1> HIDE DEF p
<1> DEFINE bad == {i \in 0 .. n : p[i] \notin Nat}
<1>12. bad = {}
<2> SUFFICES ASSUME bad # {} PROVE FALSE
  OBVIOUS
<2>1. bad \subseteq Nat
  OBVIOUS
<2>2. PICK i \in bad : \A j \in bad : i <= j
  <3> HIDE DEF bad
  <3> QED
    BY ONLY <2>1, bad # {}, LeastExists
<2>3. i \in 1 .. n /\ i - 1 \notin bad /\ i - 1 \in 0 .. n
  BY <1>9, <2>2
<2>4. p[i - 1] \in Nat /\ c[i] \in Nat /\ p[i] = p[i - 1] + c[i]
  BY <1>1, <1>10, <2>3
<2> QED
  BY <2>2, <2>4
<1>13. p \in [0 .. n -> Nat]
  BY <1>12 DEF p
<1> QED
  BY <1>9, <1>10, <1>11, <1>13 DEF Totals

\* So the totals of the prefixes of a sequence go up by its numbers.
UpTos(p, n, c) ==
  /\ p \in [0 .. n -> Nat] /\ p[0] = 0
  /\ \A i \in 1 .. n : p[i] = p[i - 1] + c[i]
  /\ \A i \in 0 .. n : Gpu!Total(SubSeq(c, 1, i)) = p[i]

LEMMA TotalsUpTo ==
  ASSUME NEW n \in Nat, NEW c \in [1 .. n -> Nat]
  PROVE  \E p : UpTos(p, n, c)
<1>1. PICK p : Totals(p, n, c)
  BY TotalPrefix DEF Numbers
<1>2. /\ p \in [0 .. n -> Nat] /\ p[0] = 0
      /\ \A i \in 1 .. n : p[i] = p[i - 1] + c[i]
  BY <1>1 DEF Totals
<1>3. ASSUME NEW j \in 0 .. n PROVE Gpu!Total(SubSeq(c, 1, j)) = p[j]
<2> DEFINE d == SubSeq(c, 1, j)
<2>1. DOMAIN d = 1 .. j /\ \A i \in 1 .. j : d[i] = c[i] /\ d[i] \in Nat
  OBVIOUS
<2> HIDE DEF d
<2>2. j \in Nat /\ 1 .. j \subseteq 1 .. n
  OBVIOUS
<2>3. PICK q : Totals(q, j, d)
  BY ONLY <2>1, <2>2, TotalPrefix DEF Numbers
<2>4. /\ q \in [0 .. j -> Nat] /\ q[0] = 0 /\ Gpu!Total(d) = q[j]
      /\ \A i \in 1 .. j : q[i] = q[i - 1] + d[i]
  BY <2>3 DEF Totals
<2> DEFINE bad == {i \in 0 .. j : q[i] # p[i]}
<2>5. bad = {}
<3> SUFFICES ASSUME bad # {} PROVE FALSE
  OBVIOUS
<3>1. bad \subseteq Nat
  OBVIOUS
<3>2. PICK i \in bad : \A k \in bad : i <= k
  <4> HIDE DEF bad
  <4> QED
    BY ONLY <3>1, bad # {}, LeastExists
<3>3. i \in 1 .. j /\ i - 1 \in 0 .. j /\ i - 1 \notin bad /\ i \in 1 .. n
  BY <1>2, <2>4, <3>2
<3>4. q[i] = q[i - 1] + d[i] /\ p[i] = p[i - 1] + c[i] /\ d[i] = c[i] /\ q[i - 1] = p[i - 1]
  BY <1>2, <2>1, <2>4, <3>3
<3> QED
  BY <3>2, <3>4
<2>6. q[j] = p[j]
  <3> SUFFICES ASSUME q[j] # p[j] PROVE FALSE
    OBVIOUS
  <3>1. j \in bad
    BY <2>2
  <3> QED
    BY <2>5, <3>1
<2> QED
  BY <2>4, <2>6 DEF d
<1> QED
  BY <1>3, <1>2 DEF UpTos

-----------------------------------------------------------------------------
(* What a dispatch counts, from the counters c of its start to d: k shards, r *)
(* remote pages by a permitted transport, sub batches, and at most one error. *)

Moved(c, d, failed, k, r, sub) ==
  /\ d["remote"] = c["remote"] + r
  /\ d["p2p"] + d["staged"] = c["p2p"] + c["staged"] + r
  /\ d["staged"] >= c["staged"] /\ (d["staged"] > c["staged"] => links.allow)
  /\ d["dispatched"] = c["dispatched"] + k
  /\ d["submitted"] = c["submitted"] + sub
  /\ \/ /\ ~failed
        /\ d["rejections"] = c["rejections"] /\ d["cudaErrors"] = c["cudaErrors"] /\ d["transferErrors"] = c["transferErrors"]
     \/ /\ failed
        /\ d["rejections"] = c["rejections"] /\ d["cudaErrors"] = c["cudaErrors"] + 1 /\ d["transferErrors"] = c["transferErrors"]
     \/ /\ failed /\ ~links.allow /\ sub = 0
        /\ d["rejections"] = c["rejections"] + 1 /\ d["cudaErrors"] = c["cudaErrors"] /\ d["transferErrors"] = c["transferErrors"] + 1

LEMMA CountedType ==
  ASSUME NEW c \in [Gpu!Counters -> Nat], NEW names
  PROVE  Gpu!Counted(c, names) \in [Gpu!Counters -> Nat]
  BY DEF Gpu!Counted

LEMMA CountedAt ==
  ASSUME NEW c \in [Gpu!Counters -> Nat], NEW names
  PROVE  \A f \in Gpu!Counters : /\ Gpu!Counted(c, names)[f] = (IF f \in names THEN c[f] + 1 ELSE c[f])
                                 /\ c[f] \in Nat /\ Gpu!Counted(c, names)[f] \in Nat
  BY DEF Gpu!Counted

\* Moving the counters of an accumulator.
LEMMA WithCounts ==
  ASSUME NEW acc \in Accs, NEW names
  PROVE  /\ [acc EXCEPT !.counts = Gpu!Counted(@, names)] \in Accs
         /\ [acc EXCEPT !.counts = Gpu!Counted(@, names)].counts = Gpu!Counted(acc.counts, names)
         /\ [acc EXCEPT !.counts = Gpu!Counted(@, names)].failed = acc.failed
         /\ Gpu!Failing(acc, names) \in Accs /\ Gpu!Failing(acc, names).failed
         /\ Gpu!Failing(acc, names).counts = Gpu!Counted(acc.counts, names)
<1>1. /\ acc.counts \in [Gpu!Counters -> Nat] /\ acc.calls \in Nat /\ acc.fail \in Nat /\ acc.failed \in BOOLEAN
      /\ acc = [counts |-> acc.counts, calls |-> acc.calls, fail |-> acc.fail, failed |-> acc.failed]
  BY DEF Accs
<1>2. Gpu!Counted(acc.counts, names) \in [Gpu!Counters -> Nat]
  BY <1>1, CountedType
<1>3. [acc EXCEPT !.counts = Gpu!Counted(@, names)] =
        [counts |-> Gpu!Counted(acc.counts, names), calls |-> acc.calls, fail |-> acc.fail, failed |-> acc.failed]
  BY <1>1
<1>4. Gpu!Failing(acc, names) =
        [counts |-> Gpu!Counted(acc.counts, names), calls |-> acc.calls, fail |-> acc.fail, failed |-> TRUE]
<2>1. PICK x : x = Gpu!Counted(acc.counts, names)
  OBVIOUS
<2>2. Gpu!Failing(acc, names) = [acc EXCEPT !.failed = TRUE, !.counts = x]
  BY <2>1 DEF Gpu!Failing
<2> QED
  BY <1>1, <2>1, <2>2
<1> QED
  BY <1>1, <1>2, <1>3, <1>4 DEF Accs

\* A CUDA call is made, and may be the one that fails.
LEMMA CudaCalled ==
  ASSUME NEW acc \in Accs
  PROVE  /\ Gpu!CudaCall(acc) \in Accs
         /\ \/ Gpu!CudaCall(acc).failed /\ Gpu!CudaCall(acc).counts = Gpu!Counted(acc.counts, {"cudaErrors"})
            \/ Gpu!CudaCall(acc).failed = acc.failed /\ Gpu!CudaCall(acc).counts = acc.counts
<1> DEFINE next == [acc EXCEPT !.calls = @ + 1]
<1>1. /\ acc.counts \in [Gpu!Counters -> Nat] /\ acc.calls \in Nat /\ acc.fail \in Nat /\ acc.failed \in BOOLEAN
      /\ acc = [counts |-> acc.counts, calls |-> acc.calls, fail |-> acc.fail, failed |-> acc.failed]
  BY DEF Accs
<1>2. next = [counts |-> acc.counts, calls |-> acc.calls + 1, fail |-> acc.fail, failed |-> acc.failed]
  BY <1>1
<1>3. next \in Accs /\ next.counts = acc.counts /\ next.failed = acc.failed
  BY <1>1, <1>2 DEF Accs
<1> HIDE DEF next
<1>4. /\ Gpu!Failing(next, {"cudaErrors"}) \in Accs /\ Gpu!Failing(next, {"cudaErrors"}).failed
      /\ Gpu!Failing(next, {"cudaErrors"}).counts = Gpu!Counted(acc.counts, {"cudaErrors"})
  BY ZenonT(40), <1>3, WithCounts
<1>5. Gpu!CudaCall(acc) = IF next.calls = acc.fail THEN Gpu!Failing(next, {"cudaErrors"}) ELSE next
  BY DEF Gpu!CudaCall, next
<1> QED
  BY <1>3, <1>4, <1>5


\* The counters a dispatch may move, and how each of its steps moves them.
LEMMA MovedBy ==
  ASSUME NEW c \in [Gpu!Counters -> Nat], NEW d \in [Gpu!Counters -> Nat],
         NEW k \in Nat, NEW r \in Nat, Moved(c, d, FALSE, k, r, 0)
  PROVE  /\ Moved(c, Gpu!Counted(d, {"cudaErrors"}), TRUE, k, r, 0)
         /\ Moved(c, Gpu!Counted(d, {"p2p", "remote"}), FALSE, k, r + 1, 0)
         /\ links.allow => Moved(c, Gpu!Counted(d, {"staged", "remote"}), FALSE, k, r + 1, 0)
         /\ ~links.allow => Moved(c, Gpu!Counted(d, {"transferErrors", "rejections"}), TRUE, k, r, 0)
         /\ Moved(c, Gpu!Counted(d, {"dispatched"}), FALSE, k + 1, r, 0)
         /\ Moved(c, Gpu!Counted(d, {"submitted"}), FALSE, k, r, 1)
         /\ Moved(c, Gpu!Counted(Gpu!Counted(d, {"submitted"}), {"cudaErrors"}), TRUE, k, r, 1)
<1>1. \A f \in {"p2p", "staged", "remote", "dispatched", "submitted", "rejections", "transferErrors", "cudaErrors"} :
        f \in Gpu!Counters
  BY DEF Gpu!Counters
<1>2. /\ c["p2p"] \in Nat /\ c["staged"] \in Nat /\ c["remote"] \in Nat /\ c["dispatched"] \in Nat
      /\ c["submitted"] \in Nat /\ c["rejections"] \in Nat /\ c["transferErrors"] \in Nat /\ c["cudaErrors"] \in Nat
      /\ d["p2p"] \in Nat /\ d["staged"] \in Nat /\ d["remote"] \in Nat /\ d["dispatched"] \in Nat
      /\ d["submitted"] \in Nat /\ d["rejections"] \in Nat /\ d["transferErrors"] \in Nat /\ d["cudaErrors"] \in Nat
  BY <1>1
<1>3. ASSUME NEW names
      PROVE  /\ Gpu!Counted(d, names)["p2p"] = (IF "p2p" \in names THEN d["p2p"] + 1 ELSE d["p2p"])
             /\ Gpu!Counted(d, names)["staged"] = (IF "staged" \in names THEN d["staged"] + 1 ELSE d["staged"])
             /\ Gpu!Counted(d, names)["remote"] = (IF "remote" \in names THEN d["remote"] + 1 ELSE d["remote"])
             /\ Gpu!Counted(d, names)["dispatched"] = (IF "dispatched" \in names THEN d["dispatched"] + 1 ELSE d["dispatched"])
             /\ Gpu!Counted(d, names)["submitted"] = (IF "submitted" \in names THEN d["submitted"] + 1 ELSE d["submitted"])
             /\ Gpu!Counted(d, names)["rejections"] = (IF "rejections" \in names THEN d["rejections"] + 1 ELSE d["rejections"])
             /\ Gpu!Counted(d, names)["transferErrors"] = (IF "transferErrors" \in names THEN d["transferErrors"] + 1 ELSE d["transferErrors"])
             /\ Gpu!Counted(d, names)["cudaErrors"] = (IF "cudaErrors" \in names THEN d["cudaErrors"] + 1 ELSE d["cudaErrors"])
  BY <1>1 DEF Gpu!Counted
<1>4. Moved(c, Gpu!Counted(d, {"cudaErrors"}), TRUE, k, r, 0)
  BY <1>2, <1>3 DEF Moved
<1>5. Moved(c, Gpu!Counted(d, {"p2p", "remote"}), FALSE, k, r + 1, 0)
  BY <1>2, <1>3 DEF Moved
<1>6. ASSUME links.allow PROVE Moved(c, Gpu!Counted(d, {"staged", "remote"}), FALSE, k, r + 1, 0)
  BY <1>2, <1>3, <1>6 DEF Moved
<1>7. ASSUME ~links.allow PROVE Moved(c, Gpu!Counted(d, {"transferErrors", "rejections"}), TRUE, k, r, 0)
  BY <1>2, <1>3, <1>7 DEF Moved
<1>8. Moved(c, Gpu!Counted(d, {"dispatched"}), FALSE, k + 1, r, 0)
  BY <1>2, <1>3 DEF Moved
<1>9. Moved(c, Gpu!Counted(d, {"submitted"}), FALSE, k, r, 1)
  BY <1>2, <1>3 DEF Moved
<1>10. PICK e : e = Gpu!Counted(d, {"submitted"}) /\ e \in [Gpu!Counters -> Nat]
  BY CountedType
<1>11. /\ Gpu!Counted(e, {"cudaErrors"})["cudaErrors"] = e["cudaErrors"] + 1
       /\ \A f \in Gpu!Counters \ {"cudaErrors"} : Gpu!Counted(e, {"cudaErrors"})[f] = e[f]
  BY <1>1 DEF Gpu!Counted
<1>12. /\ e["submitted"] = d["submitted"] + 1
       /\ \A f \in Gpu!Counters \ {"submitted"} : e[f] = d[f]
  BY <1>1, <1>10 DEF Gpu!Counted
<1>13. Moved(c, Gpu!Counted(e, {"cudaErrors"}), TRUE, k, r, 1)
  BY <1>1, <1>2, <1>11, <1>12 DEF Moved
<1> QED
  BY <1>4, <1>5, <1>6, <1>7, <1>8, <1>9, <1>10, <1>13

\* A page of the shard's own device is read where it is; a remote one is counted,
\* or the call that asks for it or its transport stops the dispatch.
LoadMoved(c, acc, next, k, r, remote) ==
  /\ next \in Accs
  /\ acc.failed \/ ~remote => next = acc
  /\ ~acc.failed /\ remote => \/ next.failed /\ Moved(c, next.counts, TRUE, k, r, 0)
                              \/ ~next.failed /\ Moved(c, next.counts, FALSE, k, r + 1, 0)

LEMMA LoadMoves ==
  ASSUME NEW c \in [Gpu!Counters -> Nat], NEW acc \in Accs, NEW shard, NEW source,
         NEW k \in Nat, NEW r \in Nat, Moved(c, acc.counts, acc.failed, k, r, 0)
  PROVE  LoadMoved(c, acc, Gpu!LoadPage(acc, shard, source), k, r, source # shard.device)
<1> DEFINE asked == Gpu!CudaCall(acc)
<1>1. acc.counts \in [Gpu!Counters -> Nat] /\ acc.failed \in BOOLEAN
  BY DEF Accs
<1>2. CASE acc.failed \/ source = shard.device
<2>1. Gpu!LoadPage(acc, shard, source) = acc
  BY <1>2 DEF Gpu!LoadPage
<2> QED
  BY <1>2, <2>1 DEF LoadMoved
<1>3. CASE ~acc.failed /\ source # shard.device
<2>1. /\ asked \in Accs
      /\ \/ asked.failed /\ asked.counts = Gpu!Counted(acc.counts, {"cudaErrors"})
         \/ asked.failed = acc.failed /\ asked.counts = acc.counts
  BY CudaCalled
<2>2. Gpu!LoadPage(acc, shard, source) =
        IF asked.failed THEN asked
        ELSE IF <<shard.device, source>> \in links.peers THEN [asked EXCEPT !.counts = Gpu!Counted(@, {"p2p", "remote"})]
        ELSE IF links.allow THEN [asked EXCEPT !.counts = Gpu!Counted(@, {"staged", "remote"})]
        ELSE Gpu!Failing(asked, {"transferErrors", "rejections"})
  BY <1>3 DEF Gpu!LoadPage
<2> HIDE DEF asked
<2>3. PICK d \in [Gpu!Counters -> Nat] : d = acc.counts /\ Moved(c, d, FALSE, k, r, 0)
<3>1. acc.failed = FALSE
  BY <1>1, <1>3
<3> QED
  BY <1>1, <3>1
<2>4. CASE asked.failed
<3>1. asked.counts = Gpu!Counted(d, {"cudaErrors"})
  BY <1>3, <2>1, <2>3, <2>4
<3>2. Moved(c, asked.counts, TRUE, k, r, 0)
  BY <2>3, <3>1, MovedBy
<3> QED
  BY <1>3, <2>1, <2>2, <2>4, <3>2 DEF LoadMoved
<2>5. CASE ~asked.failed
<3>1. asked.counts = d
  BY <2>1, <2>3, <2>5
<3>2. CASE <<shard.device, source>> \in links.peers
<4>1. PICK next : next = [asked EXCEPT !.counts = Gpu!Counted(@, {"p2p", "remote"})] /\ next = Gpu!LoadPage(acc, shard, source)
  BY <2>2, <2>5, <3>2
<4>2. next \in Accs /\ next.counts = Gpu!Counted(d, {"p2p", "remote"}) /\ ~next.failed
  BY <2>1, <2>5, <3>1, <4>1, WithCounts
<4>3. Moved(c, next.counts, FALSE, k, r + 1, 0)
  BY <2>3, <4>2, MovedBy
<4> QED
  BY <1>3, <4>1, <4>2, <4>3 DEF LoadMoved
<3>3. CASE <<shard.device, source>> \notin links.peers /\ links.allow
<4>1. PICK next : next = [asked EXCEPT !.counts = Gpu!Counted(@, {"staged", "remote"})] /\ next = Gpu!LoadPage(acc, shard, source)
  BY <2>2, <2>5, <3>3
<4>2. next \in Accs /\ next.counts = Gpu!Counted(d, {"staged", "remote"}) /\ ~next.failed
  BY <2>1, <2>5, <3>1, <4>1, WithCounts
<4>3. Moved(c, next.counts, FALSE, k, r + 1, 0)
  BY ZenonT(40), <2>3, <3>3, <4>2, MovedBy
<4> QED
  BY <1>3, <4>1, <4>2, <4>3 DEF LoadMoved
<3>4. CASE <<shard.device, source>> \notin links.peers /\ ~links.allow
<4>1. PICK next : next = Gpu!Failing(asked, {"transferErrors", "rejections"}) /\ next = Gpu!LoadPage(acc, shard, source)
  BY <2>2, <2>5, <3>4
<4>2. next \in Accs /\ next.counts = Gpu!Counted(d, {"transferErrors", "rejections"}) /\ next.failed
<5>1. /\ Gpu!Failing(asked, {"transferErrors", "rejections"}) \in Accs
      /\ Gpu!Failing(asked, {"transferErrors", "rejections"}).failed
      /\ Gpu!Failing(asked, {"transferErrors", "rejections"}).counts
           = Gpu!Counted(asked.counts, {"transferErrors", "rejections"})
  BY <2>1, WithCounts
<5> QED
  BY Zenon, <3>1, <4>1, <5>1
<4>3. Moved(c, next.counts, TRUE, k, r, 0)
  BY <2>3, <3>4, <4>2, MovedBy
<4> QED
  BY <1>3, <4>1, <4>2, <4>3 DEF LoadMoved
<3> QED
  BY <3>2, <3>3, <3>4
<2> QED
  BY <2>4, <2>5
<1> QED
  BY <1>1, <1>2, <1>3

LEMMA LoadType == ASSUME NEW acc \in Accs, NEW shard, NEW source PROVE Gpu!LoadPage(acc, shard, source) \in Accs
<1> DEFINE asked == Gpu!CudaCall(acc)
<1>1. asked \in Accs
  BY CudaCalled
<1>2. Gpu!LoadPage(acc, shard, source) =
        IF acc.failed \/ source = shard.device THEN acc
        ELSE IF asked.failed THEN asked
        ELSE IF <<shard.device, source>> \in links.peers THEN [asked EXCEPT !.counts = Gpu!Counted(@, {"p2p", "remote"})]
        ELSE IF links.allow THEN [asked EXCEPT !.counts = Gpu!Counted(@, {"staged", "remote"})]
        ELSE Gpu!Failing(asked, {"transferErrors", "rejections"})
  BY DEF Gpu!LoadPage
<1> HIDE DEF asked
<1>3. /\ [asked EXCEPT !.counts = Gpu!Counted(@, {"p2p", "remote"})] \in Accs
      /\ [asked EXCEPT !.counts = Gpu!Counted(@, {"staged", "remote"})] \in Accs
      /\ Gpu!Failing(asked, {"transferErrors", "rejections"}) \in Accs
  BY <1>1, WithCounts
<1> QED
  BY <1>1, <1>2, <1>3

\* p is what has been loaded after each of the m pages of a shard.
LoadSteps(p, m, acc, shard) ==
  /\ p \in [0 .. m -> Accs] /\ p[0] = Gpu!CudaCall(acc) /\ p[m] = Loaded(acc, shard)
  /\ \A i \in 1 .. m : p[i] = Gpu!LoadPage(p[i - 1], shard, shard.sources[i])

LEMMA LoadsInOrder ==
  ASSUME NEW acc \in Accs, NEW shard, NEW m \in Nat, DOMAIN shard.sources = 1 .. m
  PROVE  \E p : LoadSteps(p, m, acc, shard)
<1> DEFINE step == [z \in Accs \X (1 .. m) |-> Gpu!LoadPage(z[1], shard, shard.sources[z[2]])]
           base == Gpu!CudaCall(acc)
           chosen == CHOOSE it : Loads(it, acc, shard)
<1>1. /\ step \in [Accs \X (1 .. m) -> Accs]
      /\ \A x \in Accs, i \in 1 .. m : step[<<x, i>>] = Gpu!LoadPage(x, shard, shard.sources[i])
  BY LoadType
<1>2. 1 .. m \subseteq Int /\ IsFiniteSet(1 .. m) /\ base \in Accs
<2>1. 1 \in Int /\ m \in Int
  OBVIOUS
<2>2. IsFiniteSet(1 .. m)
  BY ONLY <2>1, FS_Interval
<2> QED
  BY <2>2, CudaCalled
<1> HIDE DEF step, base
<1>3. \E it \in [SUBSET (1 .. m) -> Accs] : Folds(it, base, step, SUBSET (1 .. m))
  BY <1>1, <1>2, FoldExists
<1>4. PICK it \in [SUBSET (1 .. m) -> Accs] : Folds(it, base, step, SUBSET (1 .. m))
  BY <1>3
<1>5. ASSUME NEW s \in SUBSET (1 .. m), s # {}
      PROVE  step[<<it[s \ {LastOf(s)}], LastOf(s)>>] = Gpu!LoadPage(it[s \ {LastOf(s)}], shard, shard.sources[LastOf(s)])
<2>1. IsFiniteSet(s) /\ s \subseteq Int
  BY <1>2, FS_Subset
<2>2. LastOf(s) \in 1 .. m
  BY <1>5, <2>1, LastExists
<2> QED
  BY <1>1, <1>4, <2>2
<1>6. Loads(it, acc, shard)
  BY <1>4, <1>5 DEF Folds, Loads, base
<1>7. Loads(chosen, acc, shard)
  BY <1>6
<1> HIDE DEF chosen
<1> DEFINE p == [i \in 0 .. m |-> chosen[1 .. i]]
<1>8. p[0] = base
  BY <1>7 DEF Loads, base
<1>9. ASSUME NEW i \in 1 .. m PROVE p[i] = Gpu!LoadPage(p[i - 1], shard, shard.sources[i])
<2>1. LastOf(1 .. i) = i /\ (1 .. i) \ {i} = 1 .. i - 1 /\ 1 .. i # {}
  <3>1. i \in Nat \ {0}
    OBVIOUS
  <3> QED
    BY ONLY <3>1, LastOfPrefix
<2>2. 1 .. i \in SUBSET (1 .. m) /\ i - 1 \in 0 .. m
  OBVIOUS
<2>3. chosen[1 .. i] = Gpu!LoadPage(chosen[(1 .. i) \ {i}], shard, shard.sources[i])
  BY ONLY <1>7, <2>1, <2>2, DOMAIN shard.sources = 1 .. m DEF Loads
<2>4. p[i] = chosen[1 .. i] /\ p[i - 1] = chosen[1 .. i - 1]
  BY <2>2
<2> QED
  BY ONLY <2>1, <2>3, <2>4
<1>10. p[m] = Loaded(acc, shard)
  BY DEF chosen, Loaded
<1>11. DOMAIN p = 0 .. m /\ p = [i \in 0 .. m |-> p[i]]
  OBVIOUS
<1> HIDE DEF p
<1> DEFINE bad == {i \in 0 .. m : p[i] \notin Accs}
<1>12. bad = {}
<2> SUFFICES ASSUME bad # {} PROVE FALSE
  OBVIOUS
<2>1. bad \subseteq Nat
  OBVIOUS
<2>2. PICK i \in bad : \A j \in bad : i <= j
  <3> HIDE DEF bad
  <3> QED
    BY ONLY <2>1, bad # {}, LeastExists
<2>3. i \in 1 .. m /\ i - 1 \notin bad /\ i - 1 \in 0 .. m
  BY <1>2, <1>8, <2>2
<2>4. p[i - 1] \in Accs /\ p[i] = Gpu!LoadPage(p[i - 1], shard, shard.sources[i])
  BY <1>9, <2>3
<2> QED
  BY <2>2, <2>4, LoadType
<1> QED
  BY <1>8, <1>9, <1>10, <1>12, <1>11 DEF LoadSteps, base

\* The remote pages among the first i of a shard.
RemoteUpTo(shard, i) == Cardinality({x \in 1 .. i : shard.sources[x] # shard.device})

LEMMA RemoteStep ==
  ASSUME NEW shard, NEW i \in Nat \ {0}
  PROVE  /\ RemoteUpTo(shard, i) \in Nat /\ RemoteUpTo(shard, i - 1) \in Nat /\ RemoteUpTo(shard, 0) = 0
         /\ RemoteUpTo(shard, i) = RemoteUpTo(shard, i - 1) + (IF shard.sources[i] # shard.device THEN 1 ELSE 0)
<1> DEFINE far(n) == {x \in 1 .. n : shard.sources[x] # shard.device}
<1>1. ASSUME NEW n \in Nat PROVE IsFiniteSet(far(n)) /\ Cardinality(far(n)) \in Nat
<2>1. 1 \in Int /\ n \in Int /\ far(n) \subseteq 1 .. n
  OBVIOUS
<2>2. IsFiniteSet(1 .. n)
  BY ONLY <2>1, FS_Interval
<2>3. IsFiniteSet(far(n))
  BY <2>1, <2>2, FS_Subset
<2> QED
  BY <2>3, FS_CardinalityType
<1>2. far(0) = {} /\ Cardinality({}) = 0
  BY FS_EmptySet
<1>3. i - 1 \in Nat /\ i \notin far(i - 1)
  OBVIOUS
<1>4. CASE shard.sources[i] # shard.device
<2>1. far(i) = far(i - 1) \cup {i}
  BY <1>4
<2>2. Cardinality(far(i - 1) \cup {i}) = Cardinality(far(i - 1)) + 1
  <3>1. PICK F : F = far(i - 1) /\ IsFiniteSet(F) /\ i \notin F
    BY <1>1, <1>3
  <3>2. Cardinality(F \cup {i}) = Cardinality(F) + 1
    BY ONLY <3>1, FS_AddElement
  <3> QED
    BY <3>1, <3>2
<2> QED
  BY <1>1, <1>2, <1>3, <1>4, <2>1, <2>2 DEF RemoteUpTo
<1>5. CASE shard.sources[i] = shard.device
<2>1. far(i) = far(i - 1)
  BY <1>5
<2>2. RemoteUpTo(shard, i) = Cardinality(far(i)) /\ RemoteUpTo(shard, i - 1) = Cardinality(far(i - 1))
  BY DEF RemoteUpTo
<2>3. RemoteUpTo(shard, 0) = 0
  BY <1>2 DEF RemoteUpTo
<2>4. Cardinality(far(i)) \in Nat /\ Cardinality(far(i - 1)) \in Nat
  BY <1>1, <1>3
<2> HIDE DEF far
<2> QED
  BY <1>5, <2>1, <2>2, <2>3, <2>4
<1> QED
  BY <1>4, <1>5

\* What loading the first i pages of the next shard has counted, after k shards
\* and r pages: the remote ones, or those before the one that stopped it.
LoadedUpTo(c, next, k, r, n) ==
  \E x \in 0 .. n : /\ Moved(c, next.counts, next.failed, k, r + x, 0)
                    /\ ~next.failed => x = n

LEMMA LoadedShard ==
  ASSUME NEW c \in [Gpu!Counters -> Nat], NEW acc \in Accs, NEW k \in Nat, NEW r \in Nat, ~acc.failed,
         Moved(c, acc.counts, acc.failed, k, r, 0),
         NEW shard, NEW m \in Nat, DOMAIN shard.sources = 1 .. m
  PROVE  Loaded(acc, shard) \in Accs /\ LoadedUpTo(c, Loaded(acc, shard), k, r, RemoteUpTo(shard, m))
<1>1. PICK p : LoadSteps(p, m, acc, shard)
  BY LoadsInOrder
<1>2. /\ p \in [0 .. m -> Accs] /\ p[0] = Gpu!CudaCall(acc) /\ p[m] = Loaded(acc, shard)
      /\ \A i \in 1 .. m : p[i] = Gpu!LoadPage(p[i - 1], shard, shard.sources[i])
  BY <1>1 DEF LoadSteps
<1>3. LoadedUpTo(c, p[0], k, r, RemoteUpTo(shard, 0))
<2>1. RemoteUpTo(shard, 0) = 0
  BY RemoteStep
<2>2. acc.counts \in [Gpu!Counters -> Nat] /\ acc.failed = FALSE
  BY DEF Accs
<2>3. Moved(c, acc.counts, FALSE, k, r, 0)
  BY <2>2
<2>4. Moved(c, p[0].counts, p[0].failed, k, r, 0)
  <3>1. CASE p[0].failed /\ p[0].counts = Gpu!Counted(acc.counts, {"cudaErrors"})
    <4>1. Moved(c, p[0].counts, TRUE, k, r, 0)
      BY <2>2, <2>3, <3>1, MovedBy
    <4>2. p[0] \in Accs
      BY <1>2
    <4> QED
      BY <3>1, <4>1, <4>2 DEF Moved
  <3>2. CASE p[0].failed = acc.failed /\ p[0].counts = acc.counts
    BY <3>2
  <3> QED
    BY <1>2, <3>1, <3>2, CudaCalled
<2> QED
  BY <2>1, <2>4 DEF LoadedUpTo
<1>4. ASSUME NEW i \in 1 .. m, LoadedUpTo(c, p[i - 1], k, r, RemoteUpTo(shard, i - 1))
      PROVE  LoadedUpTo(c, p[i], k, r, RemoteUpTo(shard, i))
<2>1. PICK x \in 0 .. RemoteUpTo(shard, i - 1) :
        /\ Moved(c, p[i - 1].counts, p[i - 1].failed, k, r + x, 0)
        /\ ~p[i - 1].failed => x = RemoteUpTo(shard, i - 1)
  BY <1>4 DEF LoadedUpTo
<2>2. p[i - 1] \in Accs /\ p[i] \in Accs /\ p[i] = Gpu!LoadPage(p[i - 1], shard, shard.sources[i])
  BY <1>2
<2>3. PICK a, b : a = RemoteUpTo(shard, i - 1) /\ b = RemoteUpTo(shard, i)
  OBVIOUS
<2>4. a \in Nat /\ b \in Nat /\ b = a + (IF shard.sources[i] # shard.device THEN 1 ELSE 0)
  <3>1. i \in Nat \ {0}
    OBVIOUS
  <3> QED
    BY <2>3, <3>1, RemoteStep
<2>5. x \in Nat /\ r + x \in Nat /\ x <= a
  BY <2>1, <2>3, <2>4
<2>6. LoadMoved(c, p[i - 1], p[i], k, r + x, shard.sources[i] # shard.device)
  BY <2>1, <2>2, <2>5, LoadMoves
<2>7. CASE p[i - 1].failed \/ shard.sources[i] = shard.device
<3>1. p[i] = p[i - 1]
  BY <2>6, <2>7 DEF LoadMoved
<3>2. x \in 0 .. b /\ (~p[i].failed => x = b)
  BY <2>1, <2>3, <2>4, <2>5, <2>7, <3>1
<3> QED
  BY <2>1, <2>3, <3>1, <3>2 DEF LoadedUpTo
<2>8. CASE ~p[i - 1].failed /\ shard.sources[i] # shard.device
<3>1. x = a /\ b = a + 1
  BY <2>1, <2>3, <2>4, <2>8
<3>2. CASE p[i].failed /\ Moved(c, p[i].counts, TRUE, k, r + x, 0)
<4>1. Moved(c, p[i].counts, p[i].failed, k, r + x, 0)
  BY <3>2 DEF Moved
<4>2. x \in 0 .. b
  BY <2>4, <2>5, <3>1
<4> QED
  BY <2>3, <3>2, <4>1, <4>2 DEF LoadedUpTo
<3>3. CASE ~p[i].failed /\ Moved(c, p[i].counts, FALSE, k, r + x + 1, 0)
<4>1. Moved(c, p[i].counts, p[i].failed, k, r + (x + 1), 0)
  <5>1. r + (x + 1) = r + x + 1
    BY <2>5
  <5> QED
    BY <3>3, <5>1 DEF Moved
<4> QED
  BY <2>3, <2>4, <2>5, <3>1, <3>3, <4>1 DEF LoadedUpTo
<3> QED
  BY <2>6, <2>8, <3>2, <3>3 DEF LoadMoved
<2> QED
  BY <2>7, <2>8
<1> DEFINE bad == {i \in 0 .. m : ~LoadedUpTo(c, p[i], k, r, RemoteUpTo(shard, i))}
<1>5. bad = {}
<2> SUFFICES ASSUME bad # {} PROVE FALSE
  OBVIOUS
<2>1. bad \subseteq Nat
  OBVIOUS
<2>2. PICK i \in bad : \A j \in bad : i <= j
  <3> HIDE DEF bad
  <3> QED
    BY ONLY <2>1, bad # {}, LeastExists
<2>3. i \in 1 .. m /\ i - 1 \notin bad /\ i - 1 \in 0 .. m
  BY <1>3, <2>2
<2> QED
  BY <1>4, <2>2, <2>3
<1>6. LoadedUpTo(c, p[m], k, r, RemoteUpTo(shard, m))
<2> SUFFICES ASSUME ~LoadedUpTo(c, p[m], k, r, RemoteUpTo(shard, m)) PROVE FALSE
  OBVIOUS
<2>1. m \in bad
  OBVIOUS
<2> QED
  BY <1>5, <2>1
<1> QED
  BY <1>2, <1>6

-----------------------------------------------------------------------------
(* The shards of a call, in order.                                          *)

\* What a shard is: pages by their device.
Dispatchable(shard) == \E m \in Nat : DOMAIN shard.sources = 1 .. m

LEMMA RemoteIs ==
  ASSUME NEW shard, NEW m \in Nat, DOMAIN shard.sources = 1 .. m
  PROVE  Gpu!Remote(shard) = RemoteUpTo(shard, m) /\ RemoteUpTo(shard, m) \in Nat
<1>1. Gpu!Remote(shard) = RemoteUpTo(shard, m)
<2>1. Gpu!Remote(shard) = Gpu!Cardinality({x \in 1 .. m : shard.sources[x] # shard.device})
  BY DEF Gpu!Remote
<2> QED
  BY <2>1 DEF RemoteUpTo, Gpu!Cardinality, Cardinality
<1>2. CASE m = 0
  BY <1>1, <1>2, RemoteStep
<1>3. CASE m # 0
  BY <1>1, <1>3, RemoteStep
<1> QED
  BY <1>2, <1>3

LEMMA DispatchType ==
  ASSUME NEW acc \in Accs, NEW shard, Dispatchable(shard)
  PROVE  Gpu!DispatchShard(acc, shard) \in Accs
<1>1. PICK m \in Nat : DOMAIN shard.sources = 1 .. m
  BY DEF Dispatchable
<1>2. PICK p : LoadSteps(p, m, acc, shard)
  BY <1>1, LoadsInOrder
<1>3. Loaded(acc, shard) \in Accs
  BY <1>2 DEF LoadSteps
<1> QED
  BY <1>3, DispatchIs, WithCounts

\* A shard is counted once its pages are, or stops the call.
DispatchedOne(c, acc, next, k, r, n) ==
  /\ acc.failed => next = acc
  /\ ~acc.failed => \E x \in 0 .. n :
       \/ next.failed /\ Moved(c, next.counts, TRUE, k, r + x, 0)
       \/ ~next.failed /\ x = n /\ Moved(c, next.counts, FALSE, k + 1, r + x, 0)

LEMMA DispatchMoves ==
  ASSUME NEW c \in [Gpu!Counters -> Nat], NEW acc \in Accs, NEW k \in Nat, NEW r \in Nat,
         Moved(c, acc.counts, acc.failed, k, r, 0), NEW shard, Dispatchable(shard)
  PROVE  /\ DispatchedOne(c, acc, Gpu!DispatchShard(acc, shard), k, r, Gpu!Remote(shard))
         /\ Gpu!Remote(shard) \in Nat
<1>1. PICK m \in Nat : DOMAIN shard.sources = 1 .. m
  BY DEF Dispatchable
<1>2. Gpu!Remote(shard) = RemoteUpTo(shard, m) /\ Gpu!Remote(shard) \in Nat
  BY <1>1, RemoteIs
<1>3. CASE acc.failed
  BY <1>2, <1>3, DispatchIs DEF DispatchedOne
<1>4. CASE ~acc.failed
<2>1. PICK next : next = Loaded(acc, shard) /\ next \in Accs /\ LoadedUpTo(c, next, k, r, Gpu!Remote(shard))
  BY <1>1, <1>2, <1>4, LoadedShard
<2>2. PICK x \in 0 .. Gpu!Remote(shard) :
        /\ Moved(c, next.counts, next.failed, k, r + x, 0)
        /\ ~next.failed => x = Gpu!Remote(shard)
  BY <2>1 DEF LoadedUpTo
<2>3. x \in Nat /\ r + x \in Nat /\ next.counts \in [Gpu!Counters -> Nat] /\ next.failed \in BOOLEAN
  BY <1>2, <2>1, <2>2 DEF Accs
<2>4. CASE next.failed
<3>1. Gpu!DispatchShard(acc, shard) = next
  BY <1>4, <2>1, <2>4, DispatchIs
<3>2. Moved(c, next.counts, TRUE, k, r + x, 0)
  BY <2>2, <2>3, <2>4
<3> QED
  BY <1>2, <1>4, <2>2, <2>4, <3>1, <3>2 DEF DispatchedOne
<2>5. CASE ~next.failed
<3>1. PICK after : after = [next EXCEPT !.counts = Gpu!Counted(@, {"dispatched"})]
  OBVIOUS
<3>2. Gpu!DispatchShard(acc, shard) = after
  BY <1>4, <2>1, <2>5, <3>1, DispatchIs
<3>3. after.counts = Gpu!Counted(next.counts, {"dispatched"}) /\ after.failed = next.failed
  BY <2>1, <3>1, WithCounts
<3>4. Moved(c, next.counts, FALSE, k, r + x, 0)
  BY <2>2, <2>3, <2>5
<3>5. Moved(c, after.counts, FALSE, k + 1, r + x, 0)
  BY <2>3, <3>3, <3>4, MovedBy
<3> QED
  BY <1>2, <1>4, <2>2, <2>5, <3>2, <3>3, <3>5 DEF DispatchedOne
<2> QED
  BY <2>4, <2>5
<1> QED
  BY <1>3, <1>4

\* p is what has been dispatched after each of the n shards of a call.
DispatchSteps(p, n, start, shards) ==
  /\ p \in [0 .. n -> Accs] /\ p[0] = start /\ p[n] = Dispatched(start, shards)
  /\ \A i \in 1 .. n : p[i] = Gpu!DispatchShard(p[i - 1], shards[i])

LEMMA DispatchesInOrder ==
  ASSUME NEW start \in Accs, NEW n \in Nat, NEW shards, DOMAIN shards = 1 .. n,
         \A i \in 1 .. n : Dispatchable(shards[i])
  PROVE  \E p : DispatchSteps(p, n, start, shards)
<1> DEFINE step == [z \in Accs \X (1 .. n) |-> Gpu!DispatchShard(z[1], shards[z[2]])]
           chosen == CHOOSE it : Dispatches(it, start, shards)
<1>1. /\ step \in [Accs \X (1 .. n) -> Accs]
      /\ \A x \in Accs, i \in 1 .. n : step[<<x, i>>] = Gpu!DispatchShard(x, shards[i])
  BY DispatchType
<1>2. 1 .. n \subseteq Int /\ IsFiniteSet(1 .. n)
<2>1. 1 \in Int /\ n \in Int
  OBVIOUS
<2>2. IsFiniteSet(1 .. n)
  BY ONLY <2>1, FS_Interval
<2> QED
  BY <2>2
<1> HIDE DEF step
<1>3. \E it \in [SUBSET (1 .. n) -> Accs] : Folds(it, start, step, SUBSET (1 .. n))
  BY <1>1, <1>2, FoldExists
<1>4. PICK it \in [SUBSET (1 .. n) -> Accs] : Folds(it, start, step, SUBSET (1 .. n))
  BY <1>3
<1>5. ASSUME NEW s \in SUBSET (1 .. n), s # {}
      PROVE  step[<<it[s \ {LastOf(s)}], LastOf(s)>>] = Gpu!DispatchShard(it[s \ {LastOf(s)}], shards[LastOf(s)])
<2>1. IsFiniteSet(s) /\ s \subseteq Int
  BY <1>2, FS_Subset
<2>2. LastOf(s) \in 1 .. n
  BY <1>5, <2>1, LastExists
<2> QED
  BY <1>1, <1>4, <2>2
<1>6. Dispatches(it, start, shards)
  BY <1>4, <1>5 DEF Folds, Dispatches
<1>7. Dispatches(chosen, start, shards)
  BY <1>6
<1> HIDE DEF chosen
<1> DEFINE p == [i \in 0 .. n |-> chosen[1 .. i]]
<1>8. p[0] = start
  BY <1>7 DEF Dispatches
<1>9. ASSUME NEW i \in 1 .. n PROVE p[i] = Gpu!DispatchShard(p[i - 1], shards[i])
<2>1. LastOf(1 .. i) = i /\ (1 .. i) \ {i} = 1 .. i - 1 /\ 1 .. i # {}
  <3>1. i \in Nat \ {0}
    OBVIOUS
  <3> QED
    BY ONLY <3>1, LastOfPrefix
<2>2. 1 .. i \in SUBSET (1 .. n) /\ i - 1 \in 0 .. n
  OBVIOUS
<2>3. chosen[1 .. i] = Gpu!DispatchShard(chosen[(1 .. i) \ {i}], shards[i])
  BY ONLY <1>7, <2>1, <2>2, DOMAIN shards = 1 .. n DEF Dispatches
<2>4. p[i] = chosen[1 .. i] /\ p[i - 1] = chosen[1 .. i - 1]
  BY <2>2
<2> QED
  BY ONLY <2>1, <2>3, <2>4
<1>10. p[n] = Dispatched(start, shards)
  BY DEF chosen, Dispatched
<1>11. DOMAIN p = 0 .. n /\ p = [i \in 0 .. n |-> p[i]]
  OBVIOUS
<1> HIDE DEF p
<1> DEFINE bad == {i \in 0 .. n : p[i] \notin Accs}
<1>12. bad = {}
<2> SUFFICES ASSUME bad # {} PROVE FALSE
  OBVIOUS
<2>1. bad \subseteq Nat
  OBVIOUS
<2>2. PICK i \in bad : \A j \in bad : i <= j
  <3> HIDE DEF bad
  <3> QED
    BY ONLY <2>1, bad # {}, LeastExists
<2>3. i \in 1 .. n /\ i - 1 \notin bad /\ i - 1 \in 0 .. n
  BY <1>8, <2>2
<2>4. p[i - 1] \in Accs /\ p[i] = Gpu!DispatchShard(p[i - 1], shards[i]) /\ Dispatchable(shards[i])
  BY <1>9, <2>3
<2> QED
  BY <2>2, <2>4, DispatchType
<1> QED
  BY <1>8, <1>9, <1>10, <1>12, <1>11 DEF DispatchSteps

\* After i shards: all of them and their pages, or those before the one that
\* stopped the call and no more pages than its own beside theirs.
Reached(c, next, i, u) ==
  \E k \in 0 .. i, r \in Nat :
    /\ Moved(c, next.counts, next.failed, k, r, 0)
    /\ ~next.failed => k = i /\ r = u[i]
    /\ next.failed => k < i /\ u[k] <= r /\ r <= u[k + 1]

LEMMA ReachedNext ==
  ASSUME NEW c \in [Gpu!Counters -> Nat], NEW acc \in Accs, NEW shard, Dispatchable(shard),
         NEW n \in Nat, NEW u \in [0 .. n -> Nat], NEW i \in 1 .. n,
         u[i] = u[i - 1] + Gpu!Remote(shard), Reached(c, acc, i - 1, u)
  PROVE  Reached(c, Gpu!DispatchShard(acc, shard), i, u)
<1>1. PICK k \in 0 .. i - 1, r \in Nat :
        /\ Moved(c, acc.counts, acc.failed, k, r, 0)
        /\ ~acc.failed => k = i - 1 /\ r = u[i - 1]
        /\ acc.failed => k < i - 1 /\ u[k] <= r /\ r <= u[k + 1]
  BY DEF Reached
<1>2. PICK next : next = Gpu!DispatchShard(acc, shard) /\ DispatchedOne(c, acc, next, k, r, Gpu!Remote(shard))
  BY <1>1, DispatchMoves
<1>3. PICK far \in Nat : far = Gpu!Remote(shard)
  BY <1>1, DispatchMoves
<1>4. k \in Nat /\ r \in Nat /\ i \in Nat \ {0} /\ k \in 0 .. i /\ k <= i - 1 /\ u[i] \in Nat /\ u[i - 1] \in Nat
      /\ u[i] = u[i - 1] + far
  BY <1>3
<1>5. CASE acc.failed
<2>1. next = acc
  BY <1>2, <1>5 DEF DispatchedOne
<2>2. k < i /\ u[k] <= r /\ r <= u[k + 1]
  BY <1>1, <1>4, <1>5
<2> QED
  BY <1>1, <1>2, <1>4, <1>5, <2>1, <2>2 DEF Reached
<1>6. CASE ~acc.failed
<2>1. k = i - 1 /\ r = u[i - 1] /\ k + 1 = i /\ u[k + 1] = u[i] /\ u[k] = r
  BY <1>1, <1>4, <1>6
<2>2. PICK x \in 0 .. far : \/ next.failed /\ Moved(c, next.counts, TRUE, k, r + x, 0)
                            \/ ~next.failed /\ x = far /\ Moved(c, next.counts, FALSE, k + 1, r + x, 0)
  BY <1>2, <1>3, <1>6 DEF DispatchedOne
<2>3. x \in Nat /\ x <= far /\ r + x \in Nat
  BY <1>3, <2>2
<2>4. CASE next.failed /\ Moved(c, next.counts, TRUE, k, r + x, 0)
<3>1. Moved(c, next.counts, next.failed, k, r + x, 0)
  BY <2>4 DEF Moved
<3>2. k < i /\ u[k] <= r + x /\ r + x <= u[k + 1]
  BY <1>4, <2>1, <2>3
<3> QED
  BY <1>2, <1>4, <2>3, <2>4, <3>1, <3>2 DEF Reached
<2>5. CASE ~next.failed /\ x = far /\ Moved(c, next.counts, FALSE, k + 1, r + x, 0)
<3>1. Moved(c, next.counts, next.failed, i, r + x, 0)
  BY <2>1, <2>5 DEF Moved
<3>2. r + x = u[i] /\ i \in 0 .. i
  BY <1>4, <2>1, <2>5
<3> QED
  BY <1>2, <2>3, <2>5, <3>1, <3>2 DEF Reached
<2> QED
  BY <2>2, <2>4, <2>5
<1> QED
  BY <1>5, <1>6

\* What a call that runs has counted at its end.
Finished(c, next, n, u) ==
  \E k \in 0 .. n, r \in Nat, sub \in {0, 1} :
    /\ Moved(c, next.counts, next.failed, k, r, sub)
    /\ sub = 1 => k = n /\ r = u[n]
    /\ sub = 0 => next.failed /\ k < n /\ u[k] <= r /\ r <= u[k + 1]

LEMMA RunCounts ==
  ASSUME NEW start \in Accs, ~start.failed, NEW n \in Nat, NEW shards, DOMAIN shards = 1 .. n,
         \A i \in 1 .. n : Dispatchable(shards[i]),
         NEW u \in [0 .. n -> Nat], u[0] = 0, \A i \in 1 .. n : u[i] = u[i - 1] + Gpu!Remote(shards[i])
  PROVE  LET done == Gpu!Submit(Gpu!FoldLeft(Gpu!DispatchShard, start, shards))
         IN done \in Accs /\ Finished(start.counts, done, n, u)
<1>1. PICK p : DispatchSteps(p, n, start, shards)
  BY DispatchesInOrder
<1>2. /\ p \in [0 .. n -> Accs] /\ p[0] = start /\ p[n] = Dispatched(start, shards)
      /\ \A i \in 1 .. n : p[i] = Gpu!DispatchShard(p[i - 1], shards[i])
  BY <1>1 DEF DispatchSteps
<1>3. PICK c \in [Gpu!Counters -> Nat] : c = start.counts
  BY DEF Accs
<1>4. Reached(c, p[0], 0, u)
<2>1. \A f \in Gpu!Counters : c[f] \in Nat
  OBVIOUS
<2>2. Moved(c, c, start.failed, 0, 0, 0)
  BY <2>1 DEF Moved, Gpu!Counters
<2>3. Moved(c, p[0].counts, p[0].failed, 0, 0, 0) /\ ~p[0].failed
  BY <1>2, <1>3, <2>2
<2> QED
  BY <2>3 DEF Reached
<1>5. ASSUME NEW i \in 1 .. n, Reached(c, p[i - 1], i - 1, u) PROVE Reached(c, p[i], i, u)
<2>1. /\ p[i - 1] \in Accs /\ p[i] = Gpu!DispatchShard(p[i - 1], shards[i])
      /\ u[i] = u[i - 1] + Gpu!Remote(shards[i]) /\ Dispatchable(shards[i])
  BY <1>2
<2> QED
  BY <1>5, <2>1, ReachedNext
<1> DEFINE bad == {i \in 0 .. n : ~Reached(c, p[i], i, u)}
<1>6. bad = {}
<2> SUFFICES ASSUME bad # {} PROVE FALSE
  OBVIOUS
<2>1. bad \subseteq Nat
  OBVIOUS
<2>2. PICK i \in bad : \A j \in bad : i <= j
  <3> HIDE DEF bad
  <3> QED
    BY ONLY <2>1, bad # {}, LeastExists
<2>3. i \in 1 .. n /\ i - 1 \notin bad /\ i - 1 \in 0 .. n
  BY <1>4, <2>2
<2> QED
  BY <1>5, <2>2, <2>3
<1>7. Reached(c, p[n], n, u)
<2> SUFFICES ASSUME ~Reached(c, p[n], n, u) PROVE FALSE
  OBVIOUS
<2>1. n \in bad
  OBVIOUS
<2> QED
  BY <1>6, <2>1
<1>8. PICK acc \in Accs : acc = p[n]
  BY <1>2
<1>9. PICK done : done = Gpu!Submit(acc)
  OBVIOUS
<1>10. Gpu!Submit(Gpu!FoldLeft(Gpu!DispatchShard, start, shards)) = done
  BY <1>2, <1>8, <1>9, DispatchedIs
<1>11. PICK k \in 0 .. n, r \in Nat :
        /\ Moved(c, acc.counts, acc.failed, k, r, 0)
        /\ ~acc.failed => k = n /\ r = u[n]
        /\ acc.failed => k < n /\ u[k] <= r /\ r <= u[k + 1]
  BY <1>7, <1>8 DEF Reached
<1>12. CASE acc.failed
<2>1. done = acc
  BY <1>9, <1>12 DEF Gpu!Submit
<2>2. 0 \in {0, 1} /\ 0 # 1
  OBVIOUS
<2>3. Finished(c, done, n, u)
  BY <1>11, <1>12, <2>1, <2>2 DEF Finished
<2> QED
  BY <1>3, <1>8, <1>10, <2>1, <2>3
<1>13. CASE ~acc.failed
<2>1. PICK sent : sent = [acc EXCEPT !.counts = Gpu!Counted(@, {"submitted"})]
  OBVIOUS
<2>2. sent \in Accs /\ sent.counts = Gpu!Counted(acc.counts, {"submitted"}) /\ sent.failed = acc.failed
  BY <2>1, WithCounts
<2>3. done = Gpu!CudaCall(sent)
  BY <1>9, <1>13, <2>1 DEF Gpu!Submit
<2>4. /\ done \in Accs
      /\ \/ done.failed /\ done.counts = Gpu!Counted(sent.counts, {"cudaErrors"})
         \/ done.failed = sent.failed /\ done.counts = sent.counts
  BY <2>2, <2>3, CudaCalled
<2>5. PICK d \in [Gpu!Counters -> Nat] : d = acc.counts /\ Moved(c, d, FALSE, k, r, 0)
<3>1. acc.failed = FALSE /\ acc.counts \in [Gpu!Counters -> Nat]
  BY <1>13 DEF Accs
<3> QED
  BY <1>11, <3>1
<2>6. k \in Nat /\ k = n /\ r = u[n] /\ 1 \in {0, 1} /\ 1 # 0
  BY <1>11, <1>13
<2>7. /\ Moved(c, Gpu!Counted(d, {"submitted"}), FALSE, k, r, 1)
      /\ Moved(c, Gpu!Counted(Gpu!Counted(d, {"submitted"}), {"cudaErrors"}), TRUE, k, r, 1)
<3>1. k \in Nat /\ r \in Nat
  BY <2>6
<3> QED
  BY ONLY <2>5, <3>1, MovedBy
<2>8. sent.counts = Gpu!Counted(d, {"submitted"})
  BY ONLY <2>2, <2>5
<2>9. CASE done.failed /\ done.counts = Gpu!Counted(sent.counts, {"cudaErrors"})
<3>1. Moved(c, done.counts, TRUE, k, r, 1)
  BY ONLY <2>9, <2>7, <2>8
<3>2. Moved(c, done.counts, done.failed, k, r, 1)
  BY <2>9, <3>1 DEF Moved
<3>3. Finished(c, done, n, u)
  BY <2>6, <3>2 DEF Finished
<3> QED
  BY <1>3, <1>10, <2>4, <3>3
<2>10. CASE done.failed = sent.failed /\ done.counts = sent.counts
<3>1. Moved(c, done.counts, FALSE, k, r, 1)
  BY ONLY <2>10, <2>7, <2>8
<3>2. Moved(c, done.counts, done.failed, k, r, 1)
  BY <1>13, <2>2, <2>10, <3>1 DEF Moved
<3>3. Finished(c, done, n, u)
  BY <2>6, <3>2 DEF Finished
<3> QED
  BY <1>3, <1>10, <2>4, <3>3
<2> QED
  BY <2>4, <2>9, <2>10
<1> QED
  BY <1>12, <1>13

-----------------------------------------------------------------------------
(* ExecuteExact, for any devices, shards and CUDA call that fails.          *)

GpuTyped == counts \in [Gpu!Counters -> Nat] /\ last.number \in Nat

\* What ExecuteExact says of a call, of k shards, r pages and sub batches.
CallExact(d, n, u, ok, sound) ==
  LET moved(f) == d[f] - counts[f]
      done     == moved("dispatched")
  IN /\ done \in 0 .. n
     /\ moved("remote") = moved("p2p") + moved("staged")
     /\ moved("staged") > 0 => links.allow
     /\ u[done] <= moved("remote")
     /\ done < n => moved("remote") <= u[done + 1]
     /\ ok => done = n /\ moved("submitted") = 1 /\ moved("rejections") = 0 /\ moved("cudaErrors") = 0
     /\ ~ok => moved("rejections") + moved("cudaErrors") = 1
     /\ ~sound => done = 0 /\ moved("remote") = 0
     /\ moved("submitted") = 1 => done = n
     /\ moved("transferErrors") = 1 => ~links.allow /\ moved("rejections") = 1 /\ done < n

LEMMA RunExact ==
  ASSUME counts \in [Gpu!Counters -> Nat], NEW next \in Accs, NEW n \in Nat, NEW u \in [0 .. n -> Nat],
         Finished(counts, next, n, u)
  PROVE  CallExact(next.counts, n, u, ~next.failed, TRUE)
<1>1. PICK k \in 0 .. n, r \in Nat, sub \in {0, 1} :
        /\ Moved(counts, next.counts, next.failed, k, r, sub)
        /\ sub = 1 => k = n /\ r = u[n]
        /\ sub = 0 => next.failed /\ k < n /\ u[k] <= r /\ r <= u[k + 1]
  BY DEF Finished
<1>2. PICK d \in [Gpu!Counters -> Nat] : d = next.counts
  BY DEF Accs
<1>3. /\ counts["p2p"] \in Nat /\ counts["staged"] \in Nat /\ counts["remote"] \in Nat /\ counts["dispatched"] \in Nat
      /\ counts["submitted"] \in Nat /\ counts["rejections"] \in Nat /\ counts["transferErrors"] \in Nat
      /\ counts["cudaErrors"] \in Nat
      /\ d["p2p"] \in Nat /\ d["staged"] \in Nat /\ d["remote"] \in Nat /\ d["dispatched"] \in Nat
      /\ d["submitted"] \in Nat /\ d["rejections"] \in Nat /\ d["transferErrors"] \in Nat /\ d["cudaErrors"] \in Nat
  BY DEF Gpu!Counters
<1>4. k \in Nat /\ k <= n /\ u[k] \in Nat /\ u[n] \in Nat /\ (k < n => u[k + 1] \in Nat)
  OBVIOUS
<1>5. Moved(counts, d, next.failed, k, r, sub)
  BY <1>1, <1>2
<1>6. /\ d["remote"] = counts["remote"] + r
      /\ d["p2p"] + d["staged"] = counts["p2p"] + counts["staged"] + r
      /\ d["dispatched"] = counts["dispatched"] + k
      /\ d["submitted"] = counts["submitted"] + sub
      /\ d["staged"] > counts["staged"] => links.allow
  BY Zenon, <1>5 DEF Moved
<1>7. \/ /\ ~next.failed
         /\ d["rejections"] = counts["rejections"] /\ d["cudaErrors"] = counts["cudaErrors"]
         /\ d["transferErrors"] = counts["transferErrors"]
      \/ /\ next.failed
         /\ d["rejections"] = counts["rejections"] /\ d["cudaErrors"] = counts["cudaErrors"] + 1
         /\ d["transferErrors"] = counts["transferErrors"]
      \/ /\ next.failed /\ ~links.allow /\ sub = 0
         /\ d["rejections"] = counts["rejections"] + 1 /\ d["cudaErrors"] = counts["cudaErrors"]
         /\ d["transferErrors"] = counts["transferErrors"] + 1
  BY Zenon, <1>5 DEF Moved
<1>8. sub \in Nat /\ r \in Nat
  OBVIOUS
<1>9. /\ d["remote"] - counts["remote"] = r
      /\ r = (d["p2p"] - counts["p2p"]) + (d["staged"] - counts["staged"])
      /\ d["dispatched"] - counts["dispatched"] = k
      /\ d["submitted"] - counts["submitted"] = sub
      /\ d["staged"] - counts["staged"] > 0 => links.allow
<2>1. ASSUME NEW x \in Nat, NEW y \in Nat, NEW z \in Nat, x = y + z PROVE x - y = z
  BY <2>1
<2>2. d["remote"] - counts["remote"] = r
  BY ONLY <1>3, <1>6, <1>8, <2>1
<2>3. d["dispatched"] - counts["dispatched"] = k
  BY ONLY <1>3, <1>4, <1>6, <2>1
<2>4. d["submitted"] - counts["submitted"] = sub
  BY ONLY <1>3, <1>6, <1>8, <2>1
<2>5. r = (d["p2p"] - counts["p2p"]) + (d["staged"] - counts["staged"])
  <3>1. PICK a \in Nat, b \in Nat, x \in Nat, y \in Nat :
          a = d["p2p"] /\ b = d["staged"] /\ x = counts["p2p"] /\ y = counts["staged"] /\ a + b = x + y + r
    BY <1>3, <1>6
  <3>2. a + b = x + y + r
    BY <3>1
  <3> HIDE <3>1
  <3>3. r = (a - x) + (b - y)
    BY <3>2, SMT
  <3> QED
    BY <3>1, <3>3
<2>6. d["staged"] - counts["staged"] > 0 => d["staged"] > counts["staged"]
  BY ONLY SMTT(20), <1>3
<2> QED
  BY ONLY <1>6, <2>2, <2>3, <2>4, <2>5, <2>6
<1>10. \/ /\ ~next.failed /\ d["rejections"] - counts["rejections"] = 0
          /\ d["cudaErrors"] - counts["cudaErrors"] = 0 /\ d["transferErrors"] - counts["transferErrors"] = 0
       \/ /\ next.failed /\ d["rejections"] - counts["rejections"] = 0
          /\ d["cudaErrors"] - counts["cudaErrors"] = 1 /\ d["transferErrors"] - counts["transferErrors"] = 0
       \/ /\ next.failed /\ ~links.allow /\ sub = 0 /\ d["rejections"] - counts["rejections"] = 1
          /\ d["cudaErrors"] - counts["cudaErrors"] = 0 /\ d["transferErrors"] - counts["transferErrors"] = 1
<2>1. ASSUME NEW x \in Nat, NEW y \in Nat PROVE (x = y => x - y = 0) /\ (x = y + 1 => x - y = 1)
  OBVIOUS
<2>2. /\ d["rejections"] = counts["rejections"] => d["rejections"] - counts["rejections"] = 0
      /\ d["rejections"] = counts["rejections"] + 1 => d["rejections"] - counts["rejections"] = 1
  BY ONLY <1>3, <2>1
<2>3. /\ d["cudaErrors"] = counts["cudaErrors"] => d["cudaErrors"] - counts["cudaErrors"] = 0
      /\ d["cudaErrors"] = counts["cudaErrors"] + 1 => d["cudaErrors"] - counts["cudaErrors"] = 1
  BY ONLY <1>3, <2>1
<2>4. /\ d["transferErrors"] = counts["transferErrors"] => d["transferErrors"] - counts["transferErrors"] = 0
      /\ d["transferErrors"] = counts["transferErrors"] + 1 => d["transferErrors"] - counts["transferErrors"] = 1
  BY ONLY <1>3, <2>1
<2> QED
  BY Zenon, <1>7, <2>2, <2>3, <2>4
<1>11. u[k] <= r /\ (k < n => r <= u[k + 1])
  BY <1>1, <1>4
<1>12. (~next.failed => sub = 1) /\ (sub = 1 => k = n) /\ (sub = 0 => k < n)
  BY <1>1
<1>13. CallExact(d, n, u, ~next.failed, TRUE)
  BY ONLY SMTT(20), <1>1, <1>4, <1>9, <1>10, <1>11, <1>12 DEF CallExact
<1> QED
  BY <1>2, <1>13

LEMMA RejectedExact ==
  ASSUME counts \in [Gpu!Counters -> Nat], NEW n \in Nat, NEW u \in [0 .. n -> Nat], u[0] = 0
  PROVE  CallExact(Gpu!Counted(counts, {"rejections"}), n, u, FALSE, FALSE)
<1>1. PICK d : d = Gpu!Counted(counts, {"rejections"})
  OBVIOUS
<1>2. /\ counts["p2p"] \in Nat /\ counts["staged"] \in Nat /\ counts["remote"] \in Nat /\ counts["dispatched"] \in Nat
      /\ counts["submitted"] \in Nat /\ counts["rejections"] \in Nat /\ counts["transferErrors"] \in Nat
      /\ counts["cudaErrors"] \in Nat
  BY DEF Gpu!Counters
<1>3. /\ d["p2p"] = counts["p2p"] /\ d["staged"] = counts["staged"] /\ d["remote"] = counts["remote"]
      /\ d["dispatched"] = counts["dispatched"] /\ d["submitted"] = counts["submitted"]
      /\ d["rejections"] = counts["rejections"] + 1
      /\ d["transferErrors"] = counts["transferErrors"] /\ d["cudaErrors"] = counts["cudaErrors"]
  BY <1>1 DEF Gpu!Counted, Gpu!Counters
<1>4. n > 0 => u[1] \in Nat
  OBVIOUS
<1>5. /\ d["p2p"] - counts["p2p"] = 0 /\ d["staged"] - counts["staged"] = 0 /\ d["remote"] - counts["remote"] = 0
      /\ d["dispatched"] - counts["dispatched"] = 0 /\ d["submitted"] - counts["submitted"] = 0
      /\ d["rejections"] - counts["rejections"] = 1
      /\ d["transferErrors"] - counts["transferErrors"] = 0 /\ d["cudaErrors"] - counts["cudaErrors"] = 0
  BY SMTT(20), <1>2, <1>3
<1>6. CallExact(d, n, u, FALSE, FALSE)
  BY ONLY <1>4, <1>5, n \in Nat, u[0] = 0 DEF CallExact
<1> QED
  BY <1>1, <1>6

\* The totals of the pages of the shards, in the words of ExecuteExact.
LEMMA CallIsExact ==
  ASSUME NEW n \in Nat, NEW remote \in [1 .. n -> Nat], NEW u, UpTos(u, n, remote),
         CallExact(counts', n, u, last'.ok, last'.sound), last'.remote = remote
  PROVE  Gpu!ExecuteExact
<1>1. Len(remote) = n
  OBVIOUS
<1>2. \A i \in 0 .. n : Gpu!Total(SubSeq(remote, 1, i)) = u[i]
  BY DEF UpTos
<1>3. PICK done : done = counts'["dispatched"] - counts["dispatched"]
  OBVIOUS
<1>4. /\ done \in 0 .. n
      /\ u[done] <= counts'["remote"] - counts["remote"]
      /\ done < n => counts'["remote"] - counts["remote"] <= u[done + 1]
  BY <1>3 DEF CallExact
<1>5. /\ Gpu!Total(SubSeq(remote, 1, done)) <= counts'["remote"] - counts["remote"]
      /\ done < n => counts'["remote"] - counts["remote"] <= Gpu!Total(SubSeq(remote, 1, done + 1))
<2>1. Gpu!Total(SubSeq(remote, 1, done)) = u[done]
  BY <1>2, <1>4
<2>2. done < n => done + 1 \in 0 .. n
  BY <1>4
<2>3. done < n => Gpu!Total(SubSeq(remote, 1, done + 1)) = u[done + 1]
  BY <1>2, <2>2
<2> QED
  BY <1>4, <2>1, <2>3
<1> QED
  BY <1>1, <1>3, <1>5 DEF CallExact, Gpu!ExecuteExact

\* A call that runs counts what its shards count; one that does not, a rejection.
LEMMA ExecuteIsExact ==
  ASSUME GpuTyped, NEW n \in Nat, NEW shards, DOMAIN shards = 1 .. n,
         \A i \in 1 .. n : Dispatchable(shards[i]), NEW fail \in Nat, Gpu!Execute(shards, fail)
  PROVE  Gpu!ExecuteExact /\ GpuTyped'
<1> DEFINE start == [counts |-> counts, calls |-> 0, fail |-> fail, failed |-> FALSE]
           done == Gpu!Submit(Gpu!FoldLeft(Gpu!DispatchShard, start, shards))
           ran == ~stopping /\ \A i \in DOMAIN shards : Gpu!Admitted(shards[i])
           remote == [i \in DOMAIN shards |-> Gpu!Remote(shards[i])]
           sound == \A i \in DOMAIN shards : shards[i].wellFormed /\ shards[i].device \notin broken
<1>1. /\ counts' = IF ran THEN done.counts ELSE Gpu!Counted(counts, {"rejections"})
      /\ last' = [remote |-> remote, ok |-> ran /\ ~done.failed, sound |-> sound, number |-> last.number + 1]
  BY DEF Gpu!Execute, Gpu!Rejected
<1>2. ran => sound
  BY DEF Gpu!Admitted
<1>3. counts \in [Gpu!Counters -> Nat] /\ last.number \in Nat
  BY DEF GpuTyped
<1>4. start \in Accs /\ ~start.failed /\ start.counts = counts
  BY <1>3 DEF Accs
<1>5. remote \in [1 .. n -> Nat] /\ \A i \in 1 .. n : remote[i] = Gpu!Remote(shards[i])
<2>1. ASSUME NEW i \in 1 .. n PROVE Gpu!Remote(shards[i]) \in Nat
  <3>1. PICK m \in Nat : DOMAIN shards[i].sources = 1 .. m
    BY DEF Dispatchable
  <3> QED
    BY <3>1, RemoteIs
<2> QED
  BY <2>1
<1>6. PICK u : UpTos(u, n, remote)
  BY <1>5, TotalsUpTo
<1>7. u \in [0 .. n -> Nat] /\ u[0] = 0 /\ \A i \in 1 .. n : u[i] = u[i - 1] + Gpu!Remote(shards[i])
  BY <1>5, <1>6 DEF UpTos
<1> HIDE DEF start
<1>8. done \in Accs /\ Finished(counts, done, n, u)
  BY <1>4, <1>7, RunCounts
<1> HIDE DEF done, ran, remote, sound
<1>9. /\ last'.remote = remote /\ last'.number = last.number + 1
      /\ last'.ok = (ran /\ ~done.failed) /\ last'.sound = sound
  BY <1>1
<1>10. CASE ran
<2>1. CallExact(done.counts, n, u, ~done.failed, TRUE)
  BY <1>3, <1>7, <1>8, RunExact
<2>2. CallExact(counts', n, u, last'.ok, last'.sound)
  BY <1>1, <1>2, <1>9, <1>10, <2>1 DEF CallExact
<2>3. done.counts \in [Gpu!Counters -> Nat]
  BY <1>8 DEF Accs
<2>4. Gpu!ExecuteExact
  BY <1>5, <1>6, <1>9, <2>2, CallIsExact
<2> QED
  BY <1>1, <1>3, <1>9, <1>10, <2>3, <2>4 DEF GpuTyped
<1>11. CASE ~ran
<2>1. CallExact(Gpu!Counted(counts, {"rejections"}), n, u, FALSE, FALSE)
  BY <1>3, <1>7, RejectedExact
<2>2. CallExact(counts', n, u, last'.ok, last'.sound)
  BY <1>1, <1>9, <1>11, <2>1 DEF CallExact
<2>3. Gpu!Counted(counts, {"rejections"}) \in [Gpu!Counters -> Nat]
  BY <1>3, CountedType
<2>4. Gpu!ExecuteExact
  BY <1>5, <1>6, <1>9, <2>2, CallIsExact
<2> QED
  BY <1>1, <1>3, <1>9, <1>11, <2>3, <2>4 DEF GpuTyped
<1> QED
  BY <1>10, <1>11

\* The counters stay numbers, and no other call is an execute call.
LEMMA GpuStep ==
  ASSUME GpuTyped, [Gpu!GpuNext]_gpuVars
  PROVE  Gpu!ExecuteExact /\ GpuTyped'
<1>1. CASE last' = last /\ counts' = counts
  BY <1>1 DEF GpuTyped, Gpu!ExecuteExact
<1>2. ASSUME NEW names, last' = last, Gpu!Rejected(names) PROVE Gpu!ExecuteExact /\ GpuTyped'
<2>1. counts' \in [Gpu!Counters -> Nat]
  BY <1>2, CountedType DEF GpuTyped, Gpu!Rejected
<2> QED
  BY <1>2, <2>1 DEF GpuTyped, Gpu!ExecuteExact
<1>3. ASSUME NEW cudaFails \in BOOLEAN, Gpu!ValidateTopology(cudaFails) PROVE Gpu!ExecuteExact /\ GpuTyped'
  BY <1>1, <1>2, <1>3 DEF Gpu!ValidateTopology
<1>4. ASSUME NEW source \in Gpus, NEW destination \in Gpus, NEW sources, Gpu!MigrateSequence(source, destination, sources)
      PROVE  Gpu!ExecuteExact /\ GpuTyped'
<2>1. PICK names : last' = last /\ Gpu!Rejected(names)
  BY <1>4 DEF Gpu!MigrateSequence
<2> QED
  BY <1>2, <2>1
<1>5. ASSUME NEW device \in Gpus, Gpu!InjectDeviceFailure(device) PROVE Gpu!ExecuteExact /\ GpuTyped'
<2>1. last' = last /\ Gpu!Rejected({"failures"})
  BY <1>5 DEF Gpu!InjectDeviceFailure
<2> QED
  BY <1>2, <2>1
<1>6. ASSUME NEW n \in 1 .. MaxShards, NEW shards \in [1 .. n -> Shards], NEW fail \in FailingCalls, Gpu!Execute(shards, fail)
      PROVE  Gpu!ExecuteExact /\ GpuTyped'
<2>1. n \in Nat /\ fail \in Nat
  BY CallsConfigured
<2>2. ASSUME NEW shard \in Shards PROVE Dispatchable(shard)
  BY <2>2, CallsConfigured DEF Dispatchable
<2>3. DOMAIN shards = 1 .. n /\ (\A i \in 1 .. n : Dispatchable(shards[i]))
  BY <2>2
<2> QED
  BY <1>6, <2>1, <2>3, ExecuteIsExact
<1>7. Gpu!Shutdown \/ UNCHANGED gpuVars => last' = last /\ counts' = counts
  BY DEF Gpu!Shutdown, gpuVars
<1> QED
  BY <1>1, <1>3, <1>4, <1>5, <1>6, <1>7 DEF Gpu!GpuNext

\* The counters of the part that runs are numbers.
CountersTyped == (part = "devices" => tally \in [Tally -> Nat]) /\ (part = "gpus" => GpuTyped)

\* A run starts from zeros.
LEMMA CountersInit == ClusterInit => CountersTyped
<1> SUFFICES ASSUME ClusterInit PROVE CountersTyped
  OBVIOUS
<1>1. ASSUME part = "devices" PROVE tally \in [Tally -> Nat]
<2>1. Distributed!DistributedInit
  BY <1>1 DEF ClusterInit
<2> QED
  BY <2>1 DEF Distributed!DistributedInit, Tally
<1>2. ASSUME part = "gpus" PROVE GpuTyped
<2>1. Gpu!GpuInit
  BY <1>2 DEF ClusterInit
<2> QED
  BY <2>1 DEF Gpu!GpuInit, GpuTyped
<1> QED
  BY <1>1, <1>2 DEF CountersTyped

\* Every step of either runtime counts what it did, and the counters stay numbers.
LEMMA CountersStep ==
  ASSUME CountersTyped, [ClusterNext]_clusterVars
  PROVE  /\ CountersTyped'
         /\ (part = "devices" => Distributed!BatchExact) /\ (part = "gpus" => Gpu!ExecuteExact)
<1>1. part' = part
  BY DEF ClusterNext, clusterVars
<1>2. ASSUME part = "devices" PROVE Distributed!BatchExact /\ tally' \in [Tally -> Nat]
<2>1. [Distributed!DistributedNext]_deviceVars
  BY <1>2 DEF ClusterNext, clusterVars
<2>2. tally \in [Tally -> Nat]
  BY <1>2 DEF CountersTyped
<2> QED
  BY <2>1, <2>2, TallyStep
<1>3. ASSUME part = "gpus" PROVE Gpu!ExecuteExact /\ GpuTyped'
<2>1. [Gpu!GpuNext]_gpuVars
  BY <1>3 DEF ClusterNext, clusterVars
<2>2. GpuTyped
  BY <1>3 DEF CountersTyped
<2> QED
  BY <2>1, <2>2, GpuStep
<1> QED
  BY <1>1, <1>2, <1>3 DEF CountersTyped

\* In both runtimes the counters of a batch are what happened to it, wherever it
\* fails (BatchCounted and ExecuteIsExact say it for batches of any length).  Of
\* the control plane: a dispatched batch
\* names placed sequences only and counts every item that changes device once,
\* a rejected one no more than the items before the one at fault.  Of the
\* multi-GPU runtime: the shards counted are a prefix of the call's, the pages
\* counted are theirs and at most some of the next shard's, each by a permitted
\* transport, and a call that fails counts one error (cf_distributed_execute_batch,
\* cf_multigpu_execute).
THEOREM EvidenceHolds == ClusterSpec => EvidenceExact
<1>1. CountersTyped /\ [ClusterNext]_clusterVars =>
        CountersTyped' /\ [(part = "devices" => Distributed!BatchExact) /\ (part = "gpus" => Gpu!ExecuteExact)]_clusterVars
  BY CountersStep
<1> QED
  BY CountersInit, <1>1, PTL DEF ClusterSpec, EvidenceExact
=============================================================================
