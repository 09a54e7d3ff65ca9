--------------------- MODULE MsCudaResolver_proofs ---------------------
(***************************************************************************)
(* Proofs about the CUDA resolver, for every number of sequences, layers,  *)
(* workers, pages, snapshots and failures.  IInv is inductive: reference   *)
(* counts bound or equal the references they count, and a page is erased   *)
(* only from the retired state with no snapshot left.  The second half is  *)
(* what is exact while no CUDA call has failed.                            *)
(***************************************************************************)
EXTENDS MsCudaResolver, FiniteSetTheorems, SequenceTheorems, TLAPS

\* Ids not handed out yet are unused everywhere.
FreshUnused ==
  \A p \in PageIds : p >= nextPage =>
    /\ pstate[p] = "none"
    /\ \A s \in Seqs : p \notin refs[s]

\* A removed sequence keeps no reference.
DeadSeqsEmpty == \A s \in Seqs \ live : refs[s] = {}

\* A slot without a snapshot has no pages.
FreeSlotsEmpty == \A i \in Slots : slot[i].ref = "none" => slot[i].pages = {}

IInv ==
  /\ TypeOK
  /\ FreshUnused /\ DeadSeqsEmpty /\ FreeSlotsEmpty
  /\ NoDanglingReference /\ LogicalRefsCover
  /\ InFlightExact /\ SnapshotPagesKept

---------------------------------------------------------------------------
(* Counting. *)

\* The slots that hold a page are finitely many, so their number is a natural.
LEMMA HoldersFinite ==
  \A p : IsFiniteSet(Holders(p)) /\ Cardinality(Holders(p)) \in Nat
<1>1. IsFiniteSet(Slots)
  BY FS_Interval, BoundsAreNat DEF Slots
<1> SUFFICES ASSUME NEW p
             PROVE  IsFiniteSet(Holders(p)) /\ Cardinality(Holders(p)) \in Nat
  OBVIOUS
<1>2. Holders(p) \in SUBSET Slots
  BY DEF Holders, Outstanding
<1>3. IsFiniteSet(Holders(p))
  BY <1>1, <1>2, FS_Subset
<1> QED BY <1>3, FS_CardinalityType

\* The sequences that reference a page are finitely many.
LEMMA ObserversFinite ==
  ASSUME live \in SUBSET Seqs
  PROVE  \A p : IsFiniteSet(Observers(p)) /\ Cardinality(Observers(p)) \in Nat
<1> SUFFICES ASSUME NEW p
             PROVE  IsFiniteSet(Observers(p)) /\ Cardinality(Observers(p)) \in Nat
  OBVIOUS
<1>1. Observers(p) \in SUBSET Seqs
  BY DEF Observers
<1>2. IsFiniteSet(Observers(p))
  BY <1>1, SeqsFinite, FS_Subset
<1> QED BY <1>2, FS_CardinalityType

\* Releasing the references of the slots in D keeps the in-flight counts exact,
\* when exactly the slots of D stop being holders.
LEMMA ReleaseExact ==
  ASSUME InFlightExact, NEW D, inflight' = Released(D),
         \A p \in PageIds : Holders(p)' = Holders(p) \ D
  PROVE  /\ InFlightExact'
         /\ inflight' \in [PageIds -> Nat]
<1>1. \A p \in PageIds :
        /\ inflight'[p] = Cardinality(Holders(p)')
        /\ inflight'[p] \in Nat
  <2> SUFFICES ASSUME NEW p \in PageIds
               PROVE  /\ inflight'[p] = Cardinality(Holders(p)')
                      /\ inflight'[p] \in Nat
    OBVIOUS
  <2>1. /\ Cardinality(Holders(p) \ D) = Cardinality(Holders(p)) - Cardinality(Holders(p) \cap D)
        /\ IsFiniteSet(Holders(p) \ D)
    BY HoldersFinite, FS_Difference
  <2>2. Cardinality(Holders(p) \ D) \in Nat
    BY <2>1, FS_CardinalityType
  <2>3. D \cap Holders(p) = Holders(p) \cap D
    OBVIOUS
  <2>4. inflight'[p] = inflight[p] - Cardinality(D \cap Holders(p))
    BY DEF Released
  <2> QED BY <2>1, <2>2, <2>3, <2>4 DEF InFlightExact
<1>2. inflight' = [p \in PageIds |-> inflight'[p]]
  BY DEF Released
<1> QED BY <1>1, <1>2 DEF InFlightExact

---------------------------------------------------------------------------
(* Initial states. *)

LEMMA InitIInv == Init => IInv
<1> SUFFICES ASSUME Init PROVE IInv
  OBVIOUS
<1>1. \A p : Observers(p) = {} /\ Holders(p) = {}
  BY DEF Init, Observers, Holders, Outstanding, NoSnap
<1>2. TypeOK
  BY BoundsAreNat, LayersAreNat DEF Init, TypeOK, PageIds, Slots, SnapType, NoSnap, Null
<1>3. FreshUnused /\ DeadSeqsEmpty /\ FreeSlotsEmpty
  BY DEF Init, FreshUnused, DeadSeqsEmpty, FreeSlotsEmpty, NoSnap
<1>4. NoDanglingReference /\ SnapshotPagesKept
  BY DEF Init, NoDanglingReference, SnapshotPagesKept, Outstanding, NoSnap
<1>5. LogicalRefsCover /\ InFlightExact
  <2>1. Cardinality({}) = 0
    BY FS_EmptySet
  <2>2. \A p \in PageIds : Cardinality(Observers(p)) = 0 /\ Cardinality(Holders(p)) = 0
    BY <1>1, <2>1
  <2>3. \A p \in PageIds : logical[p] = 0 /\ inflight[p] = 0
    BY DEF Init
  <2> QED BY <2>2, <2>3 DEF LogicalRefsCover, InFlightExact
<1> QED BY <1>2, <1>3, <1>4, <1>5 DEF IInv

---------------------------------------------------------------------------
(* Steps that change ownership leave snapshots and in-flight counts alone. *)

\* What is left to prove of such a step once the snapshots are known unchanged
\* and no page leaves the states live and retired.
LEMMA OwnershipFrame ==
  ASSUME IInv, UNCHANGED <<inflight, slot>>,
         \A p \in PageIds : pstate[p] \in {"live", "retired"} => pstate'[p] \in {"live", "retired"}
  PROVE  InFlightExact' /\ SnapshotPagesKept' /\ FreeSlotsEmpty'
<1>1. \A p : Holders(p)' = Holders(p)
  BY DEF Holders, Outstanding
<1>2. InFlightExact'
  BY <1>1 DEF IInv, InFlightExact
<1>3. SnapshotPagesKept'
  BY DEF IInv, TypeOK, SnapshotPagesKept, Outstanding, SnapType
<1> QED BY <1>2, <1>3 DEF IInv, FreeSlotsEmpty

LEMMA CreateStep == ASSUME IInv, NEW s \in Seqs, Create(s) PROVE IInv'
<1>1. refs[s] = {}
  BY DEF IInv, DeadSeqsEmpty, Create
<1>2. TypeOK'
  BY DEF IInv, TypeOK, Create, pageVars, execVars
<1>3. FreshUnused' /\ DeadSeqsEmpty'
  BY DEF IInv, FreshUnused, DeadSeqsEmpty, Create, pageVars
<1>4. NoDanglingReference'
  BY <1>1 DEF IInv, NoDanglingReference, Create, pageVars
<1>5. LogicalRefsCover'
  <2>1. \A p : Observers(p)' = Observers(p)
    BY <1>1 DEF Observers, Create
  <2> QED BY <2>1 DEF IInv, LogicalRefsCover, Create, pageVars
<1>6. InFlightExact' /\ SnapshotPagesKept' /\ FreeSlotsEmpty'
  BY OwnershipFrame DEF Create, pageVars, execVars
<1> QED BY <1>2, <1>3, <1>4, <1>5, <1>6 DEF IInv

LEMMA PublishStep ==
  ASSUME IInv, NEW s \in Seqs, NEW l \in Layers, NEW o \in Outcomes, Publish(s, l, o)
  PROVE  IInv'
<1> DEFINE q == nextPage
<1>1. /\ s \in live /\ q \in PageIds /\ nextPage' = q + 1
      /\ layerOf' = [layerOf EXCEPT ![q] = l]
      /\ pstate' = [pstate EXCEPT ![q] = "live"]
      /\ logical' = [logical EXCEPT ![q] = 1]
      /\ refs' = [refs EXCEPT ![s] = @ \cup {q}]
      /\ UNCHANGED <<live, disp, active, execVars>>
  BY DEF Publish
<1>2. begin' = [begin EXCEPT ![s][q] = PageSize * Cardinality(LayerPages(s, l))]
  BY DEF Publish
<1>3. faults' \in 0 .. MaxFaults
  <2>1. faults' = faults \/ Fails
    BY Zenon DEF Publish
  <2>2. faults \in 0 .. MaxFaults
    BY Zenon DEF IInv, TypeOK
  <2> QED
    BY <2>1, <2>2, BoundsAreNat DEF Fails
<1>4. Cardinality(LayerPages(s, l)) \in Nat
  <2>1. IsFiniteSet(PageIds)
    BY FS_Interval, BoundsAreNat DEF PageIds
  <2>2. LayerPages(s, l) \in SUBSET PageIds
    BY DEF LayerPages, IInv, TypeOK
  <2> QED BY <2>1, <2>2, FS_Subset, FS_CardinalityType
<1>5. begin' \in [Seqs -> [PageIds -> Int]]
  <2>1. PageSize * Cardinality(LayerPages(s, l)) \in Int
    BY <1>4, BoundsAreNat
  <2> QED BY <1>2, <2>1, <1>1 DEF IInv, TypeOK
<1>6. TypeOK'
  <2>1. nextPage' \in 1 .. MaxPages + 1
    BY <1>1, BoundsAreNat DEF PageIds
  <2>2. /\ layerOf' \in [PageIds -> Layers \cup {Null}]
        /\ pstate' \in [PageIds -> {"none", "live", "retired", "erased"}]
        /\ logical' \in [PageIds -> Nat]
    BY <1>1 DEF IInv, TypeOK
  <2>3. refs' \in [Seqs -> SUBSET PageIds]
    BY <1>1 DEF IInv, TypeOK
  <2> QED BY <1>1, <1>3, <1>5, <2>1, <2>2, <2>3 DEF IInv, TypeOK, execVars
<1>7. pstate[q] = "none" /\ \A t \in Seqs : q \notin refs[t]
  BY <1>1, BoundsAreNat DEF IInv, FreshUnused, TypeOK, PageIds
<1>8. FreshUnused' /\ DeadSeqsEmpty'
  <2>1. ASSUME NEW p \in PageIds, p >= nextPage'
        PROVE  pstate'[p] = "none" /\ \A t \in Seqs : p \notin refs'[t]
    <3>1. p >= nextPage /\ p # nextPage
      BY <1>1, <2>1, BoundsAreNat DEF PageIds
    <3> QED BY <1>1, <3>1 DEF IInv, FreshUnused, TypeOK
  <2>2. DeadSeqsEmpty'
    BY <1>1 DEF IInv, DeadSeqsEmpty, TypeOK
  <2> QED BY <2>1, <2>2 DEF FreshUnused
<1>9. NoDanglingReference'
  BY <1>1, <1>7 DEF IInv, NoDanglingReference, TypeOK
<1>10. LogicalRefsCover'
  <2> SUFFICES ASSUME NEW p \in PageIds
               PROVE  Cardinality(Observers(p)') <= logical'[p]
    BY DEF LogicalRefsCover
  <2>1. CASE p = q
    <3>1. \A t \in live : p \in refs'[t] <=> t = s
      BY <1>1, <1>7, <2>1 DEF IInv, TypeOK
    <3>2. Observers(p)' = {s}
      BY <3>1, <1>1 DEF Observers
    <3>3. logical'[p] = 1
      BY <1>1, <2>1 DEF IInv, TypeOK
    <3> QED BY <3>2, <3>3, FS_Singleton
  <2>2. CASE p # q
    <3>1. Observers(p)' = Observers(p)
      BY <1>1, <2>2 DEF Observers, IInv, TypeOK
    <3> QED BY <2>2, <3>1, <1>1 DEF IInv, LogicalRefsCover, TypeOK
  <2> QED BY <2>1, <2>2
<1>11. InFlightExact' /\ SnapshotPagesKept' /\ FreeSlotsEmpty'
  <2>1. UNCHANGED <<inflight, slot>>
    BY <1>1 DEF execVars
  <2>2. \A p \in PageIds : pstate[p] \in {"live", "retired"} => pstate'[p] \in {"live", "retired"}
    BY <1>1 DEF IInv, TypeOK
  <2> QED BY <2>1, <2>2, OwnershipFrame
<1> QED BY <1>6, <1>8, <1>9, <1>10, <1>11 DEF IInv

\* Replacing the destination of a copy: logical counts grow by one exactly on
\* the pages copied, whatever the destination referenced before.
LEMMA CopyStep ==
  ASSUME IInv, NEW a \in Seqs, NEW d \in Seqs, Copy(a, d)
  PROVE  IInv'
<1>1. /\ a \in live /\ a # d
      /\ live' = live \cup {d} /\ disp' = disp \cup {d}
      /\ refs' = [refs EXCEPT ![d] = refs[a]]
      /\ begin' = [begin EXCEPT ![d] = begin[a]]
      /\ logical' = [p \in PageIds |-> IF p \in refs[a] THEN logical[p] + 1 ELSE logical[p]]
      /\ UNCHANGED <<layerOf, nextPage, pstate, execVars, faults>>
  BY DEF Copy, CanCopy, Referenced
<1>2. TypeOK'
  BY <1>1 DEF IInv, TypeOK, execVars
<1>3. FreshUnused' /\ DeadSeqsEmpty'
  BY <1>1 DEF IInv, FreshUnused, DeadSeqsEmpty, TypeOK
<1>4. NoDanglingReference'
  BY <1>1 DEF IInv, NoDanglingReference, TypeOK
<1>5. LogicalRefsCover'
  <2> SUFFICES ASSUME NEW p \in PageIds
               PROVE  Cardinality(Observers(p)') <= logical'[p]
    BY DEF LogicalRefsCover
  <2>1. /\ IsFiniteSet(Observers(p)) /\ Cardinality(Observers(p)) \in Nat
        /\ Cardinality(Observers(p)) <= logical[p] /\ logical[p] \in Nat
    BY ObserversFinite DEF IInv, TypeOK, LogicalRefsCover
  <2>2. CASE p \in refs[a]
    <3>1. Observers(p)' = Observers(p) \cup {d}
      BY <1>1, <2>2 DEF Observers, IInv, TypeOK
    <3>2. /\ Cardinality(Observers(p) \cup {d}) <= Cardinality(Observers(p)) + 1
          /\ Cardinality(Observers(p) \cup {d}) \in Nat
      <4>1. /\ IsFiniteSet(Observers(p) \cup {d})
            /\ Cardinality(Observers(p) \cup {d}) =
                 IF d \in Observers(p) THEN Cardinality(Observers(p))
                                       ELSE Cardinality(Observers(p)) + 1
        BY <2>1, FS_AddElement
      <4> QED BY <2>1, <4>1
    <3> QED BY <2>1, <2>2, <3>1, <3>2, <1>1
  <2>3. CASE p \notin refs[a]
    <3>1. Observers(p)' \in SUBSET Observers(p)
      BY <1>1, <2>3 DEF Observers, IInv, TypeOK
    <3>2. /\ Cardinality(Observers(p)') <= Cardinality(Observers(p))
          /\ Cardinality(Observers(p)') \in Nat
      BY <2>1, <3>1, FS_Subset, FS_CardinalityType
    <3> QED BY <2>1, <2>3, <3>2, <1>1
  <2> QED BY <2>2, <2>3
<1>6. InFlightExact' /\ SnapshotPagesKept' /\ FreeSlotsEmpty'
  BY <1>1, OwnershipFrame DEF execVars
<1> QED BY <1>2, <1>3, <1>4, <1>5, <1>6 DEF IInv

LEMMA CopyFailsStep ==
  ASSUME IInv, NEW a \in Seqs, NEW d \in Seqs, NEW k \in Layers, NEW point \in Points,
         CopyFails(a, d, k, point)
  PROVE  IInv'
<1>1. /\ logical' = [p \in PageIds |-> IF p \in refs[a] /\ layerOf[p] <= k
                                       THEN logical[p] + 1 ELSE logical[p]]
      /\ Fails
      /\ UNCHANGED <<seqVars, layerOf, nextPage, pstate, execVars>>
  BY DEF CopyFails, Referenced
<1>2. TypeOK'
  <2>1. faults' \in 0 .. MaxFaults
    BY <1>1, BoundsAreNat DEF IInv, TypeOK, Fails
  <2>2. logical' \in [PageIds -> Nat]
    BY <1>1 DEF IInv, TypeOK
  <2> QED BY <1>1, <2>1, <2>2 DEF IInv, TypeOK, seqVars, execVars
<1>3. FreshUnused' /\ DeadSeqsEmpty' /\ NoDanglingReference'
  BY <1>1 DEF IInv, FreshUnused, DeadSeqsEmpty, NoDanglingReference, seqVars
<1>4. LogicalRefsCover'
  <2> SUFFICES ASSUME NEW p \in PageIds
               PROVE  Cardinality(Observers(p)') <= logical'[p]
    BY DEF LogicalRefsCover
  <2>1. Observers(p)' = Observers(p)
    BY <1>1 DEF Observers, seqVars
  <2>2. /\ Cardinality(Observers(p)) \in Nat
        /\ Cardinality(Observers(p)) <= logical[p] /\ logical[p] \in Nat
    BY ObserversFinite DEF IInv, TypeOK, LogicalRefsCover
  <2> QED BY <1>1, <2>1, <2>2
<1>5. InFlightExact' /\ SnapshotPagesKept' /\ FreeSlotsEmpty'
  BY <1>1, OwnershipFrame DEF execVars
<1> QED BY <1>2, <1>3, <1>4, <1>5 DEF IInv

LEMMA RemoveStep == ASSUME IInv, NEW s \in Seqs, Remove(s) PROVE IInv'
<1>1. /\ s \in live /\ live' = live \ {s} /\ disp' = disp \ {s}
      /\ logical' = [p \in PageIds |-> IF p \in refs[s] THEN logical[p] - 1 ELSE logical[p]]
      /\ pstate' = [p \in PageIds |->
                      IF p \in refs[s] /\ logical[p] = 1 THEN "retired" ELSE pstate[p]]
      /\ refs' = [refs EXCEPT ![s] = {}]
      /\ begin' = [begin EXCEPT ![s] = [p \in PageIds |-> 0]]
      /\ UNCHANGED <<layerOf, nextPage, execVars, faults>>
  BY DEF Remove, LastReferenced
<1>2. ASSUME NEW p \in PageIds, p \in refs[s]
      PROVE  /\ Observers(p)' = Observers(p) \ {s}
             /\ s \in Observers(p)
             /\ Cardinality(Observers(p)') = Cardinality(Observers(p)) - 1
             /\ Cardinality(Observers(p)) \in Nat /\ Cardinality(Observers(p)') \in Nat
             /\ Cardinality(Observers(p)) <= logical[p] /\ logical[p] \in Nat
  <2>1. Observers(p)' = Observers(p) \ {s} /\ s \in Observers(p)
    BY <1>1, <1>2 DEF Observers, IInv, TypeOK
  <2>2. IsFiniteSet(Observers(p)) /\ Cardinality(Observers(p)) \in Nat
    BY ObserversFinite DEF IInv, TypeOK
  <2>3. /\ Cardinality(Observers(p) \ {s}) = Cardinality(Observers(p)) - 1
        /\ Cardinality(Observers(p) \ {s}) \in Nat
    BY <2>1, <2>2, FS_RemoveElement, FS_CardinalityType
  <2> QED BY <2>1, <2>2, <2>3 DEF IInv, LogicalRefsCover, TypeOK
<1>3. ASSUME NEW p \in PageIds, p \notin refs[s]
      PROVE  Observers(p)' = Observers(p)
  BY <1>1, <1>3 DEF Observers, IInv, TypeOK
<1>4. \A p \in PageIds : p \in refs[s] => logical[p] - 1 \in Nat
  BY <1>2
<1>5. TypeOK'
  BY <1>1, <1>4 DEF IInv, TypeOK, execVars
<1>6. FreshUnused' /\ DeadSeqsEmpty'
  BY <1>1 DEF IInv, FreshUnused, DeadSeqsEmpty, TypeOK
<1>7. NoDanglingReference'
  <2> SUFFICES ASSUME NEW t \in live', NEW p \in refs'[t]
               PROVE  pstate'[p] = "live"
    BY DEF NoDanglingReference
  <2>1. t \in live /\ t # s /\ p \in refs[t] /\ p \in PageIds /\ pstate[p] = "live"
    BY <1>1 DEF IInv, TypeOK, NoDanglingReference
  <2>2. ~(p \in refs[s] /\ logical[p] = 1)
    <3> SUFFICES ASSUME p \in refs[s], logical[p] = 1 PROVE FALSE
      OBVIOUS
    <3>1. Cardinality(Observers(p)') = 0
      BY <1>2, <2>1
    <3>2. IsFiniteSet(Observers(p)')
      BY <1>2, <2>1, ObserversFinite, FS_RemoveElement DEF IInv, TypeOK
    <3>3. t \in Observers(p)'
      BY DEF Observers
    <3> QED BY <3>1, <3>2, <3>3, FS_EmptySet
  <2> QED BY <1>1, <2>1, <2>2
<1>8. LogicalRefsCover'
  <2> SUFFICES ASSUME NEW p \in PageIds
               PROVE  Cardinality(Observers(p)') <= logical'[p]
    BY DEF LogicalRefsCover
  <2>1. CASE p \in refs[s]
    BY <1>1, <1>2, <2>1
  <2>2. CASE p \notin refs[s]
    BY <1>1, <1>3, <2>2 DEF IInv, LogicalRefsCover
  <2> QED BY <2>1, <2>2
<1>9. InFlightExact' /\ SnapshotPagesKept' /\ FreeSlotsEmpty'
  BY <1>1, OwnershipFrame DEF execVars
<1> QED BY <1>5, <1>6, <1>7, <1>8, <1>9 DEF IInv

\* What the remaining ownership steps leave unchanged.
LEMMA OwnershipUnchanged ==
  ASSUME IInv, UNCHANGED <<live, refs, pageVars, execVars>>,
         disp' \in SUBSET live, begin' \in [Seqs -> [PageIds -> Int]],
         faults' \in 0 .. MaxFaults
  PROVE  IInv'
<1>1. TypeOK'
  BY DEF IInv, TypeOK, pageVars, execVars
<1>2. FreshUnused' /\ DeadSeqsEmpty' /\ NoDanglingReference'
  BY DEF IInv, FreshUnused, DeadSeqsEmpty, NoDanglingReference, pageVars
<1>3. LogicalRefsCover'
  <2>1. \A p : Observers(p)' = Observers(p)
    BY DEF Observers
  <2> QED BY <2>1 DEF IInv, LogicalRefsCover, pageVars
<1>4. InFlightExact' /\ SnapshotPagesKept' /\ FreeSlotsEmpty'
  BY OwnershipFrame DEF pageVars, execVars
<1> QED BY <1>1, <1>2, <1>3, <1>4 DEF IInv

LEMMA OwnershipStep == IInv /\ OwnershipNext => IInv'
<1> SUFFICES ASSUME IInv, OwnershipNext PROVE IInv'
  OBVIOUS
<1>0. /\ disp \in SUBSET live /\ begin \in [Seqs -> [PageIds -> Int]]
      /\ faults \in 0 .. MaxFaults
      /\ Fails => faults' \in 0 .. MaxFaults
  BY BoundsAreNat DEF IInv, TypeOK, Fails
<1>1. ASSUME NEW s \in Seqs, Create(s) PROVE IInv'
  BY <1>1, CreateStep
<1>2. ASSUME NEW s \in Seqs, NEW l \in Layers, NEW o \in Outcomes, Publish(s, l, o) PROVE IInv'
  BY <1>2, PublishStep
<1>3. ASSUME NEW s \in Seqs, NEW l \in Layers, NEW o \in Outcomes, StageActive(s, l, o) PROVE IInv'
  <2>1. /\ UNCHANGED <<seqVars, pageVars, execVars>>
        /\ faults' = faults \/ Fails
    BY <1>3 DEF StageActive
  <2> QED BY <1>0, <2>1, OwnershipUnchanged DEF seqVars
<1>4. ASSUME NEW a \in Seqs, NEW d \in Seqs, Copy(a, d) PROVE IInv'
  BY <1>4, CopyStep
<1>5. ASSUME NEW a \in Seqs, NEW d \in Seqs, NEW k \in Layers, NEW point \in Points,
             CopyFails(a, d, k, point)
      PROVE  IInv'
  BY <1>5, CopyFailsStep
<1>6. ASSUME NEW s \in Seqs, Cancel(s) PROVE IInv'
  <2>1. /\ disp' = disp \ {s}
        /\ UNCHANGED <<live, refs, begin, pageVars, execVars, faults>>
    BY <1>6 DEF Cancel
  <2> QED BY <1>0, <2>1, OwnershipUnchanged
<1>7. ASSUME NEW s \in Seqs, Remove(s) PROVE IInv'
  BY <1>7, RemoveStep
<1>8. ASSUME NEW s \in Seqs, NEW lo \in 0 .. MaxTokens, NEW hi \in 0 .. MaxTokens,
             NEW delta \in {-1, 1}, Shift(s, lo, hi, delta)
      PROVE  IInv'
  <2>1. UNCHANGED <<live, disp, refs, pageVars, execVars, faults>>
    BY <1>8 DEF Shift
  <2>2. begin' \in [Seqs -> [PageIds -> Int]]
    BY <1>0, <1>8 DEF Shift
  <2> QED BY <1>0, <2>1, <2>2, OwnershipUnchanged
<1> QED
  BY <1>1, <1>2, <1>3, <1>4, <1>5, <1>6, <1>7, <1>8 DEF OwnershipNext

---------------------------------------------------------------------------
(* Steps of execute_batch, the device and reclaim leave the references alone. *)

\* What is left to prove of such a step: its types, its holders and its page states.
LEMMA ExecuteFrame ==
  ASSUME IInv, UNCHANGED <<seqVars, layerOf, nextPage, logical>>,
         slot' \in [Slots -> SnapType], inflight' \in [PageIds -> Nat],
         batch' \in [Workers -> Seq(Slots)], launched' \in [Workers -> Nat],
         unwinding' \in SUBSET Workers, faults' \in 0 .. MaxFaults, balance' \in Int,
         \A p \in PageIds :
           \/ pstate'[p] = pstate[p]
           \/ pstate[p] = "retired" /\ pstate'[p] = "erased",
         pstate' \in [PageIds -> {"none", "live", "retired", "erased"}],
         InFlightExact', SnapshotPagesKept', FreeSlotsEmpty'
  PROVE  IInv'
<1>1. TypeOK'
  BY DEF IInv, TypeOK, seqVars
<1>2. FreshUnused' /\ DeadSeqsEmpty'
  BY DEF IInv, FreshUnused, DeadSeqsEmpty, seqVars
<1>3. NoDanglingReference'
  BY DEF IInv, TypeOK, NoDanglingReference, seqVars
<1>4. LogicalRefsCover'
  <2>1. \A p : Observers(p)' = Observers(p)
    BY DEF Observers, seqVars
  <2> QED BY <2>1 DEF IInv, LogicalRefsCover
<1> QED BY <1>1, <1>2, <1>3, <1>4 DEF IInv

\* Holders after the slots of D are freed and the others keep their pages.
LEMMA HoldersAfterRelease ==
  ASSUME IInv, NEW D,
         slot' \in [Slots -> SnapType],
         \A i \in Slots \cap D : slot'[i] = NoSnap,
         \A i \in Slots \ D : slot'[i].pages = slot[i].pages
                           /\ (slot[i].ref # "none" => slot'[i].ref # "none")
  PROVE  \A p : Holders(p)' = Holders(p) \ D
<1>1. \A i \in Slots \ D : \A p : i \in Holders(p)' <=> i \in Holders(p)
  BY DEF Holders, Outstanding, IInv, FreeSlotsEmpty, TypeOK, SnapType
<1>2. \A i \in Slots \cap D : \A p : i \notin Holders(p)'
  BY DEF Holders, Outstanding, NoSnap
<1>3. \A p : Holders(p) \subseteq Slots /\ Holders(p)' \subseteq Slots
  BY DEF Holders, Outstanding
<1> QED BY <1>1, <1>2, <1>3

\* New snapshots in free slots of T keep the in-flight counts exact.
LEMMA AcquireExact ==
  ASSUME IInv, NEW T \in SUBSET Slots, NEW snap \in [T -> SnapType],
         T \cap Outstanding = {}, \A i \in T : snap[i].ref = "held",
         slot' = [i \in Slots |-> IF i \in T THEN snap[i] ELSE slot[i]],
         inflight' = [p \in PageIds |->
                        inflight[p] + Cardinality({i \in T : p \in snap[i].pages})]
  PROVE  InFlightExact' /\ inflight' \in [PageIds -> Nat]
<1>1. IsFiniteSet(T)
  <2>1. IsFiniteSet(Slots)
    BY FS_Interval, BoundsAreNat DEF Slots
  <2> QED BY <2>1, FS_Subset
<1>2. ASSUME NEW p \in PageIds
      PROVE  inflight'[p] \in Nat /\ inflight'[p] = Cardinality(Holders(p)')
  <2> DEFINE more == {i \in T : p \in snap[i].pages}
  <2>1. inflight'[p] = inflight[p] + Cardinality(more)
    OBVIOUS
  <2>2. Holders(p)' = Holders(p) \cup more /\ Holders(p) \cap more = {}
    BY DEF Holders, Outstanding
  <2>3. more \in SUBSET T
    OBVIOUS
  <2> HIDE DEF more
  <2>4. IsFiniteSet(more) /\ Cardinality(more) \in Nat
    BY <1>1, <2>3, FS_Subset, FS_CardinalityType
  <2>5. /\ IsFiniteSet(Holders(p)) /\ Cardinality(Holders(p)) \in Nat
        /\ inflight[p] = Cardinality(Holders(p))
    BY HoldersFinite DEF IInv, InFlightExact
  <2>6. Cardinality(Holders(p) \cup more)
          = Cardinality(Holders(p)) + Cardinality(more) - Cardinality(Holders(p) \cap more)
    BY <2>4, <2>5, FS_Union
  <2>7. Cardinality(Holders(p) \cap more) = 0
    BY <2>2, FS_EmptySet
  <2> QED BY <2>1, <2>2, <2>4, <2>5, <2>6, <2>7
<1>3. inflight' = [p \in PageIds |-> inflight'[p]]
  OBVIOUS
<1> QED BY <1>2, <1>3 DEF InFlightExact

LEMMA AcquireStep ==
  ASSUME IInv, NEW w \in Workers, NEW n \in 1 .. MaxBatch,
         NEW items \in [1 .. n -> Item], NEW f \in [1 .. n -> Slots], TakeSnapshots(w, n, items, f),
         unwinding' \in SUBSET Workers
  PROVE  IInv'
<1> DEFINE T == {f[j] : j \in 1 .. n}
           item(i) == items[CHOOSE j \in 1 .. n : f[j] = i]
           snap == [i \in T |-> Snapshot(item(i)[1], item(i)[2])]
<1>0. n \in Nat
  BY BoundsAreNat
<1>1. /\ \A j \in 1 .. n : items[j][1] \in disp
      /\ T \cap Outstanding = {}
      /\ slot' = [i \in Slots |-> IF i \in T THEN Snapshot(item(i)[1], item(i)[2]) ELSE slot[i]]
      /\ inflight' = [p \in PageIds |-> inflight[p] +
                        Cardinality({i \in T : p \in Snapshot(item(i)[1], item(i)[2]).pages})]
      /\ batch' = [batch EXCEPT ![w] = f]
      /\ balance' = balance + n
      /\ UNCHANGED <<seqVars, pageVars, bufVars, stream, launched, faults>>
  BY DEF TakeSnapshots
<1>2. \A i \in T : item(i)[1] \in disp /\ item(i)[1] \in Seqs /\ item(i)[2] \in Layers
  BY <1>1 DEF Item
<1>3. T \in SUBSET Slots
  OBVIOUS
<1>4. \A i \in T : snap[i] = Snapshot(item(i)[1], item(i)[2])
  OBVIOUS
<1>5. \A i \in T : /\ snap[i] \in SnapType /\ snap[i].ref = "held"
                   /\ \A p \in snap[i].pages : pstate[p] = "live"
  <2> SUFFICES ASSUME NEW i \in T
               PROVE  /\ snap[i] \in SnapType /\ snap[i].ref = "held"
                      /\ \A p \in snap[i].pages : pstate[p] = "live"
    OBVIOUS
  <2>1. PICK s \in disp, l \in Layers : snap[i] = Snapshot(s, l)
    BY <1>2, <1>4
  <2>2. s \in live /\ s \in Seqs /\ refs[s] \in SUBSET PageIds
    BY DEF IInv, TypeOK
  <2>3. snap[i] = [ref |-> "held", seq |-> s, layer |-> l, pages |-> LayerPages(s, l)]
    BY <2>1 DEF Snapshot
  <2>4. LayerPages(s, l) \in SUBSET PageIds /\ \A p \in LayerPages(s, l) : pstate[p] = "live"
    BY <2>2 DEF LayerPages, IInv, NoDanglingReference
  <2>5. PICK r : r = [ref |-> "held", seq |-> s, layer |-> l, pages |-> LayerPages(s, l)]
    OBVIOUS
  <2>6. r \in SnapType /\ r.ref = "held" /\ \A p \in r.pages : pstate[p] = "live"
    BY ONLY <2>2, <2>4, <2>5, l \in Layers DEF SnapType
  <2>7. snap[i] = r
    BY <2>3, <2>5
  <2> QED
    BY <2>6, <2>7
<1>6. snap \in [T -> SnapType]
  BY <1>5
<1>7. slot' = [i \in Slots |-> IF i \in T THEN snap[i] ELSE slot[i]]
  BY <1>1
<1>8. inflight' = [p \in PageIds |-> inflight[p] + Cardinality({i \in T : p \in snap[i].pages})]
  <2>1. ASSUME NEW p
        PROVE  {i \in T : p \in Snapshot(item(i)[1], item(i)[2]).pages} = {i \in T : p \in snap[i].pages}
    BY <1>4
  <2> QED BY <1>1, <2>1
<1>9. batch' \in [Workers -> Seq(Slots)]
  <2>1. f \in Seq(Slots)
    BY <1>0
  <2> QED BY <1>1, <2>1 DEF IInv, TypeOK
<1> HIDE DEF T, item, snap
<1>10. InFlightExact' /\ inflight' \in [PageIds -> Nat]
  BY <1>1, <1>3, <1>5, <1>6, <1>7, <1>8, AcquireExact
<1>11. slot' \in [Slots -> SnapType]
  BY <1>3, <1>6, <1>7 DEF IInv, TypeOK
<1>12. SnapshotPagesKept'
  BY <1>1, <1>5, <1>7 DEF IInv, SnapshotPagesKept, Outstanding, pageVars
<1>13. FreeSlotsEmpty'
  BY <1>5, <1>7 DEF IInv, FreeSlotsEmpty
<1>14. /\ UNCHANGED <<seqVars, layerOf, nextPage, logical, pstate, launched, faults>>
       /\ balance' \in Int
  BY <1>0, <1>1 DEF pageVars, IInv, TypeOK
<1> QED
  BY <1>9, <1>10, <1>11, <1>12, <1>13, <1>14, ExecuteFrame DEF IInv, TypeOK

\* Releasing the slots of D, with no page erased, re-establishes the invariant.
LEMMA ReleaseStep ==
  ASSUME IInv, NEW D \in SUBSET Slots,
         UNCHANGED <<seqVars, pageVars>>,
         slot' \in [Slots -> SnapType],
         \A i \in Slots \cap D : slot'[i] = NoSnap,
         \A i \in Slots \ D : slot'[i].pages = slot[i].pages
                           /\ (slot[i].ref # "none" => slot'[i].ref # "none")
                           /\ (slot'[i].ref = "none" => slot[i].ref = "none"),
         inflight' = Released(D),
         batch' \in [Workers -> Seq(Slots)], launched' \in [Workers -> Nat],
         unwinding' \in SUBSET Workers, faults' \in 0 .. MaxFaults, balance' \in Int
  PROVE  IInv'
<1>1. \A p : Holders(p)' = Holders(p) \ D
  BY HoldersAfterRelease
<1>2. InFlightExact' /\ inflight' \in [PageIds -> Nat]
  BY <1>1, ReleaseExact DEF IInv
<1>3. SnapshotPagesKept'
  <2> SUFFICES ASSUME NEW i \in Outstanding', NEW p \in slot'[i].pages
               PROVE  pstate'[p] \in {"live", "retired"}
    BY DEF SnapshotPagesKept
  <2>1. i \in Slots /\ slot'[i].ref # "none"
    BY DEF Outstanding
  <2>2. i \notin D
    BY <2>1 DEF NoSnap
  <2>3. i \in Slots \ D /\ slot'[i].pages = slot[i].pages /\ slot[i].ref # "none"
    <3>1. i \in Slots \ D
      BY <2>1, <2>2
    <3>2. slot'[i].pages = slot[i].pages
      BY <3>1
    <3>3. slot[i].ref # "none"
      <4>1. CASE slot[i].ref = "none"
        <5>1. slot[i].pages = {}
          BY <3>1, <4>1 DEF IInv, FreeSlotsEmpty
        <5> QED BY <3>2, <5>1
      <4> QED BY <4>1
    <3> QED BY <3>1, <3>2, <3>3
  <2>4. i \in Outstanding /\ p \in slot[i].pages
    BY <2>3 DEF Outstanding
  <2> QED BY <2>4 DEF IInv, SnapshotPagesKept, pageVars
<1>4. FreeSlotsEmpty'
  BY DEF IInv, NoSnap, FreeSlotsEmpty
<1> QED
  BY <1>2, <1>3, <1>4, ExecuteFrame DEF IInv, TypeOK, pageVars

\* Releasing no slot leaves every in-flight count as it is.
LEMMA ReleaseNothing ==
  ASSUME inflight \in [PageIds -> Nat], UNCHANGED inflight
  PROVE  inflight' = Released({})
<1>1. \A p \in PageIds : Cardinality({} \cap Holders(p)) = 0
  BY FS_EmptySet
<1>2. \A p \in PageIds : inflight[p] - Cardinality({} \cap Holders(p)) = inflight[p]
  BY <1>1
<1> QED BY <1>2 DEF Released

LEMMA ExecuteStep == IInv /\ ExecuteNext => IInv'
<1> SUFFICES ASSUME IInv, ExecuteNext PROVE IInv'
  OBVIOUS
<1>0. /\ faults \in 0 .. MaxFaults
      /\ Fails => faults' \in 0 .. MaxFaults
      /\ NoSnap \in SnapType
      /\ \A w \in Workers : batch[w] \in Seq(Slots)
      /\ \A w \in Workers : Len(batch[w]) \in Nat /\ BatchSlots(w) \in SUBSET Slots
      /\ slot \in [Slots -> SnapType] /\ balance \in Int
      /\ batch \in [Workers -> Seq(Slots)] /\ launched \in [Workers -> Nat]
      /\ inflight \in [PageIds -> Nat] /\ unwinding \in SUBSET Workers
  <2>1. /\ faults \in 0 .. MaxFaults /\ slot \in [Slots -> SnapType] /\ balance \in Int
        /\ batch \in [Workers -> Seq(Slots)] /\ launched \in [Workers -> Nat]
        /\ inflight \in [PageIds -> Nat] /\ unwinding \in SUBSET Workers
    BY DEF IInv, TypeOK
  <2>2. Fails => faults' \in 0 .. MaxFaults
    BY <2>1, BoundsAreNat DEF Fails
  <2>3. NoSnap \in SnapType
    BY DEF NoSnap, SnapType
  <2>4. \A w \in Workers : batch[w] \in Seq(Slots)
    BY <2>1
  <2>5. \A w \in Workers : Len(batch[w]) \in Nat /\ BatchSlots(w) \in SUBSET Slots
    BY <2>4 DEF BatchSlots
  <2> QED
    BY <2>1, <2>2, <2>3, <2>4, <2>5
<1>1. ASSUME NEW w \in Workers, NEW n \in 1 .. MaxBatch,
             NEW items \in [1 .. n -> Item], NEW f \in [1 .. n -> Slots],
             Acquire(w, n, items, f) \/ AcquireFails(w, n, items, f)
      PROVE  IInv'
  <2>1. TakeSnapshots(w, n, items, f) /\ unwinding' \in SUBSET Workers
    BY <1>0, <1>1 DEF Acquire, AcquireFails
  <2> QED BY <2>1, AcquireStep
<1>2. ASSUME NEW w \in Workers, Return(w)
      PROVE  /\ batch' \in [Workers -> Seq(Slots)] /\ launched' \in [Workers -> Nat]
             /\ unwinding' \in SUBSET Workers
  BY <1>0, <1>2 DEF Return
<1>3. ASSUME UNCHANGED <<seqVars, pageVars, inflight, slot>>,
             batch' \in [Workers -> Seq(Slots)], launched' \in [Workers -> Nat],
             unwinding' \in SUBSET Workers, faults' \in 0 .. MaxFaults, balance' \in Int
      PROVE  IInv'
  <2>1. \A p : Holders(p)' = Holders(p)
    BY <1>3 DEF Holders, Outstanding
  <2>2. InFlightExact' /\ SnapshotPagesKept' /\ FreeSlotsEmpty'
    BY <1>3, <2>1 DEF IInv, InFlightExact, SnapshotPagesKept, FreeSlotsEmpty, Outstanding, pageVars
  <2> QED BY <1>0, <1>3, <2>2, ExecuteFrame DEF IInv, TypeOK, pageVars
<1>4. ASSUME NEW w \in Workers, Launch(w) PROVE IInv'
  <2>1. /\ UNCHANGED <<seqVars, pageVars, inflight, slot, batch, unwinding, balance, faults>>
        /\ launched' = [launched EXCEPT ![w] = @ + 1]
    BY <1>4 DEF Launch
  <2> QED BY <1>0, <1>3, <2>1
<1>5. ASSUME NEW w \in Workers, LaunchFails(w) PROVE IInv'
  <2>1. /\ UNCHANGED <<seqVars, pageVars, inflight, slot, batch, launched, balance>>
        /\ Fails /\ unwinding' = unwinding \cup {w}
    BY <1>5 DEF LaunchFails
  <2> QED BY <1>0, <1>3, <2>1
<1>6. ASSUME NEW w \in Workers, Record(w) PROVE IInv'
  <2>1. /\ Return(w) /\ UNCHANGED <<seqVars, pageVars, inflight, balance, faults>>
        /\ slot' = [i \in Slots |-> IF i \in BatchSlots(w) THEN [slot[i] EXCEPT !.ref = "pending"]
                                                          ELSE slot[i]]
    BY <1>6 DEF Record, Pending
  <2>2. slot' \in [Slots -> SnapType]
    BY <1>0, <2>1 DEF SnapType
  <2>3. \A i \in Slots : /\ slot'[i].pages = slot[i].pages
                         /\ slot[i].ref # "none" => slot'[i].ref # "none"
                         /\ slot'[i].ref = "none" => slot[i].ref = "none"
    BY <1>0, <2>1 DEF SnapType
  <2> QED BY <1>0, <1>2, <2>1, <2>2, <2>3, ReleaseNothing, ReleaseStep
<1>7. ASSUME NEW w \in Workers, NEW k \in 1 .. MaxBatch, RecordFails(w, k) PROVE IInv'
  <2> DEFINE q == batch[w]
             B == {q[j] : j \in {i \in DOMAIN q : i < k}}
  <2>1. /\ UNCHANGED <<seqVars, pageVars, inflight, launched>> /\ Fails
        /\ k \in DOMAIN q /\ balance' = balance - k
        /\ slot' = [Pending(B) EXCEPT ![q[k]].ref = "leaked"]
        /\ batch' = [batch EXCEPT ![w] = SubSeq(q, k + 1, Len(q))]
        /\ unwinding' = unwinding \cup {w}
    BY <1>7 DEF RecordFails
  <2>2. q \in Seq(Slots) /\ k \in 1 .. Len(q) /\ q[k] \in Slots /\ balance' \in Int
    BY <1>0, <2>1
  <2>3. SubSeq(q, k + 1, Len(q)) \in Seq(Slots)
    BY <2>2, SubSeqProperties
  <2>4. batch' \in [Workers -> Seq(Slots)]
    BY <1>0, <2>1, <2>3
  <2> HIDE DEF q, B
  <2>5. slot' \in [Slots -> SnapType]
    <3>1. Pending(B) \in [Slots -> SnapType]
      BY <1>0 DEF SnapType, Pending
    <3>2. \A i \in Slots : [Pending(B)[i] EXCEPT !.ref = "leaked"] \in SnapType
      BY <3>1 DEF SnapType
    <3>3. slot' = [i \in Slots |-> IF i = q[k] THEN [Pending(B)[i] EXCEPT !.ref = "leaked"]
                                             ELSE Pending(B)[i]]
      BY <2>1, <2>2, <3>1
    <3> HIDE DEF Pending
    <3> QED BY <3>1, <3>2, <3>3
  <2>6. \A i \in Slots : /\ slot'[i].pages = slot[i].pages
                         /\ slot[i].ref # "none" => slot'[i].ref # "none"
                         /\ slot'[i].ref = "none" => slot[i].ref = "none"
    BY <1>0, <2>1, <2>2 DEF SnapType, Pending
  <2> QED BY <1>0, <2>1, <2>2, <2>4, <2>5, <2>6, ReleaseNothing, ReleaseStep
<1>8. ASSUME DeviceStep PROVE IInv'
  <2>1. UNCHANGED <<seqVars, pageVars, inflight, slot, batch, launched, unwinding, balance, faults>>
    BY <1>8 DEF DeviceStep
  <2> QED BY <1>0, <1>3, <2>1
<1>9. ASSUME NEW D \in SUBSET Slots, ReclaimFails(D) PROVE IInv'
  <2>1. /\ inflight' = Released(D) /\ Fails
        /\ slot' = [i \in Slots |-> IF i \in D THEN NoSnap ELSE slot[i]]
        /\ balance' = balance - Cardinality(D)
        /\ UNCHANGED <<seqVars, pageVars, batch, launched, unwinding>>
    BY <1>9 DEF ReclaimFails
  <2>2. balance' \in Int
    <3>1. IsFiniteSet(Slots)
      BY FS_Interval, BoundsAreNat DEF Slots
    <3>2. Cardinality(D) \in Nat
      BY <3>1, FS_Subset, FS_CardinalityType
    <3> QED BY <1>0, <2>1, <3>2
  <2>3. slot' \in [Slots -> SnapType]
    BY <1>0, <2>1
  <2> QED BY <1>0, <2>1, <2>2, <2>3, ReleaseStep
<1>10. ASSUME Reclaim PROVE IInv'
  <2> DEFINE D == Completed
  <2>1. /\ inflight' = Released(D)
        /\ slot' = [i \in Slots |-> IF i \in D THEN NoSnap ELSE slot[i]]
        /\ balance' = balance - Cardinality(D)
        /\ pstate' = [p \in PageIds |->
                        IF pstate[p] = "retired" /\ logical[p] = 0 /\ inflight'[p] = 0
                        THEN "erased" ELSE pstate[p]]
        /\ UNCHANGED <<seqVars, layerOf, nextPage, logical, batch, launched, unwinding, faults>>
    BY <1>10 DEF Reclaim, Erasable
  <2>2. D \in SUBSET Slots
    BY DEF Completed
  <2> HIDE DEF D
  <2>3. balance' \in Int
    <3>1. IsFiniteSet(Slots)
      BY FS_Interval, BoundsAreNat DEF Slots
    <3>2. Cardinality(D) \in Nat
      BY <2>2, <3>1, FS_Subset, FS_CardinalityType
    <3> QED BY <1>0, <2>1, <3>2
  <2>4. slot' \in [Slots -> SnapType]
    BY <1>0, <2>1
  <2>5. \A p : Holders(p)' = Holders(p) \ D
    BY <2>1, <2>2, <2>4, HoldersAfterRelease
  <2>6. InFlightExact' /\ inflight' \in [PageIds -> Nat]
    BY <2>1, <2>5, ReleaseExact DEF IInv
  <2>7. SnapshotPagesKept'
    <3> SUFFICES ASSUME NEW i \in Outstanding', NEW p \in slot'[i].pages
                 PROVE  pstate'[p] \in {"live", "retired"}
      BY DEF SnapshotPagesKept
    <3>1. i \in Slots /\ slot'[i] = slot[i] /\ i \in Outstanding /\ p \in PageIds
      BY <1>0, <2>1 DEF Outstanding, NoSnap, SnapType
    <3>2. i \in Holders(p)'
      BY DEF Holders
    <3>3. inflight'[p] # 0
      <4>1. IsFiniteSet(Holders(p)')
        BY <2>5, HoldersFinite, FS_Difference
      <4>2. inflight'[p] = Cardinality(Holders(p)')
        BY <2>6, <3>1 DEF InFlightExact
      <4> QED BY <3>2, <4>1, <4>2, FS_EmptySet
    <3> QED BY <2>1, <3>1, <3>3 DEF IInv, SnapshotPagesKept
  <2>8. FreeSlotsEmpty'
    BY <2>1 DEF IInv, FreeSlotsEmpty, NoSnap
  <2>9. pstate' \in [PageIds -> {"none", "live", "retired", "erased"}]
    BY <2>1 DEF IInv, TypeOK
  <2>10. \A p \in PageIds : \/ pstate'[p] = pstate[p]
                            \/ pstate[p] = "retired" /\ pstate'[p] = "erased"
    <3> TAKE p \in PageIds
    <3>1. CASE pstate[p] = "retired" /\ logical[p] = 0 /\ inflight'[p] = 0
      <4>1. pstate'[p] = "erased"
        BY <2>1, <3>1
      <4> QED BY <3>1, <4>1
    <3>2. CASE ~(pstate[p] = "retired" /\ logical[p] = 0 /\ inflight'[p] = 0)
      <4>1. pstate'[p] = pstate[p]
        BY <2>1, <3>2
      <4> QED BY <4>1
    <3> QED BY <3>1, <3>2
  <2> QED
    BY <1>0, <2>1, <2>3, <2>4, <2>6, <2>7, <2>8, <2>9, <2>10, ExecuteFrame
<1>11. ASSUME NEW w \in Workers, Unwind(w) PROVE IInv'
  <2> DEFINE D == BatchSlots(w)
  <2>1. /\ inflight' = Released(D) /\ Return(w) /\ UNCHANGED faults
        /\ slot' = [i \in Slots |-> IF i \in D THEN NoSnap ELSE slot[i]]
        /\ balance' = balance - Len(batch[w])
        /\ UNCHANGED <<seqVars, pageVars>>
    BY <1>11 DEF Unwind
  <2>2. D \in SUBSET Slots /\ balance' \in Int
    BY <1>0, <2>1
  <2> HIDE DEF D
  <2>3. slot' \in [Slots -> SnapType]
    BY <1>0, <2>1
  <2> QED BY <1>0, <1>2, <2>1, <2>2, <2>3, ReleaseStep
<1> QED
  BY <1>1, <1>4, <1>5, <1>6, <1>7, <1>8, <1>9, <1>10, <1>11 DEF ExecuteNext

---------------------------------------------------------------------------
(* Theorems. *)

LEMMA Invariance == Spec => []IInv
<1>1. ASSUME IInv, UNCHANGED vars PROVE IInv'
  <2>1. UNCHANGED <<seqVars, pageVars, inflight, slot, batch, launched, unwinding, faults, balance>>
    BY <1>1 DEF vars, execVars
  <2>2. \A p : Holders(p)' = Holders(p)
    BY <2>1 DEF Holders, Outstanding
  <2>3. InFlightExact' /\ SnapshotPagesKept' /\ FreeSlotsEmpty'
    BY <1>1, <2>1, <2>2 DEF IInv, InFlightExact, SnapshotPagesKept, FreeSlotsEmpty, Outstanding, pageVars
  <2> QED BY <1>1, <2>1, <2>3, ExecuteFrame DEF IInv, TypeOK, pageVars
<1>2. IInv /\ [Next]_vars => IInv'
  BY <1>1, OwnershipStep, ExecuteStep DEF Next
<1> QED BY InitIInv, <1>2, PTL DEF Spec

\* Types: counters never go negative, so neither remove nor the release of a
\* snapshot meets the underflow the code checks for.
THEOREM TypeCorrect == Spec => []TypeOK
<1>1. IInv => TypeOK
  BY DEF IInv
<1> QED BY Invariance, <1>1, PTL

\* No sequence ever references an unregistered or retired page, with any failures.
THEOREM ReferencesResolve == Spec => []NoDanglingReference
<1>1. IInv => NoDanglingReference
  BY DEF IInv
<1> QED BY Invariance, <1>1, PTL

\* logical_refs never falls below the references that exist.
THEOREM LogicalCounted == Spec => []LogicalRefsCover
<1>1. IInv => LogicalRefsCover
  BY DEF IInv
<1> QED BY Invariance, <1>1, PTL

\* in_flight_refs is the number of snapshots that hold the page.
THEOREM InFlightCounted == Spec => []InFlightExact
<1>1. IInv => InFlightExact
  BY DEF IInv
<1> QED BY Invariance, <1>1, PTL

\* A page some snapshot holds is never erased.
THEOREM HeldPagesKept == Spec => []SnapshotPagesKept
<1>1. IInv => SnapshotPagesKept
  BY DEF IInv
<1> QED BY Invariance, <1>1, PTL

---------------------------------------------------------------------------
(* The resolver implements SharedPages, and so inherits what is proved     *)
(* there.  Each action maps to the abstract action of the same effect on   *)
(* references and snapshots, or to a stutter.                              *)

SameOwners == \A p \in PageIds : Observers(p)' = Observers(p)
SameReaders == \A p \in PageIds : Holders(p)' = Holders(p)

LEMMA Stutter ==
  ASSUME UNCHANGED pstate, SameOwners, SameReaders
  PROVE  UNCHANGED Sharing!vars
BY DEF SameOwners, SameReaders, Sharing!vars

LEMMA OwnersFrame == ASSUME UNCHANGED <<live, refs>> PROVE SameOwners
BY DEF SameOwners, Observers

LEMMA ReadersFrame == ASSUME UNCHANGED slot PROVE SameReaders
BY DEF SameReaders, Holders, Outstanding

LEMMA InitMaps == Init => Sharing!Init
<1> SUFFICES ASSUME Init PROVE Sharing!Init
  OBVIOUS
<1>1. \A p \in PageIds : Observers(p) = {} /\ Holders(p) = {}
  BY DEF Init, Observers, Holders, Outstanding, NoSnap
<1> QED BY <1>1 DEF Init, Sharing!Init

\* A page handed out for the first time has no owner yet.
LEMMA PublishMaps ==
  ASSUME IInv, NEW s \in Seqs, NEW l \in Layers, NEW o \in Outcomes, Publish(s, l, o)
  PROVE  Sharing!Next
<1> DEFINE q == nextPage
<1>1. /\ q \in PageIds /\ s \in live
      /\ pstate' = [pstate EXCEPT ![q] = "live"]
      /\ refs' = [refs EXCEPT ![s] = @ \cup {q}]
      /\ UNCHANGED <<live, slot>>
  BY DEF Publish, execVars
<1>2. pstate[q] = "none" /\ \A t \in Seqs : q \notin refs[t]
  BY <1>1 DEF IInv, FreshUnused, TypeOK
<1>3. \A p \in PageIds : Observers(p)' = IF p = q THEN {s} ELSE Observers(p)
  BY <1>1, <1>2 DEF Observers, IInv, TypeOK
<1>4. [p \in PageIds |-> Observers(p)]' = [[p \in PageIds |-> Observers(p)] EXCEPT ![q] = {s}]
  BY <1>1, <1>3
<1>5. UNCHANGED [p \in PageIds |-> Holders(p)]
  BY <1>1, ReadersFrame DEF SameReaders
<1>6. Sharing!Publish(q, s)
  BY <1>1, <1>2, <1>4, <1>5 DEF Sharing!Publish
<1> QED BY <1>1, <1>6 DEF Sharing!Next

LEMMA CopyMaps ==
  ASSUME IInv, NEW a \in Seqs, NEW d \in Seqs, Copy(a, d)
  PROVE  Sharing!Next
<1>1. /\ a \in live /\ a # d /\ live' = live \cup {d}
      /\ refs' = [refs EXCEPT ![d] = refs[a]]
      /\ UNCHANGED <<pstate, slot>>
  BY DEF Copy, CanCopy, execVars
<1>2. \A p \in PageIds : Observers(p)' = IF a \in Observers(p) THEN Observers(p) \cup {d}
                                                               ELSE Observers(p) \ {d}
  BY <1>1 DEF Observers, IInv, TypeOK
<1>3. UNCHANGED [p \in PageIds |-> Holders(p)]
  BY <1>1, ReadersFrame DEF SameReaders
<1>4. Sharing!Share(a, d)
  BY <1>1, <1>2, <1>3 DEF Sharing!Share
<1> QED BY <1>4 DEF Sharing!Next

\* The pages remove retires are owned by nobody else: their counted reference
\* is the last, and the count covers every sequence that references the page.
LEMMA LastIsAlone ==
  ASSUME IInv, NEW s \in live, NEW p \in LastReferenced(s)
  PROVE  p \in PageIds /\ Observers(p) = {s}
<1>1. p \in PageIds /\ s \in Observers(p) /\ logical[p] = 1
  BY DEF LastReferenced, Observers, IInv, TypeOK
<1>2. /\ IsFiniteSet(Observers(p)) /\ Cardinality(Observers(p)) \in Nat
      /\ Cardinality(Observers(p)) <= 1
  BY <1>1, ObserversFinite DEF IInv, TypeOK, LogicalRefsCover
<1>3. /\ IsFiniteSet(Observers(p) \ {s})
      /\ Cardinality(Observers(p) \ {s}) = Cardinality(Observers(p)) - 1
  BY <1>1, <1>2, FS_RemoveElement
<1>4. Cardinality(Observers(p) \ {s}) \in Nat
  BY <1>3, FS_CardinalityType
<1>5. Cardinality(Observers(p) \ {s}) = 0
  BY <1>2, <1>3, <1>4
<1>6. Observers(p) \ {s} = {}
  BY <1>3, <1>5, FS_EmptySet
<1> QED BY <1>1, <1>6

LEMMA RemoveMaps ==
  ASSUME IInv, NEW s \in Seqs, Remove(s)
  PROVE  Sharing!Next
<1> DEFINE R == LastReferenced(s)
<1>1. /\ s \in live /\ live' = live \ {s}
      /\ refs' = [refs EXCEPT ![s] = {}]
      /\ pstate' = [p \in PageIds |-> IF p \in R THEN "retired" ELSE pstate[p]]
      /\ UNCHANGED slot
  BY DEF Remove, execVars
<1>2. \A p \in PageIds : Observers(p)' = Observers(p) \ {s}
  BY <1>1 DEF Observers, IInv, TypeOK
<1>3. UNCHANGED [p \in PageIds |-> Holders(p)]
  BY <1>1, ReadersFrame DEF SameReaders
<1>4. \A p \in R : p \in PageIds /\ Observers(p) = {s}
  BY <1>1, LastIsAlone
<1> HIDE DEF R
<1>5. R \in SUBSET PageIds /\ R \subseteq Sharing!LastOwned(s)
  BY <1>4 DEF Sharing!LastOwned
<1>6. Sharing!Drop(s, R)
  BY <1>1, <1>2, <1>3, <1>5 DEF Sharing!Drop
<1> QED BY <1>5, <1>6 DEF Sharing!Next

LEMMA AcquireMaps ==
  ASSUME IInv, NEW w \in Workers, NEW n \in 1 .. MaxBatch,
         NEW items \in [1 .. n -> Item], NEW f \in [1 .. n -> Slots], TakeSnapshots(w, n, items, f)
  PROVE  Sharing!Next
<1> DEFINE T == {f[j] : j \in 1 .. n}
           item(i) == items[CHOOSE j \in 1 .. n : f[j] = i]
           snap(i) == Snapshot(item(i)[1], item(i)[2])
           held == [i \in Slots |-> IF i \in T THEN snap(i).pages ELSE {}]
<1>1. /\ \A j \in 1 .. n : items[j][1] \in disp
      /\ T \cap Outstanding = {} /\ T \subseteq Slots
      /\ slot' = [i \in Slots |-> IF i \in T THEN snap(i) ELSE slot[i]]
      /\ UNCHANGED <<live, refs, pstate>>
  BY DEF TakeSnapshots, seqVars, pageVars
<1>2. \A i \in T : item(i)[1] \in disp /\ item(i)[1] \in Seqs
  BY <1>1 DEF Item
<1>3. \A i \in T : snap(i).ref = "held"
  BY DEF Snapshot
<1>4. \A i \in T : snap(i).pages \in SUBSET Sharing!Readable
  <2> SUFFICES ASSUME NEW i \in T, NEW p \in snap(i).pages PROVE p \in Sharing!Readable
    OBVIOUS
  <2>1. p \in refs[item(i)[1]]
    BY DEF Snapshot, LayerPages
  <2>2. p \in PageIds /\ item(i)[1] \in Observers(p)
    BY <1>2, <2>1 DEF Observers, IInv, TypeOK
  <2> QED BY <2>2 DEF Sharing!Readable
<1> HIDE DEF T, snap
<1>5. held \in [Slots -> SUBSET Sharing!Readable]
  BY <1>4
<1>6. \A p \in PageIds : Holders(p)' = Holders(p) \cup {i \in Slots : p \in held[i]}
  BY <1>1, <1>3 DEF Holders, Outstanding
<1>7. \A i \in Slots : held[i] # {} => \A p \in PageIds : i \notin Holders(p)
  BY <1>1 DEF Holders
<1> HIDE DEF held
<1>8. UNCHANGED [p \in PageIds |-> Observers(p)]
  BY <1>1, OwnersFrame DEF SameOwners
<1>9. Sharing!Read(held)
  BY <1>1, <1>6, <1>7, <1>8 DEF Sharing!Read, Sharing!Idle
<1> QED BY <1>5, <1>9 DEF Sharing!Next

\* Freeing the slots of D is the end of those readers; no page is erased.
LEMMA ReleaseMaps ==
  ASSUME IInv, NEW D \in SUBSET Slots, NEW E \in SUBSET PageIds,
         UNCHANGED <<live, refs>>,
         pstate' = [p \in PageIds |-> IF p \in E THEN "erased" ELSE pstate[p]],
         \A p \in E : pstate[p] = "retired" /\ Holders(p)' = {},
         \A p \in PageIds : Holders(p)' = Holders(p) \ D
  PROVE  Sharing!Next
<1>1. UNCHANGED [p \in PageIds |-> Observers(p)]
  BY OwnersFrame DEF SameOwners
<1>2. \A p \in E : Observers(p) = {}
  BY DEF Observers, IInv, NoDanglingReference
<1>3. Sharing!Collect(D, E)
  BY <1>1, <1>2 DEF Sharing!Collect, Sharing!Collectable
<1> QED BY <1>3 DEF Sharing!Next

LEMMA OwnershipMaps ==
  ASSUME IInv, OwnershipNext
  PROVE  Sharing!Next \/ UNCHANGED Sharing!vars
<1>1. ASSUME NEW s \in Seqs, Create(s) PROVE UNCHANGED Sharing!vars
  <2>1. /\ live' = live \cup {s} /\ refs[s] = {} /\ UNCHANGED <<refs, pstate, slot>>
    BY <1>1 DEF Create, IInv, DeadSeqsEmpty, pageVars, execVars
  <2>2. SameOwners
    BY <2>1 DEF SameOwners, Observers
  <2> QED BY <2>1, <2>2, ReadersFrame, Stutter
<1>2. ASSUME NEW s \in Seqs, NEW l \in Layers, NEW o \in Outcomes, Publish(s, l, o)
      PROVE  Sharing!Next
  BY <1>2, PublishMaps
<1>3. ASSUME UNCHANGED <<live, refs, pstate, slot>> PROVE UNCHANGED Sharing!vars
  BY <1>3, OwnersFrame, ReadersFrame, Stutter
<1>4. ASSUME NEW s \in Seqs, NEW l \in Layers, NEW o \in Outcomes, StageActive(s, l, o)
      PROVE  UNCHANGED Sharing!vars
  BY <1>3, <1>4 DEF StageActive, seqVars, pageVars, execVars
<1>5. ASSUME NEW a \in Seqs, NEW d \in Seqs, Copy(a, d) PROVE Sharing!Next
  BY <1>5, CopyMaps
<1>6. ASSUME NEW a \in Seqs, NEW d \in Seqs, NEW k \in Layers, NEW point \in Points,
             CopyFails(a, d, k, point)
      PROVE  UNCHANGED Sharing!vars
  BY <1>3, <1>6 DEF CopyFails, seqVars, pageVars, execVars
<1>7. ASSUME NEW s \in Seqs, Cancel(s) PROVE UNCHANGED Sharing!vars
  BY <1>3, <1>7 DEF Cancel, pageVars, execVars
<1>8. ASSUME NEW s \in Seqs, Remove(s) PROVE Sharing!Next
  BY <1>8, RemoveMaps
<1>9. ASSUME NEW s \in Seqs, NEW lo \in 0 .. MaxTokens, NEW hi \in 0 .. MaxTokens,
             NEW delta \in {-1, 1}, Shift(s, lo, hi, delta)
      PROVE  UNCHANGED Sharing!vars
  BY <1>3, <1>9 DEF Shift, pageVars, execVars
<1> QED
  BY <1>1, <1>2, <1>4, <1>5, <1>6, <1>7, <1>8, <1>9 DEF OwnershipNext

LEMMA ExecuteMaps ==
  ASSUME IInv, IInv', ExecuteNext
  PROVE  Sharing!Next \/ UNCHANGED Sharing!vars
<1>0. /\ slot \in [Slots -> SnapType] /\ slot' \in [Slots -> SnapType]
      /\ \A w \in Workers : batch[w] \in Seq(Slots)
  BY DEF IInv, TypeOK
<1>1. ASSUME NEW w \in Workers, NEW n \in 1 .. MaxBatch,
             NEW items \in [1 .. n -> Item], NEW f \in [1 .. n -> Slots],
             Acquire(w, n, items, f) \/ AcquireFails(w, n, items, f)
      PROVE  Sharing!Next
  BY <1>1, AcquireMaps DEF Acquire, AcquireFails
<1>2. ASSUME NEW D \in SUBSET Slots, UNCHANGED <<live, refs, pstate>>,
             \A i \in Slots \cap D : slot'[i] = NoSnap,
             \A i \in Slots \ D : slot'[i].pages = slot[i].pages
                               /\ (slot[i].ref # "none" => slot'[i].ref # "none")
      PROVE  Sharing!Next
  <2>1. \A p \in PageIds : Holders(p)' = Holders(p) \ D
    BY <1>0, <1>2, HoldersAfterRelease
  <2> DEFINE E == {}
  <2>2. /\ E \in SUBSET PageIds /\ \A p \in E : pstate[p] = "retired" /\ Holders(p)' = {}
        /\ pstate' = [p \in PageIds |-> IF p \in E THEN "erased" ELSE pstate[p]]
    BY <1>2 DEF IInv, TypeOK
  <2> HIDE DEF E
  <2> QED BY <1>2, <2>1, <2>2, ReleaseMaps
<1>3. ASSUME UNCHANGED <<live, refs, pstate, slot>> PROVE UNCHANGED Sharing!vars
  BY <1>3, OwnersFrame, ReadersFrame, Stutter
<1>4. ASSUME NEW w \in Workers, Launch(w) PROVE UNCHANGED Sharing!vars
  BY <1>3, <1>4 DEF Launch, seqVars, pageVars
<1>5. ASSUME NEW w \in Workers, LaunchFails(w) PROVE UNCHANGED Sharing!vars
  BY <1>3, <1>5 DEF LaunchFails, seqVars, pageVars
<1>6. ASSUME NEW w \in Workers, Record(w) PROVE Sharing!Next
  <2>1. /\ slot' = [i \in Slots |-> IF i \in BatchSlots(w) THEN [slot[i] EXCEPT !.ref = "pending"]
                                                          ELSE slot[i]]
        /\ UNCHANGED <<live, refs, pstate>>
    BY <1>6 DEF Record, Pending, seqVars, pageVars
  <2>2. \A i \in Slots : /\ slot'[i].pages = slot[i].pages
                         /\ slot[i].ref # "none" => slot'[i].ref # "none"
    BY <1>0, <2>1 DEF SnapType
  <2> DEFINE D == {}
  <2>3. D \in SUBSET Slots /\ \A i \in Slots \cap D : slot'[i] = NoSnap
    OBVIOUS
  <2>4. UNCHANGED <<live, refs, pstate>>
    BY <2>1
  <2> HIDE DEF D
  <2> QED BY <1>2, <2>2, <2>3, <2>4
<1>7. ASSUME NEW w \in Workers, NEW k \in 1 .. MaxBatch, RecordFails(w, k) PROVE Sharing!Next
  <2> DEFINE q == batch[w]
             B == {q[j] : j \in {i \in DOMAIN q : i < k}}
  <2>1. /\ slot' = [Pending(B) EXCEPT ![q[k]].ref = "leaked"]
        /\ UNCHANGED <<live, refs, pstate>>
    BY <1>7 DEF RecordFails, seqVars, pageVars
  <2> HIDE DEF q, B
  <2>2. \A i \in Slots : /\ slot'[i].pages = slot[i].pages
                         /\ slot[i].ref # "none" => slot'[i].ref # "none"
    BY <1>0, <2>1 DEF SnapType, Pending
  <2> DEFINE D == {}
  <2>3. D \in SUBSET Slots /\ \A i \in Slots \cap D : slot'[i] = NoSnap
    OBVIOUS
  <2>4. UNCHANGED <<live, refs, pstate>>
    BY <2>1
  <2> HIDE DEF D
  <2> QED BY <1>2, <2>2, <2>3, <2>4
<1>8. ASSUME DeviceStep PROVE UNCHANGED Sharing!vars
  BY <1>3, <1>8 DEF DeviceStep, seqVars, pageVars
<1>9. ASSUME Reclaim PROVE Sharing!Next
  <2> DEFINE D == Completed
             E == {p \in PageIds : Erasable(p)}
  <2>1. /\ slot' = [i \in Slots |-> IF i \in D THEN NoSnap ELSE slot[i]]
        /\ pstate' = [p \in PageIds |-> IF p \in E THEN "erased" ELSE pstate[p]]
        /\ UNCHANGED <<live, refs>>
    BY <1>9 DEF Reclaim, seqVars
  <2>2. D \in SUBSET Slots
    BY DEF Completed
  <2> HIDE DEF D
  <2>3. \A p \in PageIds : Holders(p)' = Holders(p) \ D
    BY <1>0, <2>1, HoldersAfterRelease
  <2>4. \A p \in E : pstate[p] = "retired" /\ Holders(p)' = {}
    <3> SUFFICES ASSUME NEW p \in E PROVE pstate[p] = "retired" /\ Holders(p)' = {}
      OBVIOUS
    <3>1. p \in PageIds /\ pstate[p] = "retired" /\ inflight'[p] = 0
      BY DEF Erasable
    <3>2. Cardinality(Holders(p)') = 0
      BY <3>1 DEF IInv, InFlightExact
    <3>3. IsFiniteSet(Holders(p)')
      BY <2>3, <3>1, HoldersFinite, FS_Difference
    <3> QED BY <3>1, <3>2, <3>3, FS_EmptySet
  <2>5. E \in SUBSET PageIds
    OBVIOUS
  <2> HIDE DEF E
  <2> QED BY <2>1, <2>2, <2>3, <2>4, <2>5, ReleaseMaps
<1>10. ASSUME NEW D \in SUBSET Slots, ReclaimFails(D) PROVE Sharing!Next
  <2>1. /\ slot' = [i \in Slots |-> IF i \in D THEN NoSnap ELSE slot[i]]
        /\ UNCHANGED <<live, refs, pstate>>
    BY <1>10 DEF ReclaimFails, seqVars, pageVars
  <2>2. \A i \in Slots \ D : /\ slot'[i].pages = slot[i].pages
                             /\ slot[i].ref # "none" => slot'[i].ref # "none"
    BY <2>1
  <2> QED BY <1>2, <2>1, <2>2
<1>11. ASSUME NEW w \in Workers, Unwind(w) PROVE Sharing!Next
  <2> DEFINE D == BatchSlots(w)
  <2>1. /\ slot' = [i \in Slots |-> IF i \in D THEN NoSnap ELSE slot[i]]
        /\ UNCHANGED <<live, refs, pstate>>
    BY <1>11 DEF Unwind, seqVars, pageVars
  <2>2. D \in SUBSET Slots
    BY <1>0 DEF BatchSlots
  <2> HIDE DEF D
  <2> QED BY <1>2, <2>1, <2>2
<1> QED
  BY <1>1, <1>4, <1>5, <1>6, <1>7, <1>8, <1>9, <1>10, <1>11 DEF ExecuteNext

\* The resolver implements page sharing: in particular a retired page is never
\* referenced, snapshotted or registered again, whatever calls fail.
THEOREM Refinement == Spec => ImplementsSharing
<1>1. IInv /\ IInv' /\ [Next]_vars => [Sharing!Next]_(Sharing!vars)
  <2> SUFFICES ASSUME IInv, IInv', [Next]_vars PROVE Sharing!Next \/ UNCHANGED Sharing!vars
    OBVIOUS
  <2>1. CASE UNCHANGED vars
    <3>1. UNCHANGED <<live, refs, pstate, slot>>
      BY <2>1 DEF vars, seqVars, pageVars, execVars
    <3> QED BY <3>1, OwnersFrame, ReadersFrame, Stutter
  <2> QED BY <2>1, OwnershipMaps, ExecuteMaps DEF Next
<1> QED
  BY Invariance, InitMaps, <1>1, PTL DEF Spec, ImplementsSharing, Sharing!Spec

---------------------------------------------------------------------------
(* What SharedPages promises, of the resolver. *)

\* A page a sequence references is live, and one a snapshot holds still exists,
\* leaked snapshots included and whatever calls fail.
THEOREM UsedKept == Spec => []Sharing!UsedPagesKept
<1>1. IInv => Sharing!UsedPagesKept
  <2> SUFFICES ASSUME IInv, NEW p \in PageIds
               PROVE  /\ Observers(p) # {} => pstate[p] = "live"
                      /\ Holders(p) # {} => pstate[p] \in {"live", "retired"}
    BY DEF Sharing!UsedPagesKept
  <2> QED
    BY DEF IInv, NoDanglingReference, SnapshotPagesKept, Observers, Holders, TypeOK
<1> QED
  BY <1>1, Invariance, PTL

LEMMA RetiredStays ==
  ASSUME IInv, Sharing!Next, NEW p \in PageIds, pstate[p] \in {"retired", "erased"}, Observers(p) = {}
  PROVE  pstate'[p] \in {"retired", "erased"} /\ Observers(p)' = {} /\ Holders(p)' \subseteq Holders(p)
<1>0. pstate \in [PageIds -> {"none", "live", "retired", "erased"}] /\ p \notin Sharing!Readable
  BY DEF IInv, TypeOK, Sharing!Readable
<1>1. ASSUME NEW o \in PageIds, NEW s \in Seqs, Sharing!Publish(o, s)
      PROVE  pstate'[p] \in {"retired", "erased"} /\ Observers(p)' = {} /\ Holders(p)' \subseteq Holders(p)
  BY <1>0, <1>1 DEF Sharing!Publish
<1>2. ASSUME NEW a \in Seqs, NEW d \in Seqs, Sharing!Share(a, d)
      PROVE  pstate'[p] \in {"retired", "erased"} /\ Observers(p)' = {} /\ Holders(p)' \subseteq Holders(p)
  BY <1>0, <1>2 DEF Sharing!Share
<1>3. ASSUME NEW s \in Seqs, NEW R \in SUBSET PageIds, Sharing!Drop(s, R)
      PROVE  pstate'[p] \in {"retired", "erased"} /\ Observers(p)' = {} /\ Holders(p)' \subseteq Holders(p)
  BY <1>0, <1>3 DEF Sharing!Drop
<1>4. ASSUME NEW held \in [Slots -> SUBSET Sharing!Readable], Sharing!Read(held)
      PROVE  pstate'[p] \in {"retired", "erased"} /\ Observers(p)' = {} /\ Holders(p)' \subseteq Holders(p)
  BY <1>0, <1>4 DEF Sharing!Read
<1>5. ASSUME NEW D \in SUBSET Slots, NEW E \in SUBSET PageIds, Sharing!Collect(D, E)
      PROVE  pstate'[p] \in {"retired", "erased"} /\ Observers(p)' = {} /\ Holders(p)' \subseteq Holders(p)
  BY <1>0, <1>5 DEF Sharing!Collect
<1> QED
  BY <1>1, <1>2, <1>3, <1>4, <1>5 DEF Sharing!Next

\* Retirement is final: a retired page gets no owner and no new reader and never
\* comes back, whatever calls fail.
THEOREM RetirementFinal == Spec => Sharing!RetiredIsFinal
<1>1. IInv /\ [Sharing!Next]_(Sharing!vars) => [Sharing!StaysRetired]_(Sharing!vars)
  <2> SUFFICES ASSUME IInv, Sharing!Next PROVE Sharing!StaysRetired
    OBVIOUS
  <2> SUFFICES ASSUME NEW p \in PageIds, pstate[p] \in {"retired", "erased"}
               PROVE  /\ pstate'[p] \in {"retired", "erased"}
                      /\ Observers(p)' = {} /\ Holders(p)' \subseteq Holders(p)
    BY DEF Sharing!StaysRetired
  <2>1. Observers(p) = {}
    BY DEF IInv, NoDanglingReference, Observers
  <2> QED
    BY <2>1, RetiredStays
<1> QED
  BY <1>1, Invariance, Refinement, PTL DEF ImplementsSharing, Sharing!Spec, Sharing!RetiredIsFinal

-----------------------------------------------------------------------------
(***************************************************************************)
(* What the CUDA resolver keeps exactly while no CUDA call has failed, for *)
(* any number of sequences, layers, workers, pages and snapshots: counts   *)
(* equal what they count, every allocation has an owner, tables list the   *)
(* pages of their layer, and a page is erased only after the kernels that  *)
(* read it.  One inductive invariant for each part of the state, under the *)
(* calls it needs; the one on raw pointers holds with any failures.        *)
(***************************************************************************)

\* A step after which no CUDA call has failed is not a failing one.
LEMMA NoFailure == ASSUME IInv, faults' = 0 PROVE ~Fails
<1>1. faults \in Nat
  BY BoundsAreNat DEF IInv, TypeOK
<1> QED BY <1>1 DEF Fails

\* Steps that change ownership leave batches alone and count their failures.
LEMMA OwnershipFaults ==
  ASSUME OwnershipNext
  PROVE  UNCHANGED execVars /\ (faults' = faults \/ Fails)
<1> DEFINE G == UNCHANGED execVars /\ (faults' = faults \/ Fails)
<1>1. ASSUME NEW s \in Seqs, Create(s) \/ Cancel(s) \/ Remove(s) PROVE G
  BY <1>1 DEF Create, Cancel, Remove
<1>2. ASSUME NEW s \in Seqs, NEW l \in Layers, NEW o \in Outcomes,
             Publish(s, l, o) \/ StageActive(s, l, o)
      PROVE  G
  <2>1. CASE Publish(s, l, o)
    BY <2>1 DEF Publish
  <2>2. CASE StageActive(s, l, o)
    BY <2>2 DEF StageActive
  <2> QED BY <1>2, <2>1, <2>2
<1>3. ASSUME NEW a \in Seqs, NEW d \in Seqs, Copy(a, d) PROVE G
  BY <1>3 DEF Copy
<1>4. ASSUME NEW a \in Seqs, NEW d \in Seqs, NEW k \in Layers, NEW point \in Points,
             CopyFails(a, d, k, point)
      PROVE  G
  BY <1>4 DEF CopyFails
<1>5. ASSUME NEW s \in Seqs, NEW lo \in 0 .. MaxTokens, NEW hi \in 0 .. MaxTokens,
             NEW delta \in {-1, 1}, Shift(s, lo, hi, delta)
      PROVE  G
  BY <1>5 DEF Shift
<1> HIDE DEF G
<1>6. G
  BY <1>1, <1>2, <1>3, <1>4, <1>5 DEF OwnershipNext
<1> QED BY <1>6 DEF G

\* The number of failed calls never falls back.
LEMMA FaultsGrow == ASSUME IInv, [Next]_vars, faults' = 0 PROVE faults = 0
<1>1. ASSUME ExecuteNext PROVE faults' = faults \/ Fails
  <2>1. ASSUME NEW w \in Workers, NEW n \in 1 .. MaxBatch, NEW items \in [1 .. n -> Item],
               NEW f \in [1 .. n -> Slots], Acquire(w, n, items, f) \/ AcquireFails(w, n, items, f)
        PROVE  faults' = faults
    BY <2>1 DEF Acquire, AcquireFails, TakeSnapshots
  <2>2. ASSUME NEW w \in Workers, Launch(w) \/ LaunchFails(w) \/ Record(w) \/ Unwind(w)
        PROVE  faults' = faults \/ Fails
    BY <2>2 DEF Launch, LaunchFails, Record, Unwind
  <2>3. ASSUME NEW w \in Workers, NEW k \in 1 .. MaxBatch, RecordFails(w, k) PROVE Fails
    BY <2>3 DEF RecordFails
  <2>4. DeviceStep \/ Reclaim => faults' = faults
    BY DEF DeviceStep, Reclaim
  <2>5. ASSUME NEW D \in SUBSET Slots, ReclaimFails(D) PROVE Fails
    BY <2>5 DEF ReclaimFails
  <2> QED BY <1>1, <2>1, <2>2, <2>3, <2>4, <2>5 DEF ExecuteNext
<1>2. faults' = faults \/ Fails
  BY <1>1, OwnershipFaults DEF Next, vars
<1> QED BY <1>2, NoFailure

---------------------------------------------------------------------------
(* Snapshots, batches and the device stream. *)

\* The snapshots of a batch are held, and belong to that batch alone.
BatchesHeld ==
  /\ \A w \in Workers : \A i \in BatchSlots(w) : slot[i].ref = "held"
  /\ \A v, w \in Workers : v # w => BatchSlots(v) \cap BatchSlots(w) = {}

\* A batch has its snapshots in increasing slots, so no slot twice.
BatchesAscend ==
  \A w \in Workers : \A j, k \in DOMAIN batch[w] : j < k => batch[w][j] < batch[w][k]

HeldInv == BatchesHeld /\ BatchesAscend

LEMMA InitHeldInv == Init => HeldInv
BY DEF Init, HeldInv, BatchesHeld, BatchesAscend, BatchSlots

\* The slots of a batch are slots.
LEMMA BatchSlotsTyped ==
  ASSUME IInv, NEW w \in Workers
  PROVE  /\ batch[w] \in Seq(Slots) /\ BatchSlots(w) \subseteq Slots
         /\ BatchSlots(w) = {batch[w][j] : j \in 1 .. Len(batch[w])}
BY DEF IInv, TypeOK, BatchSlots

\* What a step that leaves snapshots and batches alone owes the invariant.
LEMMA HeldFrame == ASSUME HeldInv, UNCHANGED <<slot, batch>> PROVE HeldInv'
<1>1. \A w \in Workers : BatchSlots(w)' = BatchSlots(w)
  BY DEF BatchSlots
<1> QED BY <1>1 DEF HeldInv, BatchesHeld, BatchesAscend

\* When the batch of w keeps only the slots of R, those of the others and of R
\* being left as they were.
LEMMA HeldShrinks ==
  ASSUME IInv, HeldInv, NEW w \in Workers, NEW R,
         R \subseteq BatchSlots(w), BatchSlots(w)' = R,
         \A v \in Workers \ {w} : batch'[v] = batch[v],
         \A i \in Slots : slot'[i] = slot[i] \/ i \in BatchSlots(w) \ R \/ slot[i].ref # "held",
         \A j, k \in DOMAIN batch'[w] : j < k => batch'[w][j] < batch'[w][k]
  PROVE  HeldInv'
<1>1. \A v \in Workers : BatchSlots(v) \subseteq Slots
  BY BatchSlotsTyped
<1>2. \A v \in Workers \ {w} : BatchSlots(v)' = BatchSlots(v)
  BY DEF BatchSlots
<1>3. \A v \in Workers \ {w} : BatchSlots(v) \cap BatchSlots(w) = {}
  BY DEF HeldInv, BatchesHeld
<1>4. ASSUME NEW v \in Workers, NEW i \in BatchSlots(v)' PROVE slot'[i].ref = "held"
  <2>1. i \in BatchSlots(v) /\ i \in Slots /\ i \notin BatchSlots(w) \ R
    BY <1>1, <1>2, <1>3
  <2> QED BY <2>1 DEF HeldInv, BatchesHeld
<1>5. \A u, v \in Workers : u # v => BatchSlots(u)' \cap BatchSlots(v)' = {}
  BY <1>2, <1>3 DEF HeldInv, BatchesHeld
<1>6. BatchesAscend'
  BY DEF HeldInv, BatchesAscend
<1> QED BY <1>4, <1>5, <1>6 DEF HeldInv, BatchesHeld

\* The slots a batch takes are as many as its items: they are in increasing order.
LEMMA AscendingSlots ==
  ASSUME NEW n \in Nat, NEW f \in [1 .. n -> Slots],
         \A j, k \in 1 .. n : j < k => f[j] < f[k]
  PROVE  LET T == {f[j] : j \in 1 .. n} IN IsFiniteSet(T) /\ Cardinality(T) = n
<1> DEFINE T == {f[j] : j \in 1 .. n}
<1>1. f \in Surjection(1 .. n, T)
  BY DEF Surjection
<1>2. \A j \in 1 .. n : f[j] \in Int
  BY DEF Slots
<1>3. \A j, k \in 1 .. n : f[j] = f[k] => j = k
  <2> TAKE j, k \in 1 .. n
  <2>1. j < k \/ k < j \/ j = k
    OBVIOUS
  <2> QED BY <1>2, <2>1
<1>4. f \in Injection(1 .. n, T)
  BY <1>1, <1>3 DEF Injection, IsInjective, Surjection
<1>5. IsFiniteSet(1 .. n) /\ Cardinality(1 .. n) = n
  BY FS_Interval
<1> HIDE DEF T
<1>6. IsFiniteSet(T) /\ (Cardinality(T) = Cardinality(1 .. n) <=> f \in Injection(1 .. n, T))
  BY <1>1, <1>5, FS_Surjection
<1> QED BY <1>4, <1>5, <1>6 DEF T

\* What taking snapshots does: the slots of T, n of them, come from none to held.
LEMMA TakenSlots ==
  ASSUME IInv, HeldInv, NEW w \in Workers, NEW n \in 1 .. MaxBatch,
         NEW items \in [1 .. n -> Item], NEW f \in [1 .. n -> Slots],
         TakeSnapshots(w, n, items, f), NEW T, T = {f[j] : j \in 1 .. n}
  PROVE  /\ T \subseteq Slots /\ T \cap Outstanding = {} /\ IsFiniteSet(T) /\ Cardinality(T) = n
         /\ \A i \in T : slot'[i].ref = "held"
         /\ \A i \in Slots \ T : slot'[i] = slot[i]
         /\ \A v \in Workers : BatchSlots(v)' = IF v = w THEN T ELSE BatchSlots(v)
         /\ \A v \in Workers : BatchSlots(v) \subseteq Outstanding /\ (v = w => BatchSlots(v) = {})
         /\ balance' = balance + n /\ UNCHANGED stream
<1> DEFINE item(i) == items[CHOOSE j \in 1 .. n : f[j] = i]
<1>0. n \in Nat
  BY BoundsAreNat
<1>1. /\ batch[w] = <<>> /\ batch' = [batch EXCEPT ![w] = f]
      /\ \A j, k \in 1 .. n : j < k => f[j] < f[k]
      /\ T \cap Outstanding = {}
      /\ slot' = [i \in Slots |-> IF i \in T THEN Snapshot(item(i)[1], item(i)[2]) ELSE slot[i]]
      /\ balance' = balance + n /\ UNCHANGED stream
  BY DEF TakeSnapshots
<1>2. T \in SUBSET Slots /\ (\A i \in T : slot'[i].ref = "held") /\ \A i \in Slots \ T : slot'[i] = slot[i]
  BY <1>1 DEF Snapshot
<1>3. IsFiniteSet(T) /\ Cardinality(T) = n
  BY <1>0, <1>1, AscendingSlots
<1>4. \A v \in Workers : BatchSlots(v)' = IF v = w THEN T ELSE BatchSlots(v)
  <2>1. BatchSlots(w)' = T
    BY <1>0, <1>1 DEF BatchSlots, IInv, TypeOK
  <2>2. \A v \in Workers : v # w => BatchSlots(v)' = BatchSlots(v)
    BY <1>1 DEF BatchSlots, IInv, TypeOK
  <2> QED BY <2>1, <2>2
<1>5. \A v \in Workers : BatchSlots(v) \subseteq Outstanding
  <2>1. \A v \in Workers : BatchSlots(v) \subseteq Slots
    BY BatchSlotsTyped
  <2> QED BY <2>1 DEF HeldInv, BatchesHeld, Outstanding
<1>6. BatchSlots(w) = {}
  BY <1>1 DEF BatchSlots
<1> HIDE DEF item
<1>7. \A v \in Workers : BatchSlots(v) \subseteq Outstanding /\ (v = w => BatchSlots(v) = {})
  BY <1>5, <1>6
<1> QED BY <1>1, <1>2, <1>3, <1>4, <1>7

LEMMA AcquireHeld ==
  ASSUME IInv, HeldInv, NEW w \in Workers, NEW n \in 1 .. MaxBatch,
         NEW items \in [1 .. n -> Item], NEW f \in [1 .. n -> Slots], TakeSnapshots(w, n, items, f)
  PROVE  HeldInv'
<1> DEFINE T == {f[j] : j \in 1 .. n}
<1>1. /\ T \subseteq Slots /\ T \cap Outstanding = {} /\ IsFiniteSet(T) /\ Cardinality(T) = n
      /\ \A i \in T : slot'[i].ref = "held"
      /\ \A i \in Slots \ T : slot'[i] = slot[i]
      /\ \A v \in Workers : BatchSlots(v)' = IF v = w THEN T ELSE BatchSlots(v)
      /\ \A v \in Workers : BatchSlots(v) \subseteq Outstanding /\ (v = w => BatchSlots(v) = {})
      /\ balance' = balance + n /\ UNCHANGED stream
  BY TakenSlots
<1>2. BatchesAscend'
  <2>1. /\ batch' = [batch EXCEPT ![w] = f]
        /\ \A j, k \in 1 .. n : j < k => f[j] < f[k]
    BY DEF TakeSnapshots
  <2> QED BY <2>1 DEF HeldInv, BatchesAscend, IInv, TypeOK
<1> HIDE DEF T
<1>3. ASSUME NEW v \in Workers, NEW i \in BatchSlots(v)' PROVE slot'[i].ref = "held"
  <2>1. CASE v = w
    BY <1>1, <1>3, <2>1
  <2>2. CASE v # w
    <3>1. i \in BatchSlots(v) /\ i \in Slots /\ i \notin T
      BY <1>1, <1>3, <2>2 DEF Outstanding
    <3> QED BY <1>1, <3>1 DEF HeldInv, BatchesHeld
  <2> QED BY <2>1, <2>2
<1>4. \A u, v \in Workers : u # v => BatchSlots(u)' \cap BatchSlots(v)' = {}
  BY <1>1 DEF HeldInv, BatchesHeld
<1> QED BY <1>2, <1>3, <1>4 DEF HeldInv, BatchesHeld

\* The rest of a batch after its k-th snapshot has the later slots.
LEMMA RestOfBatch ==
  ASSUME IInv, HeldInv, NEW w \in Workers, NEW k \in DOMAIN batch[w],
         batch' = [batch EXCEPT ![w] = SubSeq(batch[w], k + 1, Len(batch[w]))]
  PROVE  /\ BatchSlots(w)' = {batch[w][j] : j \in k + 1 .. Len(batch[w])}
         /\ \A v \in Workers \ {w} : batch'[v] = batch[v]
         /\ \A j, m \in DOMAIN batch'[w] : j < m => batch'[w][j] < batch'[w][m]
         /\ \A j \in 1 .. k : batch[w][j] \notin BatchSlots(w)'
<1> DEFINE q == batch[w]
           r == SubSeq(q, k + 1, Len(q))
<1>1. q \in Seq(Slots) /\ k \in 1 .. Len(q) /\ batch'[w] = r
      /\ \A v \in Workers \ {w} : batch'[v] = batch[v]
  BY DEF IInv, TypeOK
<1>2. \A j, m \in 1 .. Len(q) : j < m => q[j] < q[m] /\ q[j] \in Int /\ q[m] \in Int
  <2>1. \A j, m \in DOMAIN q : j < m => q[j] < q[m]
    BY DEF HeldInv, BatchesAscend
  <2>2. DOMAIN q = 1 .. Len(q) /\ \A j \in DOMAIN q : q[j] \in Int
    <3>1. DOMAIN q = 1 .. Len(q) /\ \A j \in DOMAIN q : q[j] \in Slots
      BY <1>1
    <3> QED BY <3>1 DEF Slots
  <2> QED BY <2>1, <2>2
<1>0. Len(q) \in Nat /\ k \in Nat
  BY <1>1
<1> HIDE DEF q
<1>3. /\ r \in Seq(Slots) /\ Len(r) = Len(q) - k
      /\ \A i \in 1 .. Len(q) - k : r[i] = q[k + i]
  BY <1>1, SubSeqProperties
<1> HIDE DEF r
<1>4. DOMAIN r = 1 .. Len(q) - k
  BY <1>3
<1>5. \A j, m \in DOMAIN r : j < m => r[j] < r[m]
  <2> TAKE j, m \in DOMAIN r
  <2> HAVE j < m
  <2>1. k + j \in 1 .. Len(q) /\ k + m \in 1 .. Len(q) /\ k + j < k + m
    BY <1>0, <1>1, <1>4
  <2> QED BY <1>2, <1>3, <1>4, <2>1
<1>6. {r[j] : j \in DOMAIN r} = {q[j] : j \in k + 1 .. Len(q)}
  <2>1. \A j \in DOMAIN r : k + j \in k + 1 .. Len(q) /\ r[j] = q[k + j]
    BY <1>0, <1>3, <1>4
  <2>2. \A j \in k + 1 .. Len(q) : j - k \in DOMAIN r /\ r[j - k] = q[j]
    <3> TAKE j \in k + 1 .. Len(q)
    <3>1. j - k \in 1 .. Len(q) - k /\ k + (j - k) = j
      BY <1>1
    <3> QED BY <1>3, <1>4, <3>1
  <2> QED BY <2>1, <2>2
<1>7. \A j \in 1 .. k : q[j] \notin {q[m] : m \in k + 1 .. Len(q)}
  <2> SUFFICES ASSUME NEW j \in 1 .. k, NEW m \in k + 1 .. Len(q), q[j] = q[m] PROVE FALSE
    OBVIOUS
  <2>1. j \in 1 .. Len(q) /\ m \in 1 .. Len(q) /\ j < m
    BY <1>1
  <2> QED BY <1>2, <2>1
<1>8. BatchSlots(w)' = {r[j] : j \in DOMAIN r}
  BY <1>1 DEF BatchSlots
<1> QED BY <1>1, <1>5, <1>6, <1>7, <1>8 DEF q

LEMMA HeldStep == ASSUME IInv, HeldInv, [Next]_vars PROVE HeldInv'
<1>1. ASSUME UNCHANGED execVars PROVE HeldInv'
  BY <1>1, HeldFrame DEF execVars
<1>2. ASSUME NEW w \in Workers, NEW n \in 1 .. MaxBatch, NEW items \in [1 .. n -> Item],
             NEW f \in [1 .. n -> Slots], Acquire(w, n, items, f) \/ AcquireFails(w, n, items, f)
      PROVE  HeldInv'
  <2>1. TakeSnapshots(w, n, items, f)
    BY <1>2 DEF Acquire, AcquireFails
  <2> QED BY <2>1, AcquireHeld
<1>3. ASSUME NEW w \in Workers, Launch(w) \/ LaunchFails(w) PROVE HeldInv'
  BY <1>3, HeldFrame DEF Launch, LaunchFails
<1>4. ASSUME NEW w \in Workers, Return(w),
             \A i \in Slots : slot'[i] = slot[i] \/ i \in BatchSlots(w)
      PROVE  HeldInv'
  <2>1. /\ batch'[w] = <<>> /\ \A v \in Workers \ {w} : batch'[v] = batch[v]
        /\ BatchSlots(w)' = {}
    BY <1>4 DEF Return, BatchSlots, IInv, TypeOK
  <2>2. \A j, k \in DOMAIN batch'[w] : j < k => batch'[w][j] < batch'[w][k]
    BY <2>1
  <2> QED BY <1>4, <2>1, <2>2, HeldShrinks
<1>5. ASSUME NEW w \in Workers, Record(w) \/ Unwind(w) PROVE HeldInv'
  <2>1. CASE Record(w)
    <3>1. Return(w) /\ \A i \in Slots : slot'[i] = slot[i] \/ i \in BatchSlots(w)
      BY <2>1 DEF Record, Pending
    <3> QED BY <1>4, <3>1
  <2>2. CASE Unwind(w)
    <3>1. Return(w) /\ \A i \in Slots : slot'[i] = slot[i] \/ i \in BatchSlots(w)
      BY <2>2 DEF Unwind
    <3> QED BY <1>4, <3>1
  <2> QED BY <1>5, <2>1, <2>2
<1>6. ASSUME NEW w \in Workers, NEW k \in 1 .. MaxBatch, RecordFails(w, k) PROVE HeldInv'
  <2> DEFINE q == batch[w]
             R == {q[j] : j \in k + 1 .. Len(q)}
             B == {q[j] : j \in {i \in DOMAIN q : i < k}}
  <2>1. /\ k \in DOMAIN q
        /\ slot' = [Pending(B) EXCEPT ![q[k]].ref = "leaked"]
        /\ batch' = [batch EXCEPT ![w] = SubSeq(q, k + 1, Len(q))]
    BY <1>6 DEF RecordFails
  <2>2. /\ BatchSlots(w)' = R
        /\ \A v \in Workers \ {w} : batch'[v] = batch[v]
        /\ \A j, m \in DOMAIN batch'[w] : j < m => batch'[w][j] < batch'[w][m]
        /\ \A j \in 1 .. k : q[j] \notin R
    BY <2>1, RestOfBatch
  <2>3. q \in Seq(Slots) /\ k \in 1 .. Len(q) /\ k \in Nat
    BY <2>1 DEF IInv, TypeOK
  <2>4. R \subseteq BatchSlots(w)
    BY <2>3 DEF BatchSlots
  <2>5. B \cup {q[k]} \subseteq BatchSlots(w) \ R
    <3>1. \A j \in 1 .. k : q[j] \in BatchSlots(w) \ R
      BY <2>2, <2>3 DEF BatchSlots
    <3>2. B \subseteq {q[j] : j \in 1 .. k} /\ q[k] \in {q[j] : j \in 1 .. k}
      BY <2>3
    <3> QED BY <3>1, <3>2
  <2> HIDE DEF R, B
  <2>6. \A i \in Slots : slot'[i] = slot[i] \/ i \in BatchSlots(w) \ R
    BY <2>1, <2>5 DEF Pending
  <2> HIDE DEF q
  <2> QED BY <2>2, <2>4, <2>6, HeldShrinks
<1>7. ASSUME DeviceStep PROVE HeldInv'
  BY <1>7, HeldFrame DEF DeviceStep
<1>8. ASSUME NEW D \in SUBSET Slots, \A i \in D : slot[i].ref = "pending", UNCHANGED batch,
             slot' = [i \in Slots |-> IF i \in D THEN NoSnap ELSE slot[i]]
      PROVE  HeldInv'
  <2>1. \A v \in Workers : BatchSlots(v)' = BatchSlots(v) /\ BatchSlots(v) \subseteq Slots
    BY <1>8, BatchSlotsTyped DEF BatchSlots
  <2>2. \A v \in Workers : \A i \in BatchSlots(v) : slot'[i] = slot[i]
    BY <1>8, <2>1 DEF HeldInv, BatchesHeld
  <2> QED BY <1>8, <2>1, <2>2 DEF HeldInv, BatchesHeld, BatchesAscend
<1>9. ASSUME Reclaim \/ \E D \in SUBSET Slots : ReclaimFails(D) PROVE HeldInv'
  <2>1. \A i \in Completed : i \in Slots /\ slot[i].ref = "pending"
    BY DEF Completed
  <2>2. CASE Reclaim
    <3>1. /\ UNCHANGED batch /\ Completed \in SUBSET Slots
          /\ slot' = [i \in Slots |-> IF i \in Completed THEN NoSnap ELSE slot[i]]
      BY <2>1, <2>2 DEF Reclaim
    <3> QED BY <1>8, <2>1, <3>1
  <2>3. ASSUME NEW D \in SUBSET Slots, ReclaimFails(D) PROVE HeldInv'
    <3>1. /\ UNCHANGED batch /\ D \subseteq Completed
          /\ slot' = [i \in Slots |-> IF i \in D THEN NoSnap ELSE slot[i]]
      BY <2>3 DEF ReclaimFails
    <3> QED BY <1>8, <2>1, <3>1
  <2> QED BY <1>9, <2>2, <2>3
<1>10. CASE OwnershipNext
  <2>1. UNCHANGED execVars
    BY <1>10, OwnershipFaults
  <2> QED BY <1>1, <2>1
<1>11. CASE UNCHANGED vars
  BY <1>1, <1>11 DEF vars
<1>12. CASE ExecuteNext
  BY <1>2, <1>3, <1>5, <1>6, <1>7, <1>9, <1>12 DEF ExecuteNext
<1> QED BY <1>10, <1>11, <1>12 DEF Next

\* Whatever fails, the snapshots of a batch are held and its own.
LEMMA HeldInvariance == Spec => []HeldInv
<1>1. IInv /\ HeldInv /\ [Next]_vars => HeldInv'
  BY HeldStep
<1> QED BY <1>1, InitHeldInv, Invariance, PTL DEF Spec

---------------------------------------------------------------------------
(* Kernels and events on the stream, while no CUDA call has failed. *)

Event(i) == [op |-> "event", slot |-> i]
StreamOps == [op : {"kernel"}, pages : SUBSET PageIds] \cup [op : {"event"}, slot : Slots]

EventAfter(i, j) == \E k \in DOMAIN stream : k > j /\ stream[k] = Event(i)

\* Slots whose batch is about to release them.
Doomed == UNION {BatchSlots(w) : w \in unwinding}

\* The slot i keeps the pages of the j-th operation of the stream: its snapshot
\* is held to get an event, or its event comes later in the stream.
Covers(i, j) ==
  /\ stream[j].pages \subseteq slot[i].pages
  /\ \/ slot[i].ref = "held" /\ i \notin Doomed
     \/ slot[i].ref = "pending" /\ EventAfter(i, j)

\* Every kernel on the device reads pages that some snapshot keeps until then.
KernelsCovered ==
  \A j \in DOMAIN stream : stream[j].op = "kernel" => \E i \in Slots : Covers(i, j)

\* snapshots_acquired - snapshots_released is the number of snapshots held.
BalanceExact == balance = Cardinality(Outstanding)

\* A snapshot that is not pending belongs to a running batch: none has leaked.
HeldBatched ==
  \A i \in Outstanding : slot[i].ref = "pending" \/ \E w \in Workers : i \in BatchSlots(w)

BatchInv ==
  /\ stream \in Seq(StreamOps)
  /\ KernelsCovered /\ BalanceExact /\ HeldBatched

LEMMA InitBatchInv == Init => BatchInv
<1> SUFFICES ASSUME Init PROVE BatchInv
  OBVIOUS
<1>1. stream \in Seq(StreamOps) /\ KernelsCovered
  BY DEF Init, KernelsCovered
<1>2. Outstanding = {}
  BY DEF Init, Outstanding, NoSnap
<1>3. BalanceExact /\ HeldBatched
  BY <1>2, FS_EmptySet DEF Init, BalanceExact, HeldBatched
<1> QED BY <1>1, <1>3 DEF BatchInv

LEMMA OutstandingFinite == IsFiniteSet(Outstanding) /\ Cardinality(Outstanding) \in Nat
<1>1. IsFiniteSet(Slots)
  BY FS_Interval, BoundsAreNat DEF Slots
<1>2. Outstanding \in SUBSET Slots
  BY DEF Outstanding
<1> QED BY <1>1, <1>2, FS_Subset, FS_CardinalityType

\* Snapshots taken for slots without one leave the kernels on the device covered.
LEMMA AcquireBatch ==
  ASSUME IInv, HeldInv, BatchInv, NEW w \in Workers, NEW n \in 1 .. MaxBatch,
         NEW items \in [1 .. n -> Item], NEW f \in [1 .. n -> Slots],
         Acquire(w, n, items, f) \/ AcquireFails(w, n, items, f)
  PROVE  BatchInv'
<1> DEFINE T == {f[j] : j \in 1 .. n}
<1>0. n \in Nat
  BY BoundsAreNat
<1>1. /\ T \subseteq Slots /\ T \cap Outstanding = {} /\ IsFiniteSet(T) /\ Cardinality(T) = n
      /\ \A i \in T : slot'[i].ref = "held"
      /\ \A i \in Slots \ T : slot'[i] = slot[i]
      /\ \A v \in Workers : BatchSlots(v)' = IF v = w THEN T ELSE BatchSlots(v)
      /\ \A v \in Workers : BatchSlots(v) \subseteq Outstanding /\ (v = w => BatchSlots(v) = {})
      /\ balance' = balance + n /\ UNCHANGED stream
  BY TakenSlots DEF Acquire, AcquireFails
<1>2. unwinding' \subseteq unwinding \cup {w} /\ unwinding \subseteq Workers
  BY DEF Acquire, AcquireFails, IInv, TypeOK
<1> HIDE DEF T
<1>3. Doomed' \subseteq Doomed \cup T
  BY <1>1, <1>2 DEF Doomed
<1>4. KernelsCovered'
  <2> SUFFICES ASSUME NEW j \in DOMAIN stream', stream'[j].op = "kernel"
               PROVE  \E i \in Slots : Covers(i, j)'
    BY DEF KernelsCovered
  <2>1. PICK i \in Slots : Covers(i, j)
    BY <1>1 DEF BatchInv, KernelsCovered
  <2>2. i \notin T
    BY <1>1, <2>1 DEF Covers, Outstanding
  <2>3. Covers(i, j)'
    BY <1>1, <1>3, <2>1, <2>2 DEF Covers, EventAfter
  <2> QED BY <2>3
<1>5. Outstanding' = Outstanding \cup T
  BY <1>1 DEF Outstanding
<1>6. BalanceExact'
  <2>1. Cardinality(Outstanding \cup T)
          = Cardinality(Outstanding) + Cardinality(T) - Cardinality(Outstanding \cap T)
    BY <1>1, OutstandingFinite, FS_Union
  <2>2. Cardinality(Outstanding \cap T) = 0
    <3>1. Outstanding \cap T = {}
      BY <1>1
    <3> QED BY <3>1, FS_EmptySet
  <2> QED BY <1>0, <1>1, <1>5, <2>1, <2>2, OutstandingFinite DEF BatchInv, BalanceExact
<1>7. HeldBatched'
  <2> SUFFICES ASSUME NEW i \in Outstanding', slot'[i].ref # "pending"
               PROVE  \E v \in Workers : i \in BatchSlots(v)'
    BY DEF HeldBatched
  <2>1. CASE i \in T
    BY <1>1, <2>1
  <2>2. CASE i \notin T
    <3>1. i \in Outstanding /\ slot'[i] = slot[i]
      BY <1>1, <1>5, <2>2 DEF Outstanding
    <3>2. PICK v \in Workers : i \in BatchSlots(v)
      BY <3>1 DEF BatchInv, HeldBatched
    <3>3. i \in BatchSlots(v)'
      BY <1>1, <3>2
    <3> QED BY <3>3
  <2> QED BY <2>1, <2>2
<1> QED BY <1>1, <1>4, <1>6, <1>7 DEF BatchInv

\* The elements of a concatenation.
LEMMA Concatenation ==
  ASSUME NEW S, NEW a \in Seq(S), NEW b \in Seq(S)
  PROVE  /\ a \o b \in Seq(S) /\ Len(a \o b) = Len(a) + Len(b)
         /\ \A j \in 1 .. Len(a) : (a \o b)[j] = a[j]
         /\ \A m \in 1 .. Len(b) : (a \o b)[Len(a) + m] = b[m]
OBVIOUS

\* What a step that leaves snapshots and batches alone owes the invariant.
LEMMA BatchFrame ==
  ASSUME BatchInv, UNCHANGED <<slot, batch, unwinding, balance>>
  PROVE  HeldBatched' /\ BalanceExact' /\ Doomed' = Doomed
<1>1. \A w : BatchSlots(w)' = BatchSlots(w)
  BY DEF BatchSlots
<1>2. Outstanding' = Outstanding
  BY DEF Outstanding
<1> QED BY <1>1, <1>2 DEF BatchInv, HeldBatched, BalanceExact, Doomed

\* A kernel is launched for a snapshot its batch holds.
LEMMA LaunchBatch == ASSUME IInv, HeldInv, BatchInv, NEW w \in Workers, Launch(w) PROVE BatchInv'
<1> DEFINE b == batch[w][launched[w] + 1]
           op == [op |-> "kernel", pages |-> slot[b].pages]
<1>1. /\ launched[w] < Len(batch[w]) /\ stream' = Append(stream, op)
      /\ w \notin unwinding /\ UNCHANGED <<slot, batch, unwinding, balance>>
  BY DEF Launch
<1>2. launched[w] \in Nat /\ batch[w] \in Seq(Slots) /\ stream \in Seq(StreamOps)
  BY DEF IInv, TypeOK, BatchInv
<1>3. b \in BatchSlots(w) /\ b \in Slots
  BY <1>1, <1>2 DEF BatchSlots
<1>4. slot[b].ref = "held" /\ op \in StreamOps /\ op.pages = slot[b].pages /\ b \notin Doomed
  <2>1. slot[b].ref = "held" /\ op \in StreamOps /\ op.pages = slot[b].pages
    BY <1>3 DEF HeldInv, BatchesHeld, IInv, TypeOK, SnapType, StreamOps
  <2>2. \A v \in unwinding : b \notin BatchSlots(v)
    BY <1>1, <1>3 DEF HeldInv, BatchesHeld, IInv, TypeOK
  <2> QED BY <2>1, <2>2 DEF Doomed
<1> HIDE DEF b, op
<1>5. /\ stream' \in Seq(StreamOps) /\ Len(stream') = Len(stream) + 1
      /\ \A j \in DOMAIN stream : j \in DOMAIN stream' /\ stream'[j] = stream[j]
      /\ stream'[Len(stream) + 1] = op
  BY <1>1, <1>2, <1>4
<1>6. KernelsCovered'
  <2> SUFFICES ASSUME NEW j \in DOMAIN stream', stream'[j].op = "kernel"
               PROVE  \E i \in Slots : Covers(i, j)'
    BY DEF KernelsCovered
  <2>0. Doomed' = Doomed
    BY <1>1, BatchFrame
  <2>1. CASE j \in DOMAIN stream
    <3>1. PICK i \in Slots : Covers(i, j)
      BY <1>5, <2>1 DEF BatchInv, KernelsCovered
    <3>2. EventAfter(i, j) => EventAfter(i, j)'
      BY <1>5 DEF EventAfter, Event
    <3>3. Covers(i, j)'
      BY <1>1, <1>5, <2>0, <2>1, <3>1, <3>2 DEF Covers
    <3> QED BY <3>3
  <2>2. CASE j \notin DOMAIN stream
    <3>1. j = Len(stream) + 1
      BY <1>2, <1>5, <2>2
    <3>2. PICK i \in Slots : i = b
      BY <1>3
    <3>3. Covers(i, j)'
      BY <1>1, <1>4, <1>5, <2>0, <3>1, <3>2 DEF Covers
    <3> QED BY <3>3
  <2> QED BY <2>1, <2>2
<1> QED BY <1>1, <1>5, <1>6, BatchFrame DEF BatchInv

\* The events of a batch come behind all its kernels.
LEMMA RecordBatch == ASSUME IInv, HeldInv, BatchInv, NEW w \in Workers, Record(w) PROVE BatchInv'
<1> DEFINE q == batch[w]
           N == Len(stream)
<1>1. /\ slot' = [i \in Slots |-> IF i \in BatchSlots(w) THEN [slot[i] EXCEPT !.ref = "pending"]
                                                        ELSE slot[i]]
      /\ stream' = stream \o Events(q)
      /\ batch' = [batch EXCEPT ![w] = <<>>] /\ UNCHANGED balance
      /\ unwinding' = unwinding \ {w}
  BY DEF Record, Pending, Return
<1>2. q \in Seq(Slots) /\ stream \in Seq(StreamOps) /\ N \in Nat /\ Len(q) \in Nat
  BY DEF IInv, TypeOK, BatchInv
<1>3. Events(q) \in Seq(StreamOps) /\ Len(Events(q)) = Len(q)
  <2>1. Events(q) = [j \in 1 .. Len(q) |-> [op |-> "event", slot |-> q[j]]]
    BY <1>2 DEF Events
  <2>2. \A j \in 1 .. Len(q) : [op |-> "event", slot |-> q[j]] \in StreamOps
    BY <1>2 DEF StreamOps
  <2> QED BY <1>2, <2>1, <2>2
<1>4. \A j \in 1 .. Len(q) : Events(q)[j] = Event(q[j])
  BY <1>2 DEF Events, Event
<1>5. /\ stream' \in Seq(StreamOps) /\ Len(stream') = N + Len(q)
      /\ \A j \in 1 .. N : stream'[j] = stream[j]
      /\ \A m \in 1 .. Len(q) : stream'[N + m] = Event(q[m])
  <2> DEFINE e == Events(q)
  <2>1. e \in Seq(StreamOps) /\ Len(e) = Len(q) /\ \A m \in 1 .. Len(q) : e[m] = Event(q[m])
    BY <1>3, <1>4
  <2>2. stream' = stream \o e /\ stream \in Seq(StreamOps)
    BY <1>1, <1>2
  <2> HIDE DEF e
  <2>3. /\ stream \o e \in Seq(StreamOps) /\ Len(stream \o e) = Len(stream) + Len(e)
        /\ \A j \in 1 .. Len(stream) : (stream \o e)[j] = stream[j]
        /\ \A m \in 1 .. Len(e) : (stream \o e)[Len(stream) + m] = e[m]
    <3>1. e \in Seq(StreamOps) /\ stream \in Seq(StreamOps)
      BY <2>1, <2>2
    <3> QED BY ONLY <3>1, Concatenation
  <2>4. N = Len(stream)
    OBVIOUS
  <2> HIDE DEF N, q
  <2> QED BY <2>1, <2>2, <2>3, <2>4
<1>6. /\ BatchSlots(w) = {q[m] : m \in 1 .. Len(q)} /\ BatchSlots(w) \subseteq Slots
      /\ \A v \in Workers : BatchSlots(v)' = IF v = w THEN {} ELSE BatchSlots(v)
  <2>1. BatchSlots(w) = {q[m] : m \in 1 .. Len(q)}
    BY <1>2 DEF BatchSlots
  <2>2. BatchSlots(w) \subseteq Slots
    BY <1>2, <2>1
  <2>3. BatchSlots(w)' = {}
    BY <1>1 DEF BatchSlots, IInv, TypeOK
  <2>4. \A v \in Workers : v # w => BatchSlots(v)' = BatchSlots(v)
    BY <1>1 DEF BatchSlots, IInv, TypeOK
  <2> QED BY <2>1, <2>2, <2>3, <2>4
<1>7. /\ \A i \in BatchSlots(w) : slot'[i].ref = "pending" /\ slot'[i].pages = slot[i].pages
      /\ \A i \in Slots \ BatchSlots(w) : slot'[i] = slot[i]
  BY <1>1, <1>6 DEF IInv, TypeOK, SnapType
<1> HIDE DEF q, N
<1>8. Doomed' \subseteq Doomed
  <2>1. unwinding' \subseteq unwinding /\ unwinding \subseteq Workers
    BY <1>1 DEF IInv, TypeOK
  <2> QED BY <1>6, <2>1 DEF Doomed
<1>9. KernelsCovered'
  <2> SUFFICES ASSUME NEW j \in DOMAIN stream', stream'[j].op = "kernel"
               PROVE  \E i \in Slots : Covers(i, j)'
    BY DEF KernelsCovered
  <2>1. j \in 1 .. N + Len(q)
    BY <1>5
  <2>2. j \in 1 .. N
    <3> SUFFICES ASSUME j \notin 1 .. N PROVE FALSE
      OBVIOUS
    <3>1. j - N \in 1 .. Len(q) /\ j = N + (j - N)
      BY <1>2, <2>1
    <3>2. stream'[j] = Event(q[j - N])
      BY <1>5, <3>1
    <3> QED BY <3>2 DEF Event
  <2>3. PICK i \in Slots : Covers(i, j)
    BY <1>2, <1>5, <2>2 DEF BatchInv, KernelsCovered, N
  <2>4. CASE i \in BatchSlots(w)
    <3>1. PICK m \in 1 .. Len(q) : q[m] = i
      BY <1>6, <2>4
    <3>2. N + m \in DOMAIN stream' /\ N + m > j
      BY <1>2, <1>5, <2>2
    <3>3. stream'[N + m] = Event(i)
      BY <1>5, <3>1
    <3>4. EventAfter(i, j)'
      BY <3>2, <3>3 DEF EventAfter, Event
    <3> QED BY <1>5, <1>7, <2>2, <2>3, <2>4, <3>4 DEF Covers
  <2>5. CASE i \notin BatchSlots(w)
    <3>1. EventAfter(i, j) => EventAfter(i, j)'
      <4> SUFFICES ASSUME NEW k \in DOMAIN stream, k > j, stream[k] = Event(i)
                   PROVE  EventAfter(i, j)'
        BY DEF EventAfter
      <4>1. k \in 1 .. N /\ k \in DOMAIN stream'
        BY <1>2, <1>5 DEF N
      <4> QED BY <1>5, <4>1 DEF EventAfter, Event
    <3> QED BY <1>5, <1>7, <1>8, <2>2, <2>3, <2>5, <3>1 DEF Covers
  <2> QED BY <2>4, <2>5
<1>10. Outstanding' = Outstanding
  BY <1>6, <1>7 DEF Outstanding, HeldInv, BatchesHeld
<1>11. BalanceExact'
  BY <1>1, <1>10 DEF BatchInv, BalanceExact
<1>12. HeldBatched'
  <2> SUFFICES ASSUME NEW i \in Outstanding, slot'[i].ref # "pending"
               PROVE  \E v \in Workers : i \in BatchSlots(v)'
    BY <1>10 DEF HeldBatched
  <2>1. i \in Slots /\ i \notin BatchSlots(w) /\ slot'[i] = slot[i]
    BY <1>7 DEF Outstanding
  <2>2. PICK v \in Workers : i \in BatchSlots(v)
    BY <2>1 DEF BatchInv, HeldBatched
  <2>3. i \in BatchSlots(v)'
    BY <1>6, <2>1, <2>2
  <2> QED BY <2>3
<1> QED BY <1>5, <1>9, <1>11, <1>12 DEF BatchInv

\* The device finishes the head of the stream: the others keep their order.
LEMMA DeviceBatch == ASSUME IInv, BatchInv, DeviceStep PROVE BatchInv'
<1>1. stream # <<>> /\ stream' = Tail(stream) /\ UNCHANGED <<slot, batch, unwinding, balance>>
  BY DEF DeviceStep
<1>2. stream \in Seq(StreamOps)
  BY DEF BatchInv
<1>3. /\ stream' \in Seq(StreamOps) /\ Len(stream') = Len(stream) - 1
      /\ \A j \in DOMAIN stream' : j + 1 \in DOMAIN stream /\ stream'[j] = stream[j + 1]
  BY <1>1, <1>2
<1>4. KernelsCovered'
  <2> SUFFICES ASSUME NEW j \in DOMAIN stream', stream'[j].op = "kernel"
               PROVE  \E i \in Slots : Covers(i, j)'
    BY DEF KernelsCovered
  <2>1. PICK i \in Slots : Covers(i, j + 1)
    BY <1>3 DEF BatchInv, KernelsCovered
  <2>2. EventAfter(i, j + 1) => EventAfter(i, j)'
    <3> SUFFICES ASSUME NEW k \in DOMAIN stream, k > j + 1, stream[k] = Event(i)
                 PROVE  EventAfter(i, j)'
      BY DEF EventAfter
    <3>1. k - 1 \in DOMAIN stream' /\ k - 1 > j /\ k = (k - 1) + 1
      BY <1>2, <1>3
    <3>2. stream'[k - 1] = Event(i)
      BY <1>3, <3>1
    <3> QED BY <3>1, <3>2 DEF EventAfter, Event
  <2> QED BY <1>1, <1>3, <2>1, <2>2, BatchFrame DEF Covers
<1> QED BY <1>1, <1>3, <1>4, BatchFrame DEF BatchInv

\* Reclaim releases a snapshot only when no operation of the stream is before its event.
LEMMA ReclaimBatch == ASSUME IInv, HeldInv, BatchInv, Reclaim PROVE BatchInv'
<1>1. /\ slot' = [i \in Slots |-> IF i \in Completed THEN NoSnap ELSE slot[i]]
      /\ balance' = balance - Cardinality(Completed)
      /\ UNCHANGED <<stream, batch, unwinding>>
  BY DEF Reclaim
<1>2. \A i \in Completed : i \in Slots /\ slot[i].ref = "pending" /\ EventDone(i)
  BY DEF Completed
<1>3. (\A v : BatchSlots(v)' = BatchSlots(v)) /\ Doomed' = Doomed
  BY <1>1 DEF BatchSlots, Doomed
<1>4. KernelsCovered'
  <2> SUFFICES ASSUME NEW j \in DOMAIN stream', stream'[j].op = "kernel"
               PROVE  \E i \in Slots : Covers(i, j)'
    BY DEF KernelsCovered
  <2>1. PICK i \in Slots : Covers(i, j)
    BY <1>1 DEF BatchInv, KernelsCovered
  <2>2. i \notin Completed
    BY <1>2, <2>1 DEF Covers, EventAfter, EventDone, Event
  <2> QED BY <1>1, <1>3, <2>1, <2>2 DEF Covers, EventAfter
<1>5. BalanceExact'
  <2>1. Outstanding' = Outstanding \ Completed
    BY <1>1, <1>2 DEF Outstanding, NoSnap
  <2>2. Outstanding \cap Completed = Completed
    BY <1>2 DEF Outstanding
  <2>3. Cardinality(Outstanding \ Completed) = Cardinality(Outstanding) - Cardinality(Completed)
    BY <2>2, OutstandingFinite, FS_Difference
  <2> QED BY <1>1, <2>1, <2>3 DEF BatchInv, BalanceExact
<1>6. HeldBatched'
  <2>1. \A i \in Outstanding' : i \in Outstanding /\ slot'[i] = slot[i]
    BY <1>1, <1>2 DEF Outstanding, NoSnap
  <2> QED BY <1>3, <2>1 DEF BatchInv, HeldBatched
<1> QED BY <1>1, <1>4, <1>5, <1>6 DEF BatchInv

\* The catch block releases snapshots that cover no kernel: as long as no CUDA
\* call has failed it runs only when nothing has been launched.
LEMMA UnwindBatch == ASSUME IInv, HeldInv, BatchInv, NEW w \in Workers, Unwind(w) PROVE BatchInv'
<1> DEFINE D == BatchSlots(w)
<1>1. /\ slot' = [i \in Slots |-> IF i \in D THEN NoSnap ELSE slot[i]]
      /\ balance' = balance - Len(batch[w]) /\ batch' = [batch EXCEPT ![w] = <<>>]
      /\ w \in unwinding /\ unwinding' = unwinding \ {w} /\ UNCHANGED stream
  BY DEF Unwind, Return
<1>2. /\ D \subseteq Slots /\ D \subseteq Doomed
      /\ D = {batch[w][j] : j \in 1 .. Len(batch[w])} /\ batch[w] \in Seq(Slots)
  BY <1>1, BatchSlotsTyped DEF Doomed
<1>3. \A v \in Workers : BatchSlots(v)' = IF v = w THEN {} ELSE BatchSlots(v)
  BY <1>1 DEF BatchSlots, IInv, TypeOK
<1>4. \A i \in D : slot[i].ref = "held" /\ slot'[i].ref = "none"
  BY <1>1, <1>2 DEF HeldInv, BatchesHeld, NoSnap
<1>5. Cardinality(D) = Len(batch[w]) /\ Len(batch[w]) \in Nat
  <2> DEFINE n == Len(batch[w])
             f == batch[w]
  <2>1. n \in Nat /\ f \in [1 .. n -> Slots] /\ D = {f[j] : j \in 1 .. n}
    BY <1>2
  <2>2. \A j, k \in 1 .. n : j < k => f[j] < f[k]
    BY <1>2 DEF HeldInv, BatchesAscend
  <2> HIDE DEF n, f, D
  <2>3. Cardinality(D) = n
    BY <2>1, <2>2, AscendingSlots
  <2> QED BY <2>1, <2>3 DEF n
<1> HIDE DEF D
<1>6. Doomed' \subseteq Doomed
  <2>1. unwinding' \subseteq unwinding /\ unwinding \subseteq Workers
    BY <1>1 DEF IInv, TypeOK
  <2> QED BY <1>3, <2>1 DEF Doomed
<1>7. KernelsCovered'
  <2> SUFFICES ASSUME NEW j \in DOMAIN stream', stream'[j].op = "kernel"
               PROVE  \E i \in Slots : Covers(i, j)'
    BY DEF KernelsCovered
  <2>1. PICK i \in Slots : Covers(i, j)
    BY <1>1 DEF BatchInv, KernelsCovered
  <2>2. i \notin D
    BY <1>2, <1>4, <2>1 DEF Covers
  <2> QED BY <1>1, <1>6, <2>1, <2>2 DEF Covers, EventAfter
<1>8. Outstanding' = Outstanding \ D /\ Outstanding \cap D = D
  BY <1>1, <1>2, <1>4 DEF Outstanding
<1>9. BalanceExact'
  <2>1. Cardinality(Outstanding \ D) = Cardinality(Outstanding) - Cardinality(D)
    BY <1>8, OutstandingFinite, FS_Difference
  <2> QED BY <1>1, <1>5, <1>8, <2>1 DEF BatchInv, BalanceExact
<1>10. HeldBatched'
  <2> SUFFICES ASSUME NEW i \in Outstanding', slot'[i].ref # "pending"
               PROVE  \E v \in Workers : i \in BatchSlots(v)'
    BY DEF HeldBatched
  <2>1. i \in Outstanding /\ i \notin D /\ slot'[i] = slot[i]
    BY <1>1, <1>8 DEF Outstanding
  <2>2. PICK v \in Workers : i \in BatchSlots(v)
    BY <2>1 DEF BatchInv, HeldBatched
  <2>3. i \in BatchSlots(v)'
    BY <1>3, <2>1, <2>2 DEF D
  <2> QED BY <2>3
<1> QED BY <1>1, <1>7, <1>9, <1>10 DEF BatchInv

LEMMA BatchStep == ASSUME IInv, HeldInv, BatchInv, [Next]_vars, faults' = 0 PROVE BatchInv'
<1>1. ASSUME UNCHANGED execVars PROVE BatchInv'
  <2>1. HeldBatched' /\ BalanceExact' /\ Doomed' = Doomed
    BY <1>1, BatchFrame DEF execVars
  <2>2. KernelsCovered'
    BY <1>1, <2>1 DEF execVars, BatchInv, KernelsCovered, Covers, EventAfter
  <2> QED BY <1>1, <2>1, <2>2 DEF execVars, BatchInv
<1>2. CASE UNCHANGED vars
  BY <1>1, <1>2 DEF vars
<1>3. CASE OwnershipNext
  <2>1. UNCHANGED execVars
    BY <1>3, OwnershipFaults
  <2> QED BY <1>1, <2>1
<1>4. CASE ExecuteNext
  <2>1. \A w \in Workers, n \in 1 .. MaxBatch :
          \A items \in [1 .. n -> Item], f \in [1 .. n -> Slots] :
            Acquire(w, n, items, f) \/ AcquireFails(w, n, items, f) => BatchInv'
    BY AcquireBatch
  <2>2. \A w \in Workers : Launch(w) => BatchInv'
    BY LaunchBatch
  <2>3. \A w \in Workers : Record(w) => BatchInv'
    BY RecordBatch
  <2>4. /\ \A w \in Workers : ~LaunchFails(w)
        /\ \A w \in Workers, k \in 1 .. MaxBatch : ~RecordFails(w, k)
        /\ \A D \in SUBSET Slots : ~ReclaimFails(D)
    BY NoFailure DEF LaunchFails, RecordFails, ReclaimFails
  <2>5. \A w \in Workers : Unwind(w) => BatchInv'
    BY UnwindBatch
  <2> QED BY <1>4, <2>1, <2>2, <2>3, <2>4, <2>5, DeviceBatch, ReclaimBatch DEF ExecuteNext
<1> QED BY <1>2, <1>3, <1>4 DEF Next

LEMMA BatchInvariance == Spec => [](faults = 0 => BatchInv)
<1> DEFINE P == faults = 0 => BatchInv
<1>1. Init => P
  BY InitBatchInv
<1>2. IInv /\ HeldInv /\ P /\ [Next]_vars => P'
  <2> SUFFICES ASSUME IInv, HeldInv, P, [Next]_vars, faults' = 0 PROVE BatchInv'
    OBVIOUS
  <2>1. faults = 0
    BY FaultsGrow
  <2> QED BY <2>1, BatchStep
<1> QED BY <1>1, <1>2, Invariance, HeldInvariance, PTL DEF Spec

---------------------------------------------------------------------------
(* Reference counts.  A copy onto a live sequence drops references without *)
(* releasing them, so the callers never make one here.                     *)

\* logical_refs is the number of sequences that reference the page.
LogicalExact == \A p \in PageIds : logical[p] = Cardinality(Observers(p))

\* A page is live exactly while some sequence references it.
LiveReferenced == \A p \in PageIds : pstate[p] = "live" <=> Observers(p) # {}

CountInv == LogicalExact /\ LiveReferenced

LEMMA InitCountInv == Init => CountInv
<1> SUFFICES ASSUME Init PROVE CountInv
  OBVIOUS
<1>1. \A p : Observers(p) = {}
  BY DEF Init, Observers
<1> QED BY <1>1, FS_EmptySet DEF Init, CountInv, LogicalExact, LiveReferenced

\* A step that keeps references and counts, and neither makes a page live nor ends that.
LEMMA CountFrame ==
  ASSUME CountInv, UNCHANGED logical, SameOwners,
         \A p \in PageIds : pstate'[p] = "live" <=> pstate[p] = "live"
  PROVE  CountInv'
BY DEF CountInv, LogicalExact, LiveReferenced, SameOwners

LEMMA PublishCounts ==
  ASSUME IInv, CountInv, NEW s \in Seqs, NEW l \in Layers, NEW o \in Outcomes, Publish(s, l, o)
  PROVE  CountInv'
<1> DEFINE q == nextPage
<1>1. /\ q \in PageIds /\ s \in live /\ live' = live
      /\ pstate' = [pstate EXCEPT ![q] = "live"]
      /\ logical' = [logical EXCEPT ![q] = 1]
      /\ refs' = [refs EXCEPT ![s] = @ \cup {q}]
  BY DEF Publish
<1>2. \A t \in Seqs : q \notin refs[t]
  BY <1>1 DEF IInv, FreshUnused, TypeOK
<1>3. \A p \in PageIds : Observers(p)' = IF p = q THEN {s} ELSE Observers(p)
  BY <1>1, <1>2 DEF Observers, IInv, TypeOK
<1>4. Cardinality({s}) = 1
  BY FS_Singleton
<1> QED BY <1>1, <1>3, <1>4 DEF CountInv, LogicalExact, LiveReferenced, IInv, TypeOK

LEMMA CopyCounts ==
  ASSUME IInv, CountInv, "overwrite" \notin Calls, NEW a \in Seqs, NEW d \in Seqs, Copy(a, d)
  PROVE  CountInv'
<1>1. /\ a \in live /\ d \notin live /\ live' = live \cup {d}
      /\ refs' = [refs EXCEPT ![d] = refs[a]]
      /\ logical' = [p \in PageIds |-> IF p \in refs[a] THEN logical[p] + 1 ELSE logical[p]]
      /\ UNCHANGED pstate
  BY DEF Copy, CanCopy, Referenced
<1>2. ASSUME NEW p \in PageIds
      PROVE  /\ logical'[p] = Cardinality(Observers(p)')
             /\ pstate'[p] = "live" <=> Observers(p)' # {}
  <2>1. CASE p \in refs[a]
    <3>1. Observers(p)' = Observers(p) \cup {d} /\ d \notin Observers(p) /\ a \in Observers(p)
      BY <1>1, <2>1 DEF Observers, IInv, TypeOK
    <3>2. Cardinality(Observers(p) \cup {d}) = Cardinality(Observers(p)) + 1
      <4>1. IsFiniteSet(Observers(p))
        BY ObserversFinite DEF IInv, TypeOK
      <4> QED BY <3>1, <4>1, FS_AddElement
    <3> QED BY <1>1, <2>1, <3>1, <3>2 DEF CountInv, LogicalExact, LiveReferenced
  <2>2. CASE p \notin refs[a]
    <3>1. Observers(p)' = Observers(p)
      BY <1>1, <2>2 DEF Observers, IInv, TypeOK
    <3> QED BY <1>1, <2>2, <3>1 DEF CountInv, LogicalExact, LiveReferenced
  <2> QED BY <2>1, <2>2
<1> QED BY <1>2 DEF CountInv, LogicalExact, LiveReferenced

LEMMA RemoveCounts == ASSUME IInv, CountInv, NEW s \in Seqs, Remove(s) PROVE CountInv'
<1>1. /\ s \in live /\ live' = live \ {s}
      /\ logical' = [p \in PageIds |-> IF p \in refs[s] THEN logical[p] - 1 ELSE logical[p]]
      /\ pstate' = [p \in PageIds |->
                      IF p \in refs[s] /\ logical[p] = 1 THEN "retired" ELSE pstate[p]]
      /\ refs' = [refs EXCEPT ![s] = {}]
  BY DEF Remove, LastReferenced
<1>2. ASSUME NEW p \in PageIds
      PROVE  /\ logical'[p] = Cardinality(Observers(p)')
             /\ pstate'[p] = "live" <=> Observers(p)' # {}
  <2>1. CASE p \in refs[s]
    <3>1. Observers(p)' = Observers(p) \ {s} /\ s \in Observers(p)
      BY <1>1, <2>1 DEF Observers, IInv, TypeOK
    <3>2. /\ IsFiniteSet(Observers(p) \ {s})
          /\ Cardinality(Observers(p) \ {s}) = Cardinality(Observers(p)) - 1
      BY <3>1, ObserversFinite, FS_RemoveElement DEF IInv, TypeOK
    <3>3. Cardinality(Observers(p) \ {s}) = 0 <=> Observers(p) \ {s} = {}
      BY <3>2, FS_EmptySet
    <3>4. logical[p] = Cardinality(Observers(p)) /\ logical[p] \in Nat /\ pstate[p] = "live"
      BY <3>1 DEF CountInv, LogicalExact, LiveReferenced, IInv, TypeOK
    <3> QED BY <1>1, <2>1, <3>1, <3>2, <3>3, <3>4
  <2>2. CASE p \notin refs[s]
    <3>1. Observers(p)' = Observers(p)
      BY <1>1, <2>2 DEF Observers, IInv, TypeOK
    <3> QED BY <1>1, <2>2, <3>1 DEF CountInv, LogicalExact, LiveReferenced
  <2> QED BY <2>1, <2>2
<1> QED BY <1>2 DEF CountInv, LogicalExact, LiveReferenced

\* Batches, the device and reclaim keep references and counts.
LEMMA ExecuteKeepsCounts ==
  ASSUME IInv, ExecuteNext
  PROVE  /\ UNCHANGED <<seqVars, layerOf, logical, bufVars>>
         /\ \A p \in PageIds : pstate'[p] = "live" <=> pstate[p] = "live"
<1> DEFINE G == /\ UNCHANGED <<seqVars, layerOf, logical, bufVars>>
                /\ \A p \in PageIds : pstate'[p] = "live" <=> pstate[p] = "live"
<1>0. UNCHANGED <<seqVars, pageVars, bufVars>> => G
  BY DEF pageVars
<1>1. ASSUME NEW w \in Workers, NEW n \in 1 .. MaxBatch, NEW items \in [1 .. n -> Item],
             NEW f \in [1 .. n -> Slots], Acquire(w, n, items, f) \/ AcquireFails(w, n, items, f)
      PROVE  G
  <2>1. UNCHANGED <<seqVars, pageVars, bufVars>>
    BY <1>1 DEF Acquire, AcquireFails, TakeSnapshots
  <2> QED BY <1>0, <2>1
<1>2. ASSUME NEW w \in Workers, Launch(w) \/ LaunchFails(w) \/ Record(w) \/ Unwind(w) PROVE G
  <2>1. UNCHANGED <<seqVars, pageVars, bufVars>>
    BY <1>2 DEF Launch, LaunchFails, Record, Unwind
  <2> QED BY <1>0, <2>1
<1>3. ASSUME NEW w \in Workers, NEW k \in 1 .. MaxBatch, RecordFails(w, k) PROVE G
  <2>1. UNCHANGED <<seqVars, pageVars, bufVars>>
    BY <1>3 DEF RecordFails
  <2> QED BY <1>0, <2>1
<1>4. ASSUME DeviceStep PROVE G
  <2>1. UNCHANGED <<seqVars, pageVars, bufVars>>
    BY <1>4 DEF DeviceStep
  <2> QED BY <1>0, <2>1
<1>5. ASSUME NEW D \in SUBSET Slots, ReclaimFails(D) PROVE G
  <2>1. UNCHANGED <<seqVars, pageVars, bufVars>>
    BY <1>5 DEF ReclaimFails
  <2> QED BY <1>0, <2>1
<1>6. ASSUME Reclaim PROVE G
  <2>1. /\ UNCHANGED <<seqVars, layerOf, logical, bufVars>>
        /\ pstate' = [p \in PageIds |-> IF Erasable(p) THEN "erased" ELSE pstate[p]]
    BY <1>6 DEF Reclaim
  <2>2. \A p \in PageIds : Erasable(p) => pstate[p] = "retired"
    BY DEF Erasable
  <2> QED BY <2>1, <2>2
<1> HIDE DEF G
<1>7. G
  BY <1>1, <1>2, <1>3, <1>4, <1>5, <1>6 DEF ExecuteNext
<1> QED BY <1>7 DEF G

LEMMA CountStep ==
  ASSUME IInv, CountInv, "overwrite" \notin Calls, [Next]_vars, faults' = 0
  PROVE  CountInv'
<1>1. ASSUME UNCHANGED <<live, refs, pageVars>> PROVE CountInv'
  BY <1>1, OwnersFrame, CountFrame DEF pageVars
<1>2. CASE UNCHANGED vars
  BY <1>1, <1>2 DEF vars, seqVars
<1>3. CASE ExecuteNext
  BY <1>3, ExecuteKeepsCounts, OwnersFrame, CountFrame DEF seqVars
<1>4. ASSUME NEW s \in Seqs, Create(s) PROVE CountInv'
  <2>1. live' = live \cup {s} /\ s \notin live /\ UNCHANGED <<refs, logical, pstate>>
    BY <1>4 DEF Create, pageVars
  <2>2. SameOwners
    BY <2>1 DEF SameOwners, Observers, IInv, DeadSeqsEmpty
  <2> QED BY <2>1, <2>2, CountFrame
<1>5. ASSUME NEW s \in Seqs, NEW l \in Layers, NEW o \in Outcomes,
             Publish(s, l, o) \/ StageActive(s, l, o)
      PROVE  CountInv'
  <2>1. ASSUME StageActive(s, l, o) PROVE UNCHANGED <<live, refs, pageVars>>
    BY <2>1 DEF StageActive, seqVars
  <2> QED BY <1>1, <1>5, <2>1, PublishCounts
<1>6. \A a, d \in Seqs, k \in Layers, point \in Points : ~CopyFails(a, d, k, point)
  BY NoFailure DEF CopyFails
<1>7. ASSUME NEW s \in Seqs, Cancel(s) PROVE CountInv'
  <2>1. UNCHANGED <<live, refs, pageVars>>
    BY <1>7 DEF Cancel
  <2> QED BY <1>1, <2>1
<1>8. ASSUME NEW s \in Seqs, NEW lo \in 0 .. MaxTokens, NEW hi \in 0 .. MaxTokens,
             NEW delta \in {-1, 1}, Shift(s, lo, hi, delta)
      PROVE  CountInv'
  <2>1. UNCHANGED <<live, refs, pageVars>>
    BY <1>8 DEF Shift
  <2> QED BY <1>1, <2>1
<1> QED
  BY <1>2, <1>3, <1>4, <1>5, <1>6, <1>7, <1>8, CopyCounts, RemoveCounts DEF Next, OwnershipNext

LEMMA CountInvariance ==
  ASSUME "overwrite" \notin Calls
  PROVE  Spec => [](faults = 0 => CountInv)
<1> DEFINE P == faults = 0 => CountInv
<1>1. Init => P
  BY InitCountInv
<1>2. IInv /\ P /\ [Next]_vars => P'
  <2> SUFFICES ASSUME IInv, P, [Next]_vars, faults' = 0 PROVE CountInv'
    OBVIOUS
  <2>1. faults = 0
    BY FaultsGrow
  <2> QED BY <2>1, CountStep
<1> QED BY <1>1, <1>2, Invariance, PTL DEF Spec

---------------------------------------------------------------------------
(* Device buffers. *)

\* A descriptor table with its three fields: one with a capacity is allocated.
IsTable(t) ==
  /\ t = [buf |-> t.buf, cap |-> t.cap, ent |-> t.ent]
  /\ t.buf \in Int /\ (t.cap # 0 => t.buf # Null)

IsTail(a) == a = [buf |-> a.buf, staged |-> a.staged] /\ a.buf \in Int

BuffersTyped ==
  /\ DOMAIN table = Seqs /\ DOMAIN active = Seqs
  /\ \A s \in Seqs : DOMAIN table[s] = Layers /\ DOMAIN active[s] = Layers
  /\ \A s \in Seqs, l \in Layers : IsTable(table[s][l]) /\ IsTail(active[s][l])

\* A sequence that does not exist has no table and no tail.
DeadSeqsBare ==
  \A s \in Seqs \ live, l \in Layers : table[s][l] = NoTable /\ active[s][l] = NoActive

\* Every allocation not freed belongs to a layer of a live sequence.
HeapOwned == \A x : x \in heap <=> \E s \in live, l \in Layers : x \in Owned(s, l)

\* A layer with pages has a table to list them.
TablesBacked == \A s \in live, l \in Layers : LayerPages(s, l) # {} => table[s][l].buf # Null

BufferInv == BuffersTyped /\ DeadSeqsBare /\ HeapOwned /\ TablesBacked

LEMMA InitBufferInv == Init => BufferInv
<1> SUFFICES ASSUME Init PROVE BufferInv
  OBVIOUS
<1>1. BuffersTyped
  BY DEF Init, BuffersTyped, IsTable, IsTail, NoTable, NoActive, Null
<1>2. DeadSeqsBare /\ HeapOwned /\ TablesBacked
  BY DEF Init, DeadSeqsBare, HeapOwned, TablesBacked
<1> QED BY <1>1, <1>2 DEF BufferInv

\* A fresh allocation has a name, when one is free.
LEMMA FreshNamed ==
  ASSUME NEW kind, NEW s, NEW l, FreeIncs(kind, s, l) # {}
  PROVE  Fresh(kind, s, l) \in Int /\ Fresh(kind, s, l) # Null
<1>1. Fresh(kind, s, l) \in FreeIncs(kind, s, l)
  BY DEF Fresh
<1>2. Fresh(kind, s, l) \in 0 .. MaxInc
  BY <1>1 DEF FreeIncs
<1> QED BY <1>2, BoundsAreNat DEF Null

\* Layers hold finitely many pages, so a table that lists one has a capacity.
LEMMA EntriesFinite ==
  ASSUME IInv, NEW s \in Seqs, NEW l \in Layers
  PROVE  IsFiniteSet(Entries(s, l)) /\ (Entries(s, l) = {} <=> LayerPages(s, l) = {})
<1> DEFINE g == [p \in LayerPages(s, l) |-> <<p, begin[s][p]>>]
<1>1. LayerPages(s, l) \in SUBSET PageIds
  BY DEF LayerPages, IInv, TypeOK
<1>2. IsFiniteSet(LayerPages(s, l))
  <2>1. IsFiniteSet(PageIds)
    BY FS_Interval, BoundsAreNat DEF PageIds
  <2> QED BY <1>1, <2>1, FS_Subset
<1>3. g \in Surjection(LayerPages(s, l), Entries(s, l))
  BY DEF Surjection, Entries
<1>4. IsFiniteSet(Entries(s, l))
  BY <1>2, <1>3, FS_Surjection
<1> QED BY <1>4 DEF Entries

\* A refresh that succeeds leaves exactly the wanted entries, in an allocated
\* table when there are any.
LEMMA RefreshedHolds ==
  ASSUME NEW t, IsTable(t), NEW s, NEW l, NEW want, IsFiniteSet(want),
         FreeIncs("table", s, l) # {}
  PROVE  LET r == Refreshed(t, s, l, want, "ok")
         IN  IsTable(r) /\ r.ent = want /\ (want # {} => r.buf # Null)
<1> DEFINE r == Refreshed(t, s, l, want, "ok")
<1>1. CASE Cardinality(want) > t.cap
  <2>1. r = [buf |-> Fresh("table", s, l), cap |-> Grow(t.cap, Cardinality(want)), ent |-> want]
    BY <1>1 DEF Refreshed
  <2> QED BY <2>1, FreshNamed DEF IsTable
<1>2. CASE ~(Cardinality(want) > t.cap)
  <2>1. r = [t EXCEPT !.ent = want]
    BY <1>2 DEF Refreshed
  <2>2. r = [buf |-> t.buf, cap |-> t.cap, ent |-> want]
    BY <2>1 DEF IsTable
  <2>3. want # {} => t.cap # 0
    <3>1. want # {} => Cardinality(want) \in Nat /\ Cardinality(want) # 0
      BY FS_EmptySet, FS_CardinalityType
    <3> QED BY <1>2, <3>1
  <2> QED BY <2>2, <2>3 DEF IsTable
<1> QED BY <1>1, <1>2

\* What a layer owns carries its name, so two layers own nothing in common.
LEMMA OwnedApart ==
  ASSUME NEW s, NEW l, NEW u, NEW m, u # s \/ m # l
  PROVE  Owned(u, m) \cap Owned(s, l) = {}
BY DEF Owned, Allocation

\* A step that changes what one layer owns and the heap by the same amount.
LEMMA LayerHeap ==
  ASSUME HeapOwned, live \subseteq Seqs, live' = live, NEW s \in live, NEW l \in Layers,
         \A u \in Seqs, m \in Layers : (u # s \/ m # l) => Owned(u, m)' = Owned(u, m),
         NEW mine, mine = Owned(s, l)',
         \A x : x \in heap' <=> (x \in heap /\ x \notin Owned(s, l)) \/ x \in mine
  PROVE  HeapOwned'
<1>1. ASSUME NEW x, x \in heap'
      PROVE  \E u \in live', m \in Layers : x \in Owned(u, m)'
  <2>1. CASE x \in mine
    BY <2>1
  <2>2. CASE x \in heap /\ x \notin Owned(s, l)
    <3>1. PICK u \in live, m \in Layers : x \in Owned(u, m)
      BY <2>2 DEF HeapOwned
    <3>2. u # s \/ m # l
      BY <2>2, <3>1
    <3> QED BY <3>1, <3>2
  <2> QED BY <1>1, <2>1, <2>2
<1>2. ASSUME NEW u \in live', NEW m \in Layers, NEW x \in Owned(u, m)'
      PROVE  x \in heap'
  <2>1. CASE u = s /\ m = l
    <3>1. x \in mine
      BY <1>2, <2>1
    <3> QED BY <3>1
  <2>2. CASE u # s \/ m # l
    <3>1. x \in Owned(u, m) /\ x \notin Owned(s, l)
      BY <2>2, OwnedApart
    <3> QED BY <3>1 DEF HeapOwned
  <2> QED BY <2>1, <2>2
<1> QED BY <1>1, <1>2 DEF HeapOwned

LEMMA BuffersFrame ==
  ASSUME IInv, BufferInv, UNCHANGED bufVars, UNCHANGED <<refs, layerOf>>,
         live' = live \/ \E s \in Seqs \ live : live' = live \cup {s}
  PROVE  BufferInv'
<1>1. \A s, l : Owned(s, l)' = Owned(s, l) /\ LayerPages(s, l)' = LayerPages(s, l)
  BY DEF Owned, LayerPages, bufVars
<1>2. BuffersTyped'
  BY DEF BufferInv, BuffersTyped, bufVars
<1>3. DeadSeqsBare'
  BY DEF BufferInv, DeadSeqsBare, bufVars
<1>4. \A s \in live', l \in Layers : s \in live \/ (Owned(s, l) = {} /\ LayerPages(s, l) = {})
  <2>1. \A s \in Seqs \ live, l \in Layers : Owned(s, l) = {} /\ LayerPages(s, l) = {}
    BY DEF BufferInv, DeadSeqsBare, Owned, Allocation, NoTable, NoActive, LayerPages,
           IInv, DeadSeqsEmpty
  <2> QED BY <2>1
<1>5. live \subseteq live'
  OBVIOUS
<1>6. HeapOwned'
  <2>1. heap' = heap
    BY DEF bufVars
  <2>2. \A x : (\E s \in live, l \in Layers : x \in Owned(s, l))
                 <=> (\E s \in live', l \in Layers : x \in Owned(s, l)')
    BY <1>1, <1>4, <1>5
  <2> QED BY <2>1, <2>2 DEF BufferInv, HeapOwned
<1>7. TablesBacked'
  BY <1>1, <1>4 DEF BufferInv, TablesBacked, bufVars
<1> QED BY <1>2, <1>3, <1>6, <1>7 DEF BufferInv

\* The pages of a layer after a publication: the new one is in its layer only.
LEMMA PublishedPages ==
  ASSUME IInv, NEW s \in Seqs, NEW l \in Layers, NEW o \in Outcomes, Publish(s, l, o)
  PROVE  \A u \in Seqs, m \in Layers :
           LayerPages(u, m)' = IF u = s /\ m = l THEN LayerPages(s, l) \cup {nextPage}
                                                 ELSE LayerPages(u, m)
<1> DEFINE q == nextPage
<1>1. /\ q \in PageIds
      /\ layerOf' = [layerOf EXCEPT ![q] = l]
      /\ refs' = [refs EXCEPT ![s] = @ \cup {q}]
  BY DEF Publish
<1>2. \A t \in Seqs : q \notin refs[t]
  BY <1>1 DEF IInv, FreshUnused, TypeOK
<1>3. \A p \in PageIds : layerOf'[p] = IF p = q THEN l ELSE layerOf[p]
  BY <1>1 DEF IInv, TypeOK
<1>4. \A u \in Seqs : refs[u] \subseteq PageIds /\ refs'[u] = IF u = s THEN refs[s] \cup {q} ELSE refs[u]
  BY <1>1 DEF IInv, TypeOK
<1> HIDE DEF q
<1> SUFFICES ASSUME NEW u \in Seqs, NEW m \in Layers
             PROVE  LayerPages(u, m)' = IF u = s /\ m = l THEN LayerPages(s, l) \cup {q}
                                                          ELSE LayerPages(u, m)
  BY DEF q
<1>5. LayerPages(u, m)' = {p \in refs'[u] : layerOf'[p] = m}
  BY DEF LayerPages
<1>6. CASE u = s
  <2>1. LayerPages(u, m)' = {p \in refs[s] \cup {q} : (IF p = q THEN l ELSE layerOf[p]) = m}
    BY <1>1, <1>3, <1>4, <1>5, <1>6
  <2> QED BY <1>2, <1>6, <2>1 DEF LayerPages
<1>7. CASE u # s
  BY <1>2, <1>3, <1>4, <1>5, <1>7 DEF LayerPages
<1> QED BY <1>6, <1>7

LEMMA PublishBuffers ==
  ASSUME IInv, BufferInv, NEW s \in Seqs, NEW l \in Layers, Publish(s, l, "ok")
  PROVE  BufferInv'
<1> DEFINE pos == PageSize * Cardinality(LayerPages(s, l))
           want == Entries(s, l) \cup {<<nextPage, pos>>}
           r == Refreshed(table[s][l], s, l, want, "ok")
<1>1. /\ s \in live /\ FreeIncs("table", s, l) # {}
      /\ table' = [table EXCEPT ![s][l] = r]
      /\ heap' = IF r.buf = table[s][l].buf THEN heap
                 ELSE (heap \ Allocation("table", s, l, table[s][l].buf))
                      \cup Allocation("table", s, l, r.buf)
      /\ UNCHANGED <<live, active>>
  BY DEF Publish
<1>2. IsTable(table[s][l]) /\ IsFiniteSet(want) /\ want # {}
  <2>1. IsFiniteSet(Entries(s, l))
    BY EntriesFinite
  <2>2. IsFiniteSet(want)
    BY <2>1, FS_AddElement
  <2> QED BY <2>2 DEF BufferInv, BuffersTyped
<1> HIDE DEF want
<1>3. IsTable(r) /\ r.buf # Null
  BY <1>1, <1>2, RefreshedHolds
<1> HIDE DEF r
<1>4. /\ DOMAIN table' = Seqs /\ \A u \in Seqs : DOMAIN table'[u] = Layers
      /\ \A u \in Seqs, m \in Layers :
           table'[u][m] = IF u = s /\ m = l THEN r ELSE table[u][m]
  BY <1>1 DEF BufferInv, BuffersTyped
<1>5. BuffersTyped'
  BY <1>1, <1>3, <1>4 DEF BufferInv, BuffersTyped
<1>6. DeadSeqsBare'
  BY <1>1, <1>4 DEF BufferInv, DeadSeqsBare
<1>7. HeapOwned'
  <2> DEFINE mine == Allocation("table", s, l, r.buf) \cup Allocation("active", s, l, active[s][l].buf)
             tail == Allocation("active", s, l, active[s][l].buf)
  <2>1. Owned(s, l)' = mine
    BY <1>1, <1>4 DEF Owned, Allocation
  <2>2. \A u \in Seqs, m \in Layers : (u # s \/ m # l) => Owned(u, m)' = Owned(u, m)
    BY <1>1, <1>4 DEF Owned
  <2>3. Owned(s, l) = Allocation("table", s, l, table[s][l].buf) \cup tail
    BY DEF Owned
  <2>4. tail \cap Allocation("table", s, l, table[s][l].buf) = {} /\ Owned(s, l) \subseteq heap
    BY <1>1 DEF Allocation, BufferInv, HeapOwned
  <2>5. \A x : x \in heap' <=> (x \in heap /\ x \notin Owned(s, l)) \/ x \in mine
    <3>1. CASE r.buf = table[s][l].buf
      BY <1>1, <2>3, <2>4, <3>1
    <3>2. CASE r.buf # table[s][l].buf
      BY <1>1, <2>3, <2>4, <3>2
    <3> QED BY <3>1, <3>2
  <2> HIDE DEF mine, tail
  <2>6. live \subseteq Seqs /\ HeapOwned
    BY DEF IInv, TypeOK, BufferInv
  <2> QED BY <1>1, <2>1, <2>2, <2>5, <2>6, LayerHeap
<1>8. TablesBacked'
  <2>1. \A u \in Seqs, m \in Layers :
          LayerPages(u, m)' = IF u = s /\ m = l THEN LayerPages(s, l) \cup {nextPage}
                                                ELSE LayerPages(u, m)
    BY PublishedPages DEF Outcomes
  <2> QED BY <1>1, <1>3, <1>4, <2>1 DEF BufferInv, TablesBacked, IInv, TypeOK
<1> QED BY <1>5, <1>6, <1>7, <1>8 DEF BufferInv

LEMMA StageBuffers ==
  ASSUME IInv, BufferInv, NEW s \in Seqs, NEW l \in Layers, StageActive(s, l, "ok")
  PROVE  BufferInv'
<1> DEFINE a == active[s][l]
           b == IF a.buf = Null THEN Fresh("active", s, l) ELSE a.buf
           n == [buf |-> b, staged |-> TRUE]
<1>1. /\ s \in live /\ FreeIncs("active", s, l) # {}
      /\ active' = [active EXCEPT ![s][l] = [buf |-> b, staged |-> a.staged \/ "ok" = "ok"]]
      /\ heap' = heap \cup {<<"active", s, l, b>>}
      /\ UNCHANGED <<live, refs, layerOf, table>>
  BY DEF StageActive, seqVars, pageVars
<1>2. IsTail(a)
  BY DEF BufferInv, BuffersTyped
<1>3. b \in Int /\ b # Null /\ (a.buf # Null => b = a.buf)
  BY <1>1, <1>2, FreshNamed DEF IsTail
<1>4. /\ DOMAIN active' = Seqs /\ \A u \in Seqs : DOMAIN active'[u] = Layers
      /\ \A u \in Seqs, m \in Layers :
           active'[u][m] = IF u = s /\ m = l THEN n ELSE active[u][m]
  <2>1. active' = [active EXCEPT ![s][l] = n]
    BY <1>1
  <2> HIDE DEF n
  <2> QED BY <2>1 DEF BufferInv, BuffersTyped
<1> HIDE DEF b
<1>5. BuffersTyped'
  <2>1. IsTail(n)
    BY <1>3 DEF IsTail
  <2> HIDE DEF n
  <2> QED BY <1>1, <1>4, <2>1 DEF BufferInv, BuffersTyped
<1>6. DeadSeqsBare'
  BY <1>1, <1>4 DEF BufferInv, DeadSeqsBare
<1>7. HeapOwned'
  <2> DEFINE mine == Allocation("table", s, l, table[s][l].buf) \cup {<<"active", s, l, b>>}
  <2>1. Owned(s, l)' = mine
    <3>1. active'[s][l].buf = b /\ table' = table
      BY <1>1, <1>4
    <3> QED BY <1>3, <3>1 DEF Owned, Allocation
  <2>2. \A u \in Seqs, m \in Layers : (u # s \/ m # l) => Owned(u, m)' = Owned(u, m)
    BY <1>1, <1>4 DEF Owned
  <2>3. \A x : x \in heap' <=> (x \in heap /\ x \notin Owned(s, l)) \/ x \in mine
    <3>1. Owned(s, l) \subseteq heap
      BY <1>1 DEF BufferInv, HeapOwned
    <3>2. Owned(s, l) \subseteq mine /\ mine \subseteq Owned(s, l) \cup {<<"active", s, l, b>>}
      BY <1>3 DEF Owned, Allocation
    <3> HIDE DEF mine
    <3>3. <<"active", s, l, b>> \in mine
      BY DEF mine
    <3> QED BY <1>1, <3>1, <3>2, <3>3
  <2> HIDE DEF mine
  <2>4. live \subseteq Seqs /\ HeapOwned
    BY DEF IInv, TypeOK, BufferInv
  <2> QED BY <1>1, <2>1, <2>2, <2>3, <2>4, LayerHeap
<1>8. TablesBacked'
  BY <1>1 DEF BufferInv, TablesBacked, LayerPages
<1> QED BY <1>5, <1>6, <1>7, <1>8 DEF BufferInv

LEMMA CopyBuffers ==
  ASSUME IInv, BufferInv, "overwrite" \notin Calls, NEW a \in Seqs, NEW d \in Seqs, Copy(a, d)
  PROVE  /\ BufferInv'
         /\ \A l \in Layers : table'[d][l].ent = Entries(a, l)
         /\ \A u \in Seqs, l \in Layers : u # d => table'[u][l] = table[u][l]
<1> DEFINE t == [l \in Layers |-> Refreshed(NoTable, d, l, Entries(a, l), "ok")]
           n == [l \in Layers |-> CopiedTail(a, d, l)]
           mine(l) == Allocation("table", d, l, t[l].buf) \cup Allocation("active", d, l, n[l].buf)
<1>1. /\ a \in live /\ d \notin live /\ live' = live \cup {d}
      /\ refs' = [refs EXCEPT ![d] = refs[a]] /\ UNCHANGED layerOf
      /\ table' = [table EXCEPT ![d] = t]
      /\ active' = [active EXCEPT ![d] = n]
      /\ heap' = heap \cup UNION {mine(l) : l \in Layers}
      /\ \A l \in Layers, kind \in {"table", "active"} : FreeIncs(kind, d, l) # {}
  BY DEF Copy, CanCopy
<1>2. \A l \in Layers : /\ IsTable(t[l]) /\ t[l].ent = Entries(a, l)
                        /\ LayerPages(a, l) # {} => t[l].buf # Null
                        /\ IsTail(n[l])
  <2> SUFFICES ASSUME NEW l \in Layers
               PROVE  /\ IsTable(t[l]) /\ t[l].ent = Entries(a, l)
                      /\ LayerPages(a, l) # {} => t[l].buf # Null
                      /\ IsTail(n[l])
    OBVIOUS
  <2>1. t[l] = Refreshed(NoTable, d, l, Entries(a, l), "ok") /\ n[l] = CopiedTail(a, d, l)
    OBVIOUS
  <2>2. IsTable(NoTable)
    BY DEF IsTable, NoTable, Null
  <2>3. FreeIncs("table", d, l) # {} /\ FreeIncs("active", d, l) # {}
    BY <1>1
  <2>4. IsTail(CopiedTail(a, d, l))
    <3> DEFINE x == Fresh("active", d, l)
    <3>1. x \in Int
      BY <2>3, FreshNamed
    <3> HIDE DEF x
    <3>2. IsTail([buf |-> x, staged |-> TRUE]) /\ IsTail(NoActive)
      BY <3>1 DEF IsTail, NoActive, Null
    <3> QED BY <3>2 DEF CopiedTail, x
  <2> QED BY <2>1, <2>2, <2>3, <2>4, EntriesFinite, RefreshedHolds
<1> HIDE DEF t, n
<1>3. /\ DOMAIN table' = Seqs /\ DOMAIN active' = Seqs
      /\ \A u \in Seqs : /\ table'[u] = IF u = d THEN t ELSE table[u]
                         /\ active'[u] = IF u = d THEN n ELSE active[u]
  BY <1>1 DEF BufferInv, BuffersTyped
<1>4. DOMAIN t = Layers /\ DOMAIN n = Layers
  BY DEF t, n
<1>5. BuffersTyped'
  BY <1>2, <1>3, <1>4 DEF BufferInv, BuffersTyped
<1>6. DeadSeqsBare'
  BY <1>1, <1>3 DEF BufferInv, DeadSeqsBare
<1>7. /\ \A l \in Layers : Owned(d, l)' = mine(l)
      /\ \A u \in Seqs, l \in Layers : u # d => Owned(u, l)' = Owned(u, l)
  BY <1>3 DEF Owned, Allocation
<1> HIDE DEF mine
<1>8. HeapOwned'
  <2>1. ASSUME NEW x, x \in heap'
        PROVE  \E u \in live', l \in Layers : x \in Owned(u, l)'
    <3>1. CASE x \in heap
      <4>1. PICK u \in live, l \in Layers : x \in Owned(u, l)
        BY <3>1 DEF BufferInv, HeapOwned
      <4>2. u \in live' /\ u \in Seqs /\ u # d
        BY <1>1, <4>1 DEF IInv, TypeOK
      <4>3. x \in Owned(u, l)'
        BY <1>7, <4>1, <4>2
      <4> QED BY <4>2, <4>3
    <3>2. CASE \E l \in Layers : x \in mine(l)
      <4>1. PICK l \in Layers : x \in mine(l)
        BY <3>2
      <4>2. x \in Owned(d, l)' /\ d \in live'
        BY <1>1, <1>7, <4>1
      <4> QED BY <4>2
    <3> QED BY <1>1, <2>1, <3>1, <3>2
  <2>2. ASSUME NEW u \in live', NEW l \in Layers, NEW x \in Owned(u, l)'
        PROVE  x \in heap'
    <3>1. CASE u = d
      BY <1>1, <1>7, <3>1
    <3>2. CASE u # d
      BY <1>1, <1>7, <3>2 DEF BufferInv, HeapOwned, IInv, TypeOK
    <3> QED BY <3>1, <3>2
  <2> QED BY <2>1, <2>2 DEF HeapOwned
<1>9. TablesBacked'
  <2>1. \A u \in live', l \in Layers :
          LayerPages(u, l)' = IF u = d THEN LayerPages(a, l) ELSE LayerPages(u, l)
    BY <1>1 DEF LayerPages, IInv, TypeOK
  <2> QED BY <1>1, <1>2, <1>3, <2>1 DEF BufferInv, TablesBacked, IInv, TypeOK
<1> QED BY <1>2, <1>3, <1>5, <1>6, <1>8, <1>9 DEF BufferInv

LEMMA RemoveBuffers == ASSUME IInv, BufferInv, NEW s \in Seqs, Remove(s) PROVE BufferInv'
<1>1. /\ s \in live /\ live' = live \ {s}
      /\ refs' = [refs EXCEPT ![s] = {}] /\ UNCHANGED layerOf
      /\ heap' = heap \ Storage(s)
      /\ table' = [table EXCEPT ![s] = [l \in Layers |-> NoTable]]
      /\ active' = [active EXCEPT ![s] = [l \in Layers |-> NoActive]]
  BY DEF Remove
<1>2. /\ DOMAIN table' = Seqs /\ DOMAIN active' = Seqs
      /\ \A u \in Seqs : /\ table'[u] = IF u = s THEN [l \in Layers |-> NoTable] ELSE table[u]
                         /\ active'[u] = IF u = s THEN [l \in Layers |-> NoActive] ELSE active[u]
  BY <1>1 DEF BufferInv, BuffersTyped
<1>3. BuffersTyped'
  BY <1>2 DEF BufferInv, BuffersTyped, IsTable, IsTail, NoTable, NoActive, Null
<1>4. DeadSeqsBare'
  BY <1>1, <1>2 DEF BufferInv, DeadSeqsBare
<1>5. \A u \in Seqs, l \in Layers : u # s => Owned(u, l)' = Owned(u, l)
  BY <1>2 DEF Owned
<1>6. HeapOwned'
  <2>1. \A x : x \in heap' <=> x \in heap /\ \A l \in Layers : x \notin Owned(s, l)
    BY <1>1 DEF Storage
  <2>2. ASSUME NEW x, x \in heap'
        PROVE  \E u \in live', l \in Layers : x \in Owned(u, l)'
    <3>1. PICK u \in live, l \in Layers : x \in Owned(u, l)
      BY <2>1, <2>2 DEF BufferInv, HeapOwned
    <3>2. u # s
      BY <2>1, <2>2, <3>1
    <3> QED BY <1>1, <1>5, <3>1, <3>2 DEF IInv, TypeOK
  <2>3. ASSUME NEW u \in live', NEW l \in Layers, NEW x \in Owned(u, l)'
        PROVE  x \in heap'
    <3>1. u \in live /\ u # s /\ x \in Owned(u, l)
      BY <1>1, <1>5 DEF IInv, TypeOK
    <3>2. x \in heap
      BY <3>1 DEF BufferInv, HeapOwned
    <3>3. \A m \in Layers : x \notin Owned(s, m)
      BY <3>1, OwnedApart
    <3> QED BY <2>1, <3>2, <3>3
  <2> QED BY <2>2, <2>3 DEF HeapOwned
<1>7. TablesBacked'
  <2>1. \A u \in live', l \in Layers : LayerPages(u, l)' = LayerPages(u, l)
    BY <1>1 DEF LayerPages, IInv, TypeOK
  <2> QED BY <1>1, <1>2, <2>1 DEF BufferInv, TablesBacked, IInv, TypeOK
<1> QED BY <1>3, <1>4, <1>6, <1>7 DEF BufferInv

LEMMA BufferStep ==
  ASSUME IInv, BufferInv, "overwrite" \notin Calls, [Next]_vars, faults' = 0
  PROVE  BufferInv'
<1>1. CASE UNCHANGED vars
  BY <1>1, BuffersFrame DEF vars, seqVars, pageVars
<1>2. CASE ExecuteNext
  BY <1>2, ExecuteKeepsCounts, BuffersFrame DEF seqVars
<1>3. ASSUME NEW s \in Seqs, Create(s) \/ Cancel(s) PROVE BufferInv'
  <2>1. UNCHANGED bufVars /\ UNCHANGED <<refs, layerOf>>
    BY <1>3 DEF Create, Cancel, pageVars
  <2>2. live' = live \/ (s \notin live /\ live' = live \cup {s})
    BY <1>3 DEF Create, Cancel
  <2> QED BY <2>1, <2>2, BuffersFrame
<1>4. ASSUME NEW s \in Seqs, NEW l \in Layers, NEW o \in Outcomes,
             Publish(s, l, o) \/ StageActive(s, l, o)
      PROVE  BufferInv'
  <2>1. o = "ok"
    BY <1>4, NoFailure DEF Publish, StageActive
  <2> QED BY <1>4, <2>1, PublishBuffers, StageBuffers
<1>5. \A a, d \in Seqs, k \in Layers, point \in Points : ~CopyFails(a, d, k, point)
  BY NoFailure DEF CopyFails
<1>6. ASSUME NEW s \in Seqs, NEW lo \in 0 .. MaxTokens, NEW hi \in 0 .. MaxTokens,
             NEW delta \in {-1, 1}, Shift(s, lo, hi, delta)
      PROVE  BufferInv'
  <2>1. UNCHANGED bufVars /\ UNCHANGED <<live, refs, layerOf>>
    BY <1>6 DEF Shift, pageVars
  <2> QED BY <2>1, BuffersFrame
<1> QED
  BY <1>1, <1>2, <1>3, <1>4, <1>5, <1>6, CopyBuffers, RemoveBuffers DEF Next, OwnershipNext

LEMMA BufferInvariance ==
  ASSUME "overwrite" \notin Calls
  PROVE  Spec => [](faults = 0 => BufferInv)
<1> DEFINE P == faults = 0 => BufferInv
<1>1. Init => P
  BY InitBufferInv
<1>2. IInv /\ P /\ [Next]_vars => P'
  <2> SUFFICES ASSUME IInv, P, [Next]_vars, faults' = 0 PROVE BufferInv'
    OBVIOUS
  <2>1. faults = 0
    BY FaultsGrow
  <2> QED BY <2>1, BufferStep
<1> QED BY <1>1, <1>2, Invariance, PTL DEF Spec

---------------------------------------------------------------------------
(* Descriptor tables.  A shift moves pages without uploading their table   *)
(* again, so the callers never shift here.                                 *)

\* Every live layer's table lists its pages at the sequence's positions.
TablesListed == \A s \in live, l \in Layers : table[s][l].ent = Entries(s, l)

LEMMA SamePagesSameEntries ==
  ASSUME NEW s, NEW l, LayerPages(s, l)' = LayerPages(s, l),
         \A p \in LayerPages(s, l) : begin'[s][p] = begin[s][p]
  PROVE  Entries(s, l)' = Entries(s, l)
BY DEF Entries

LEMMA PublishListed ==
  ASSUME IInv, BufferInv, TablesListed, NEW s \in Seqs, NEW l \in Layers, Publish(s, l, "ok")
  PROVE  TablesListed'
<1> DEFINE q == nextPage
           pos == PageSize * Cardinality(LayerPages(s, l))
           want == Entries(s, l) \cup {<<q, pos>>}
           r == Refreshed(table[s][l], s, l, want, "ok")
<1>1. /\ s \in live /\ FreeIncs("table", s, l) # {} /\ q \in PageIds
      /\ table' = [table EXCEPT ![s][l] = r]
      /\ begin' = [begin EXCEPT ![s][q] = pos]
      /\ live' = live
  BY DEF Publish
<1>2. IsTable(table[s][l]) /\ IsFiniteSet(want)
  <2>1. IsFiniteSet(Entries(s, l))
    BY EntriesFinite
  <2>2. IsFiniteSet(want)
    BY <2>1, FS_AddElement
  <2> QED BY <2>2 DEF BufferInv, BuffersTyped
<1> HIDE DEF want, pos
<1>3. r.ent = want
  BY <1>1, <1>2, RefreshedHolds
<1> HIDE DEF r
<1>4. \A u \in Seqs, m \in Layers :
        table'[u][m] = IF u = s /\ m = l THEN r ELSE table[u][m]
  BY <1>1 DEF BufferInv, BuffersTyped
<1>5. \A u \in Seqs, m \in Layers :
        LayerPages(u, m)' = IF u = s /\ m = l THEN LayerPages(s, l) \cup {q}
                                              ELSE LayerPages(u, m)
  BY PublishedPages DEF Outcomes
<1>6. \A u \in Seqs, p \in PageIds :
        begin'[u][p] = IF u = s /\ p = q THEN pos ELSE begin[u][p]
  <2> HIDE DEF q
  <2>1. begin \in [Seqs -> [PageIds -> Int]]
    BY DEF IInv, TypeOK
  <2>2. \A u \in Seqs : begin'[u] = IF u = s THEN [begin[s] EXCEPT ![q] = pos] ELSE begin[u]
    BY <1>1, <2>1
  <2> QED BY <2>1, <2>2
<1>7. \A u \in Seqs, m \in Layers : LayerPages(u, m) \subseteq PageIds /\ q \notin LayerPages(u, m)
  <2>1. \A u \in Seqs : refs[u] \subseteq PageIds
    BY DEF IInv, TypeOK
  <2>2. q \in PageIds /\ q >= nextPage
    BY <1>1 DEF PageIds
  <2>3. \A u \in Seqs : q \notin refs[u]
    BY <2>2 DEF IInv, FreshUnused
  <2> QED BY <2>1, <2>3 DEF LayerPages
<1> HIDE DEF q
<1>8. Entries(s, l)' = want
  <2>1. Entries(s, l)' = {<<p, begin'[s][p]>> : p \in LayerPages(s, l) \cup {q}}
    BY <1>5 DEF Entries
  <2>2. \A p \in LayerPages(s, l) : begin'[s][p] = begin[s][p]
    BY <1>6, <1>7
  <2>3. begin'[s][q] = pos
    BY <1>1, <1>6 DEF q
  <2> QED BY <2>1, <2>2, <2>3 DEF Entries, want
<1>9. \A u \in Seqs, m \in Layers : (u # s \/ m # l) => Entries(u, m)' = Entries(u, m)
  <2> SUFFICES ASSUME NEW u \in Seqs, NEW m \in Layers, u # s \/ m # l
               PROVE  Entries(u, m)' = Entries(u, m)
    OBVIOUS
  <2>1. LayerPages(u, m)' = LayerPages(u, m)
    BY <1>5
  <2>2. \A p \in LayerPages(u, m) : begin'[u][p] = begin[u][p]
    BY <1>6, <1>7
  <2> QED BY <2>1, <2>2, SamePagesSameEntries
<1>10. ASSUME NEW u \in live', NEW m \in Layers
       PROVE  table'[u][m].ent = Entries(u, m)'
  <2>1. u \in live /\ u \in Seqs
    BY <1>1 DEF IInv, TypeOK
  <2>2. CASE u = s /\ m = l
    BY <1>3, <1>4, <1>8, <2>1, <2>2
  <2>3. CASE u # s \/ m # l
    BY <1>4, <1>9, <2>1, <2>3 DEF TablesListed
  <2> QED BY <2>2, <2>3
<1> QED BY <1>10 DEF TablesListed

LEMMA CopyListed ==
  ASSUME IInv, BufferInv, TablesListed, "overwrite" \notin Calls,
         NEW a \in Seqs, NEW d \in Seqs, Copy(a, d)
  PROVE  TablesListed'
<1>1. /\ a \in live /\ live' = live \cup {d} /\ UNCHANGED layerOf
      /\ refs' = [refs EXCEPT ![d] = refs[a]]
      /\ begin' = [begin EXCEPT ![d] = begin[a]]
  BY DEF Copy, CanCopy
<1>2. /\ \A l \in Layers : table'[d][l].ent = Entries(a, l)
      /\ \A u \in Seqs, l \in Layers : u # d => table'[u][l] = table[u][l]
  BY CopyBuffers
<1>3. \A l \in Layers : Entries(d, l)' = Entries(a, l)
  BY <1>1 DEF Entries, LayerPages, IInv, TypeOK
<1>4. \A u \in Seqs, l \in Layers : u # d => Entries(u, l)' = Entries(u, l)
  BY <1>1 DEF Entries, LayerPages, IInv, TypeOK
<1>5. ASSUME NEW u \in live', NEW l \in Layers
      PROVE  table'[u][l].ent = Entries(u, l)'
  <2>1. CASE u = d
    BY <1>2, <1>3, <2>1
  <2>2. CASE u # d
    <3>1. u \in live /\ u \in Seqs
      BY <1>1, <2>2 DEF IInv, TypeOK
    <3> QED BY <1>2, <1>4, <2>2, <3>1 DEF TablesListed
  <2> QED BY <2>1, <2>2
<1> QED BY <1>5 DEF TablesListed

LEMMA RemoveListed ==
  ASSUME IInv, BufferInv, TablesListed, NEW s \in Seqs, Remove(s)
  PROVE  TablesListed'
<1>1. /\ live' = live \ {s} /\ UNCHANGED layerOf
      /\ refs' = [refs EXCEPT ![s] = {}]
      /\ begin' = [begin EXCEPT ![s] = [p \in PageIds |-> 0]]
      /\ table' = [table EXCEPT ![s] = [l \in Layers |-> NoTable]]
  BY DEF Remove
<1>2. ASSUME NEW u \in live', NEW l \in Layers
      PROVE  table'[u][l].ent = Entries(u, l)'
  <2>1. u \in live /\ u \in Seqs /\ u # s
    BY <1>1 DEF IInv, TypeOK
  <2>2. refs'[u] = refs[u] /\ begin'[u] = begin[u] /\ table'[u] = table[u]
    BY <1>1, <2>1 DEF IInv, TypeOK, BufferInv, BuffersTyped
  <2>3. Entries(u, l)' = Entries(u, l)
    BY <1>1, <2>2 DEF Entries, LayerPages
  <2> QED BY <2>1, <2>2, <2>3 DEF TablesListed
<1> QED BY <1>2 DEF TablesListed

LEMMA ListedStep ==
  ASSUME IInv, BufferInv, TablesListed, {"overwrite", "shift"} \cap Calls = {},
         [Next]_vars, faults' = 0
  PROVE  TablesListed'
<1>1. ASSUME UNCHANGED <<live, refs, begin, layerOf, table>> PROVE TablesListed'
  BY <1>1 DEF TablesListed, Entries, LayerPages
<1>2. CASE UNCHANGED vars
  BY <1>1, <1>2 DEF vars, seqVars, pageVars, bufVars
<1>3. CASE ExecuteNext
  BY <1>1, <1>3, ExecuteKeepsCounts DEF seqVars, bufVars
<1>4. ASSUME NEW s \in Seqs, Create(s) PROVE TablesListed'
  <2>1. live' = live \cup {s} /\ s \notin live /\ UNCHANGED <<refs, begin, layerOf, table>>
    BY <1>4 DEF Create, pageVars, bufVars
  <2>2. \A l \in Layers : table[s][l].ent = {} /\ Entries(s, l) = {}
    BY <2>1 DEF BufferInv, DeadSeqsBare, NoTable, Entries, LayerPages, IInv, DeadSeqsEmpty
  <2>3. \A u, l : Entries(u, l)' = Entries(u, l)
    BY <2>1 DEF Entries, LayerPages
  <2> QED BY <2>1, <2>2, <2>3 DEF TablesListed
<1>5. ASSUME NEW s \in Seqs, NEW l \in Layers, NEW o \in Outcomes,
             Publish(s, l, o) \/ StageActive(s, l, o)
      PROVE  TablesListed'
  <2>1. o = "ok"
    BY <1>5, NoFailure DEF Publish, StageActive
  <2>2. StageActive(s, l, o) => UNCHANGED <<live, refs, begin, layerOf, table>>
    BY DEF StageActive, seqVars, pageVars
  <2> QED BY <1>1, <1>5, <2>1, <2>2, PublishListed
<1>6. \A a, d \in Seqs, k \in Layers, point \in Points : ~CopyFails(a, d, k, point)
  BY NoFailure DEF CopyFails
<1>7. ASSUME NEW s \in Seqs, Cancel(s) PROVE TablesListed'
  <2>1. UNCHANGED <<live, refs, begin, layerOf, table>>
    BY <1>7 DEF Cancel, pageVars, bufVars
  <2> QED BY <1>1, <2>1
<1>8. \A s \in Seqs, lo, hi \in 0 .. MaxTokens, delta \in {-1, 1} : ~Shift(s, lo, hi, delta)
  BY DEF Shift, MayCall
<1> QED
  BY <1>2, <1>3, <1>4, <1>5, <1>6, <1>7, <1>8, CopyListed, RemoveListed DEF Next, OwnershipNext

LEMMA ListedInvariance ==
  ASSUME {"overwrite", "shift"} \cap Calls = {}
  PROVE  Spec => [](faults = 0 => TablesListed)
<1> DEFINE P == faults = 0 => TablesListed
           B == faults = 0 => BufferInv
<1>1. Init => P
  BY DEF Init, TablesListed
<1>2. IInv /\ B /\ P /\ [Next]_vars => P'
  <2> SUFFICES ASSUME IInv, B, P, [Next]_vars, faults' = 0 PROVE TablesListed'
    OBVIOUS
  <2>1. faults = 0
    BY FaultsGrow
  <2> QED BY <2>1, ListedStep
<1>3. Spec => []B
  BY BufferInvariance
<1> QED BY <1>1, <1>2, <1>3, Invariance, PTL DEF Spec

---------------------------------------------------------------------------
(* Raw pointers, whatever fails.                                           *)

BufferDomains ==
  /\ DOMAIN table = Seqs /\ DOMAIN active = Seqs
  /\ \A s \in Seqs : DOMAIN table[s] = Layers /\ DOMAIN active[s] = Layers

\* What a live sequence points at is allocated, even when calls fail or overwrite.
OwnedAllocated == \A s \in live, l \in Layers : Owned(s, l) \subseteq heap

OwnerInv == BufferDomains /\ DeadSeqsBare /\ OwnedAllocated

LEMMA InitOwnerInv == Init => OwnerInv
<1> SUFFICES ASSUME Init PROVE OwnerInv
  OBVIOUS
<1>1. BufferDomains
  BY DEF Init, BufferDomains
<1>2. DeadSeqsBare /\ OwnedAllocated
  BY DEF Init, DeadSeqsBare, OwnedAllocated
<1> QED BY <1>1, <1>2 DEF OwnerInv

LEMMA PublishOwners ==
  ASSUME IInv, OwnerInv, NEW s \in Seqs, NEW l \in Layers, NEW o \in Outcomes, Publish(s, l, o)
  PROVE  OwnerInv'
<1> DEFINE pos == PageSize * Cardinality(LayerPages(s, l))
           r == Refreshed(table[s][l], s, l, Entries(s, l) \cup {<<nextPage, pos>>}, o)
<1>1. /\ s \in live /\ table' = [table EXCEPT ![s][l] = r]
      /\ heap' = IF r.buf = table[s][l].buf THEN heap
                 ELSE (heap \ Allocation("table", s, l, table[s][l].buf))
                      \cup Allocation("table", s, l, r.buf)
      /\ UNCHANGED <<live, active>>
  BY DEF Publish
<1> HIDE DEF r
<1>2. /\ DOMAIN table' = Seqs /\ \A u \in Seqs : DOMAIN table'[u] = Layers
      /\ \A u \in Seqs, m \in Layers :
           table'[u][m] = IF u = s /\ m = l THEN r ELSE table[u][m]
  BY <1>1 DEF OwnerInv, BufferDomains
<1>3. BufferDomains' /\ DeadSeqsBare'
  BY <1>1, <1>2 DEF OwnerInv, BufferDomains, DeadSeqsBare
<1>4. ASSUME NEW u \in live', NEW m \in Layers, NEW x \in Owned(u, m)'
      PROVE  x \in heap'
  <2>1. u \in live /\ u \in Seqs
    BY <1>1 DEF IInv, TypeOK
  <2>2. CASE u = s /\ m = l
    <3>1. x \in Allocation("table", s, l, r.buf) \/ x \in Allocation("active", s, l, active[s][l].buf)
      BY <1>1, <1>2, <2>1, <2>2 DEF Owned
    <3>2. Owned(s, l) \subseteq heap
      BY <1>1 DEF OwnerInv, OwnedAllocated
    <3>3. /\ Allocation("table", s, l, table[s][l].buf) \subseteq heap
          /\ Allocation("active", s, l, active[s][l].buf) \subseteq heap
          /\ Allocation("active", s, l, active[s][l].buf)
               \cap Allocation("table", s, l, table[s][l].buf) = {}
      BY <3>2 DEF Owned, Allocation
    <3> QED BY <1>1, <3>1, <3>3
  <2>3. CASE u # s \/ m # l
    <3>1. x \in Owned(u, m)
      BY <1>1, <1>2, <2>1, <2>3 DEF Owned
    <3>2. x \in heap /\ x \notin Owned(s, l)
      BY <2>1, <2>3, <3>1, OwnedApart DEF OwnerInv, OwnedAllocated
    <3> QED BY <1>1, <3>2 DEF Owned
  <2> QED BY <2>2, <2>3
<1> QED BY <1>3, <1>4 DEF OwnerInv, OwnedAllocated

LEMMA StageOwners ==
  ASSUME IInv, OwnerInv, NEW s \in Seqs, NEW l \in Layers, NEW o \in Outcomes, StageActive(s, l, o)
  PROVE  OwnerInv'
<1> DEFINE a == active[s][l]
           b == IF a.buf = Null THEN Fresh("active", s, l) ELSE a.buf
           n == [buf |-> b, staged |-> a.staged \/ o = "ok"]
<1>1. /\ s \in live /\ UNCHANGED <<live, table>>
      /\ \/ UNCHANGED <<active, heap>>
         \/ /\ active' = [active EXCEPT ![s][l] = n]
            /\ heap' = heap \cup {<<"active", s, l, b>>}
  BY DEF StageActive, seqVars
<1>2. n.buf = b
  OBVIOUS
<1> HIDE DEF n, b
<1>3. CASE UNCHANGED <<active, heap>>
  BY <1>1, <1>3 DEF OwnerInv, BufferDomains, DeadSeqsBare, OwnedAllocated, Owned
<1>4. CASE /\ active' = [active EXCEPT ![s][l] = n]
           /\ heap' = heap \cup {<<"active", s, l, b>>}
  <2>1. /\ DOMAIN active' = Seqs /\ \A u \in Seqs : DOMAIN active'[u] = Layers
        /\ \A u \in Seqs, m \in Layers :
             active'[u][m] = IF u = s /\ m = l THEN n ELSE active[u][m]
    BY <1>4 DEF OwnerInv, BufferDomains
  <2>2. BufferDomains' /\ DeadSeqsBare'
    BY <1>1, <2>1 DEF OwnerInv, BufferDomains, DeadSeqsBare
  <2>3. ASSUME NEW u \in live', NEW m \in Layers, NEW x \in Owned(u, m)'
        PROVE  x \in heap'
    <3>1. u \in live /\ u \in Seqs
      BY <1>1 DEF IInv, TypeOK
    <3>2. x \in Owned(u, m) \/ x = <<"active", s, l, b>>
      BY <1>1, <1>2, <2>1, <3>1 DEF Owned, Allocation
    <3> QED BY <1>4, <3>1, <3>2 DEF OwnerInv, OwnedAllocated
  <2> QED BY <2>2, <2>3 DEF OwnerInv, OwnedAllocated
<1> QED BY <1>1, <1>3, <1>4

LEMMA CopyOwners ==
  ASSUME IInv, OwnerInv, NEW a \in Seqs, NEW d \in Seqs, Copy(a, d)
  PROVE  OwnerInv'
<1> DEFINE t == [l \in Layers |-> Refreshed(NoTable, d, l, Entries(a, l), "ok")]
           n == [l \in Layers |-> CopiedTail(a, d, l)]
           mine(l) == Allocation("table", d, l, t[l].buf) \cup Allocation("active", d, l, n[l].buf)
<1>1. /\ live' = live \cup {d}
      /\ table' = [table EXCEPT ![d] = t]
      /\ active' = [active EXCEPT ![d] = n]
      /\ heap' = heap \cup UNION {mine(l) : l \in Layers}
  BY DEF Copy
<1>2. DOMAIN t = Layers /\ DOMAIN n = Layers
  OBVIOUS
<1> HIDE DEF t, n
<1>3. /\ DOMAIN table' = Seqs /\ DOMAIN active' = Seqs
      /\ \A u \in Seqs : /\ table'[u] = IF u = d THEN t ELSE table[u]
                         /\ active'[u] = IF u = d THEN n ELSE active[u]
  BY <1>1 DEF OwnerInv, BufferDomains
<1>4. BufferDomains' /\ DeadSeqsBare'
  BY <1>1, <1>2, <1>3 DEF OwnerInv, BufferDomains, DeadSeqsBare
<1>5. ASSUME NEW u \in live', NEW m \in Layers, NEW x \in Owned(u, m)'
      PROVE  x \in heap'
  <2>1. CASE u = d
    <3>1. x \in mine(m)
      BY <1>3, <2>1 DEF Owned
    <3> QED BY <1>1, <3>1
  <2>2. CASE u # d
    <3>1. u \in live /\ u \in Seqs
      BY <1>1, <2>2 DEF IInv, TypeOK
    <3>2. x \in Owned(u, m)
      BY <1>3, <2>2, <3>1 DEF Owned
    <3> QED BY <1>1, <3>1, <3>2 DEF OwnerInv, OwnedAllocated
  <2> QED BY <2>1, <2>2
<1> QED BY <1>4, <1>5 DEF OwnerInv, OwnedAllocated

LEMMA RemoveOwners == ASSUME IInv, OwnerInv, NEW s \in Seqs, Remove(s) PROVE OwnerInv'
<1>1. /\ live' = live \ {s} /\ heap' = heap \ Storage(s)
      /\ table' = [table EXCEPT ![s] = [l \in Layers |-> NoTable]]
      /\ active' = [active EXCEPT ![s] = [l \in Layers |-> NoActive]]
  BY DEF Remove
<1>2. /\ DOMAIN table' = Seqs /\ DOMAIN active' = Seqs
      /\ \A u \in Seqs : /\ table'[u] = IF u = s THEN [l \in Layers |-> NoTable] ELSE table[u]
                         /\ active'[u] = IF u = s THEN [l \in Layers |-> NoActive] ELSE active[u]
  BY <1>1 DEF OwnerInv, BufferDomains
<1>3. BufferDomains' /\ DeadSeqsBare'
  BY <1>1, <1>2 DEF OwnerInv, BufferDomains, DeadSeqsBare
<1>4. ASSUME NEW u \in live', NEW m \in Layers, NEW x \in Owned(u, m)'
      PROVE  x \in heap'
  <2>1. u \in live /\ u # s /\ u \in Seqs
    BY <1>1 DEF IInv, TypeOK
  <2>2. x \in Owned(u, m)
    BY <1>2, <2>1 DEF Owned
  <2>3. x \in heap
    BY <2>1, <2>2 DEF OwnerInv, OwnedAllocated
  <2>4. \A l \in Layers : x \notin Owned(s, l)
    BY <2>1, <2>2, OwnedApart
  <2> QED BY <1>1, <2>3, <2>4 DEF Storage
<1> QED BY <1>3, <1>4 DEF OwnerInv, OwnedAllocated

LEMMA OwnerStep == ASSUME IInv, OwnerInv, [Next]_vars PROVE OwnerInv'
<1>1. ASSUME UNCHANGED bufVars, live' = live \/ \E s \in Seqs \ live : live' = live \cup {s}
      PROVE  OwnerInv'
  <2>1. BufferDomains' /\ DeadSeqsBare'
    BY <1>1 DEF bufVars, OwnerInv, BufferDomains, DeadSeqsBare
  <2>2. \A s \in Seqs \ live, l \in Layers : Owned(s, l) = {}
    BY DEF OwnerInv, DeadSeqsBare, Owned, Allocation, NoTable, NoActive
  <2>3. \A s, l : Owned(s, l)' = Owned(s, l)
    BY <1>1 DEF bufVars, Owned
  <2>4. OwnedAllocated'
    BY <1>1, <2>2, <2>3 DEF bufVars, OwnerInv, OwnedAllocated
  <2> QED BY <2>1, <2>4 DEF OwnerInv
<1>2. CASE UNCHANGED vars
  BY <1>1, <1>2 DEF vars, seqVars
<1>3. CASE ExecuteNext
  BY <1>1, <1>3, ExecuteKeepsCounts DEF seqVars
<1>4. ASSUME NEW s \in Seqs, Create(s) \/ Cancel(s) PROVE OwnerInv'
  <2>1. UNCHANGED bufVars /\ (live' = live \/ (s \notin live /\ live' = live \cup {s}))
    BY <1>4 DEF Create, Cancel
  <2> QED BY <1>1, <2>1
<1>5. ASSUME NEW a \in Seqs, NEW d \in Seqs, NEW k \in Layers, NEW point \in Points,
             CopyFails(a, d, k, point)
      PROVE  OwnerInv'
  <2>1. UNCHANGED <<live, table, active>> /\ heap \subseteq heap'
    BY <1>5 DEF CopyFails, seqVars
  <2>2. \A s, l : Owned(s, l)' = Owned(s, l)
    BY <2>1 DEF Owned
  <2> QED BY <2>1, <2>2 DEF OwnerInv, BufferDomains, DeadSeqsBare, OwnedAllocated
<1>6. ASSUME NEW s \in Seqs, NEW lo \in 0 .. MaxTokens, NEW hi \in 0 .. MaxTokens,
             NEW delta \in {-1, 1}, Shift(s, lo, hi, delta)
      PROVE  OwnerInv'
  <2>1. UNCHANGED bufVars /\ UNCHANGED live
    BY <1>6 DEF Shift
  <2> QED BY <1>1, <2>1
<1> QED
  BY <1>2, <1>3, <1>4, <1>5, <1>6, PublishOwners, StageOwners, CopyOwners, RemoveOwners
  DEF Next, OwnershipNext

LEMMA OwnerInvariance == Spec => []OwnerInv
<1>1. IInv /\ OwnerInv /\ [Next]_vars => OwnerInv'
  BY OwnerStep
<1> QED BY <1>1, InitOwnerInv, Invariance, PTL DEF Spec

\* Snapshots to be launched, by batch.
UnlaunchedOf(w) == {batch[w][j] : j \in launched[w] + 1 .. Len(batch[w])}

LEMMA UnlaunchedHeld ==
  ASSUME IInv, HeldInv
  PROVE  /\ \A i : i \in Unlaunched <=> \E w \in Workers \ unwinding : i \in UnlaunchedOf(w)
         /\ \A w \in Workers : UnlaunchedOf(w) \subseteq BatchSlots(w) /\ BatchSlots(w) \subseteq Slots
         /\ \A w \in Workers : \A i \in BatchSlots(w) : slot[i].ref = "held"
<1>1. \A i : i \in Unlaunched <=> \E w \in Workers \ unwinding : i \in UnlaunchedOf(w)
  BY DEF Unlaunched, UnlaunchedOf
<1>2. ASSUME NEW w \in Workers PROVE UnlaunchedOf(w) \subseteq BatchSlots(w) /\ BatchSlots(w) \subseteq Slots
  <2>1. batch[w] \in Seq(Slots) /\ launched[w] \in Nat
    BY DEF IInv, TypeOK
  <2>2. \A j \in launched[w] + 1 .. Len(batch[w]) : j \in DOMAIN batch[w]
    BY <2>1
  <2> QED BY <2>2, BatchSlotsTyped DEF UnlaunchedOf, BatchSlots
<1> QED BY <1>1, <1>2 DEF HeldInv, BatchesHeld

\* A step under which nothing is freed and no new snapshot is to be launched.
LEMMA PointersKept ==
  ASSUME heap \subseteq heap',
         \A i \in Unlaunched' : i \in Unlaunched /\ slot'[i] = slot[i] /\ ptr'[i] = ptr[i]
  PROVE  OwnersFree
<1>1. \A i \in Unlaunched' : SnapStorage(i)' = SnapStorage(i)
  BY DEF SnapStorage
<1> QED BY <1>1 DEF OwnersFree, Dangles

\* A step of one batch that launches no more, or of none, leaves the others alone.
LEMMA OthersKept ==
  ASSUME IInv, HeldInv, HeldInv', IInv', UNCHANGED heap, NEW w \in Workers,
         w \in unwinding' \/ batch'[w] = <<>>,
         \A v \in Workers \ {w} : /\ batch'[v] = batch[v] /\ launched'[v] = launched[v]
                                  /\ v \in unwinding => v \in unwinding',
         \A i \in Slots : \/ slot'[i] = slot[i] /\ ptr'[i] = ptr[i]
                          \/ i \in BatchSlots(w) \/ slot[i].ref # "held"
  PROVE  OwnersFree
<1> SUFFICES ASSUME NEW i \in Unlaunched'
             PROVE  i \in Unlaunched /\ slot'[i] = slot[i] /\ ptr'[i] = ptr[i]
  BY PointersKept
<1>1. PICK v \in Workers \ unwinding' : i \in UnlaunchedOf(v)'
  BY DEF Unlaunched, UnlaunchedOf
<1>2. v # w
  <2>1. SUFFICES ASSUME v = w PROVE FALSE
    OBVIOUS
  <2>2. batch'[w] = <<>> /\ launched'[w] \in Nat
    BY <1>1, <2>1 DEF IInv, TypeOK
  <2> QED BY <1>1, <2>1, <2>2 DEF UnlaunchedOf
<1>3. v \notin unwinding /\ i \in UnlaunchedOf(v)
  BY <1>1, <1>2 DEF UnlaunchedOf
<1>4. i \in Unlaunched /\ i \in BatchSlots(v) /\ i \in Slots /\ slot[i].ref = "held"
  BY <1>3, UnlaunchedHeld
<1>5. i \notin BatchSlots(w)
  BY <1>2, <1>4 DEF HeldInv, BatchesHeld
<1> QED BY <1>4, <1>5

\* Names of the allocations a snapshot points at and an owner has.
LEMMA StorageNames ==
  /\ \A i : \A x \in SnapStorage(i) : x[2] = slot[i].seq /\ x[3] = slot[i].layer
  /\ \A s, l : \A x \in Owned(s, l) : x[2] = s /\ x[3] = l
  /\ \A s, l, b : \A x \in Allocation("table", s, l, b) : x[2] = s /\ x[3] = l
BY DEF SnapStorage, Owned, Allocation

LEMMA OwnershipFrees ==
  ASSUME IInv, HeldInv, OwnerInv, OwnershipNext
  PROVE  OwnersFree
<1>1. UNCHANGED execVars
  BY OwnershipFaults
<1>2. Unlaunched' = Unlaunched /\ \A i : SnapStorage(i)' = SnapStorage(i)
  BY <1>1 DEF execVars, Unlaunched, SnapStorage
<1> SUFFICES ASSUME NEW i \in Unlaunched, ~Dangles(i), NEW x \in SnapStorage(i), x \notin heap'
             PROVE  FreedByOwner(i)
  BY <1>2 DEF OwnersFree, Dangles
<1>3. x \in heap /\ ~(heap \subseteq heap')
  BY DEF Dangles
<1>4. x[2] = slot[i].seq /\ x[3] = slot[i].layer
  BY StorageNames
<1>5. ASSUME NEW s \in Seqs, Remove(s) PROVE FreedByOwner(i)
  <2>1. x \in Storage(s)
    BY <1>3, <1>5 DEF Remove
  <2>2. x[2] = s
    BY <2>1, StorageNames DEF Storage
  <2> QED BY <1>4, <1>5, <2>2 DEF FreedByOwner
<1>6. ASSUME NEW s \in Seqs, NEW l \in Layers, NEW o \in Outcomes, Publish(s, l, o)
      PROVE  FreedByOwner(i)
  <2> DEFINE new == <<nextPage, PageSize * Cardinality(LayerPages(s, l))>>
             r == Refreshed(table[s][l], s, l, Entries(s, l) \cup {new}, o)
  <2>1. heap' = IF r.buf = table[s][l].buf THEN heap
                ELSE (heap \ Allocation("table", s, l, table[s][l].buf))
                     \cup Allocation("table", s, l, r.buf)
    BY <1>6 DEF Publish
  <2> HIDE DEF r
  <2>2. x \in Allocation("table", s, l, table[s][l].buf) /\ r.buf # table[s][l].buf
    BY <1>3, <2>1
  <2>3. slot[i].seq = s /\ slot[i].layer = l
    BY <1>4, <2>2, StorageNames
  <2>4. table'[s][l] = r
    BY <1>6 DEF Publish, r, OwnerInv, BufferDomains
  <2> QED BY <1>6, <2>2, <2>3, <2>4 DEF FreedByOwner
<1>7. ASSUME NEW s \in Seqs, Create(s) \/ Cancel(s) PROVE FALSE
  <2>1. heap' = heap
    BY <1>7 DEF Create, Cancel, bufVars
  <2> QED BY <1>3, <2>1
<1>8. ASSUME NEW s \in Seqs, NEW l \in Layers, NEW o \in Outcomes, StageActive(s, l, o) PROVE FALSE
  <2>1. heap \subseteq heap'
    BY <1>8 DEF StageActive
  <2> QED BY <1>3, <2>1
<1>9. ASSUME NEW a \in Seqs, NEW d \in Seqs, Copy(a, d) PROVE FALSE
  <2>1. heap \subseteq heap'
    BY <1>9 DEF Copy
  <2> QED BY <1>3, <2>1
<1>10. ASSUME NEW a \in Seqs, NEW d \in Seqs, NEW k \in Layers, NEW point \in Points,
              CopyFails(a, d, k, point)
       PROVE  FALSE
  <2>1. heap \subseteq heap'
    BY <1>10 DEF CopyFails
  <2> QED BY <1>3, <2>1
<1>11. ASSUME NEW s \in Seqs, NEW lo \in 0 .. MaxTokens, NEW hi \in 0 .. MaxTokens,
              NEW delta \in {-1, 1}, Shift(s, lo, hi, delta)
       PROVE  FALSE
  <2>1. heap' = heap
    BY <1>11 DEF Shift, bufVars
  <2> QED BY <1>3, <2>1
<1> QED BY <1>5, <1>6, <1>7, <1>8, <1>9, <1>10, <1>11 DEF OwnershipNext

\* What a new snapshot points at is allocated: its sequence owns it.
LEMMA AcquireFrees ==
  ASSUME IInv, HeldInv, IInv', HeldInv', OwnerInv, NEW w \in Workers, NEW n \in 1 .. MaxBatch,
         NEW items \in [1 .. n -> Item], NEW f \in [1 .. n -> Slots],
         Acquire(w, n, items, f) \/ AcquireFails(w, n, items, f)
  PROVE  OwnersFree
<1> DEFINE T == {f[j] : j \in 1 .. n}
           item(i) == items[CHOOSE j \in 1 .. n : f[j] = i]
<1>1. /\ TakeSnapshots(w, n, items, f)
      /\ unwinding' = unwinding \/ (unwinding' = unwinding \cup {w} /\ w \in unwinding')
  BY DEF Acquire, AcquireFails
<1>2. /\ \A j \in 1 .. n : items[j][1] \in disp
      /\ slot' = [i \in Slots |-> IF i \in T THEN Snapshot(item(i)[1], item(i)[2]) ELSE slot[i]]
      /\ ptr' = [i \in Slots |-> IF i \in T THEN Pointers(item(i)[1], item(i)[2]) ELSE ptr[i]]
      /\ batch' = [batch EXCEPT ![w] = f]
      /\ UNCHANGED <<bufVars, launched>>
  BY <1>1 DEF TakeSnapshots
<1>3. \A i \in T : item(i)[1] \in live /\ item(i)[2] \in Layers
  BY <1>2 DEF Item, IInv, TypeOK
<1>4. /\ T \subseteq Slots /\ T \cap Outstanding = {} /\ IsFiniteSet(T) /\ Cardinality(T) = n
      /\ \A i \in T : slot'[i].ref = "held"
      /\ \A i \in Slots \ T : slot'[i] = slot[i]
      /\ \A v \in Workers : BatchSlots(v)' = IF v = w THEN T ELSE BatchSlots(v)
      /\ \A v \in Workers : BatchSlots(v) \subseteq Outstanding /\ (v = w => BatchSlots(v) = {})
      /\ balance' = balance + n /\ UNCHANGED stream
  BY <1>1, TakenSlots
<1> HIDE DEF T, item
<1>5. ASSUME NEW i \in T PROVE ~Dangles(i)'
  <2>1. slot'[i] = Snapshot(item(i)[1], item(i)[2]) /\ ptr'[i] = Pointers(item(i)[1], item(i)[2])
    BY <1>2, <1>4
  <2>2. /\ slot'[i].seq = item(i)[1] /\ slot'[i].layer = item(i)[2]
        /\ ptr'[i].table = table[item(i)[1]][item(i)[2]].buf
        /\ ptr'[i].active = active[item(i)[1]][item(i)[2]].buf
    BY <2>1 DEF Snapshot, Pointers
  <2>3. SnapStorage(i)' = Owned(item(i)[1], item(i)[2])
    BY <2>2 DEF SnapStorage, Owned
  <2> QED BY <1>2, <1>3, <2>3 DEF OwnerInv, OwnedAllocated, bufVars, Dangles
<1>6. ASSUME NEW i \in Unlaunched', i \notin T
      PROVE  i \in Unlaunched /\ SnapStorage(i)' = SnapStorage(i)
  <2>1. PICK v \in Workers \ unwinding' : i \in UnlaunchedOf(v)'
    BY DEF Unlaunched, UnlaunchedOf
  <2>2. i \in BatchSlots(v)' /\ BatchSlots(v)' \subseteq Slots
    <3>1. batch'[v] \in Seq(Slots) /\ launched'[v] \in Nat
      BY DEF IInv, TypeOK
    <3>2. \A j \in launched'[v] + 1 .. Len(batch'[v]) : j \in DOMAIN batch'[v]
      BY <3>1
    <3> QED BY <2>1, <3>1, <3>2 DEF UnlaunchedOf, BatchSlots
  <2>3. v # w
    BY <1>4, <1>6, <2>2
  <2>4. v \notin unwinding /\ UnlaunchedOf(v)' = UnlaunchedOf(v)
    BY <1>1, <1>2, <2>3 DEF UnlaunchedOf
  <2>5. i \in Unlaunched
    BY <2>1, <2>4, UnlaunchedHeld
  <2>6. slot'[i] = slot[i] /\ ptr'[i] = ptr[i]
    BY <1>2, <1>6, <2>2
  <2> QED BY <2>5, <2>6 DEF SnapStorage
<1> QED BY <1>2, <1>5, <1>6 DEF OwnersFree, Dangles, bufVars

LEMMA ExecuteFrees ==
  ASSUME IInv, HeldInv, IInv', HeldInv', OwnerInv, ExecuteNext
  PROVE  OwnersFree
<1>1. ASSUME NEW w \in Workers, Launch(w) PROVE OwnersFree
  <2>1. UNCHANGED <<heap, slot, ptr, batch, unwinding>> /\ launched' = [launched EXCEPT ![w] = @ + 1]
    BY <1>1 DEF Launch, bufVars
  <2>2. \A v \in Workers : launched[v] \in Nat /\ launched'[v] \in Nat /\ launched[v] <= launched'[v]
    BY <2>1 DEF IInv, TypeOK
  <2>3. ASSUME NEW v \in Workers, NEW j \in launched'[v] + 1 .. Len(batch[v])
        PROVE  j \in launched[v] + 1 .. Len(batch[v])
    <3>1. Len(batch[v]) \in Nat
      BY DEF IInv, TypeOK
    <3> QED BY <2>2, <3>1
  <2>4. Unlaunched' \subseteq Unlaunched
    <3> SUFFICES ASSUME NEW i \in Unlaunched' PROVE i \in Unlaunched
      OBVIOUS
    <3>1. PICK v \in Workers \ unwinding : i \in UnlaunchedOf(v)'
      BY <2>1 DEF Unlaunched, UnlaunchedOf
    <3>2. PICK j \in launched'[v] + 1 .. Len(batch[v]) : i = batch[v][j]
      BY <2>1, <3>1 DEF UnlaunchedOf
    <3>3. i \in UnlaunchedOf(v)
      BY <2>3, <3>2 DEF UnlaunchedOf
    <3> QED BY <3>1, <3>3, UnlaunchedHeld
  <2> QED BY <2>1, <2>4, PointersKept
<1>2. ASSUME NEW w \in Workers, Return(w), UNCHANGED heap,
             \A i \in Slots : slot'[i] = slot[i] \/ i \in BatchSlots(w)
      PROVE  OwnersFree
  <2>1. batch'[w] = <<>>
    BY <1>2 DEF Return, IInv, TypeOK
  <2>2. \A v \in Workers \ {w} : /\ batch'[v] = batch[v] /\ launched'[v] = launched[v]
                                 /\ v \in unwinding => v \in unwinding'
    BY <1>2 DEF Return, IInv, TypeOK
  <2>3. \A i \in Slots : \/ slot'[i] = slot[i] /\ ptr'[i] = ptr[i]
                         \/ i \in BatchSlots(w) \/ slot[i].ref # "held"
    <3>1. \A i \in Slots : i \notin BatchSlots(w) => ptr'[i] = ptr[i]
      BY <1>2 DEF Return
    <3> QED BY <1>2, <3>1
  <2> QED BY <1>2, <2>1, <2>2, <2>3, OthersKept
<1>3. ASSUME NEW w \in Workers, Record(w) \/ Unwind(w) PROVE OwnersFree
  <2>1. CASE Record(w)
    <3>1. /\ Return(w) /\ UNCHANGED heap
          /\ \A i \in Slots : slot'[i] = slot[i] \/ i \in BatchSlots(w)
      BY <2>1 DEF Record, Pending, bufVars
    <3> QED BY <1>2, <3>1
  <2>2. CASE Unwind(w)
    <3>1. /\ Return(w) /\ UNCHANGED heap
          /\ \A i \in Slots : slot'[i] = slot[i] \/ i \in BatchSlots(w)
      BY <2>2 DEF Unwind, bufVars
    <3> QED BY <1>2, <3>1
  <2> QED BY <1>3, <2>1, <2>2
<1>4. ASSUME NEW w \in Workers, LaunchFails(w) PROVE OwnersFree
  <2>1. UNCHANGED <<heap, slot, ptr, batch, launched>> /\ unwinding' = unwinding \cup {w}
    BY <1>4 DEF LaunchFails, bufVars
  <2> QED BY <2>1, OthersKept
<1>5. ASSUME NEW w \in Workers, NEW k \in 1 .. MaxBatch, RecordFails(w, k) PROVE OwnersFree
  <2> DEFINE q == batch[w]
             B == {q[j] : j \in {i \in DOMAIN q : i < k}}
  <2>1. /\ k \in DOMAIN q
        /\ slot' = [Pending(B) EXCEPT ![q[k]].ref = "leaked"]
        /\ ptr' = [i \in Slots |-> IF i \in BatchSlots(w) THEN NoPtr ELSE ptr[i]]
        /\ batch' = [batch EXCEPT ![w] = SubSeq(q, k + 1, Len(q))]
        /\ unwinding' = unwinding \cup {w} /\ UNCHANGED <<heap, launched>>
    BY <1>5 DEF RecordFails, bufVars
  <2>2. B \cup {q[k]} \subseteq BatchSlots(w)
    BY <2>1 DEF BatchSlots
  <2> HIDE DEF B
  <2>3. \A i \in Slots : i \notin BatchSlots(w) => slot'[i] = slot[i] /\ ptr'[i] = ptr[i]
    BY <2>1, <2>2 DEF Pending
  <2>4. \A v \in Workers \ {w} : batch'[v] = batch[v]
    BY <2>1 DEF IInv, TypeOK
  <2> QED BY <2>1, <2>3, <2>4, OthersKept
<1>6. ASSUME DeviceStep PROVE OwnersFree
  <2>1. UNCHANGED <<heap, slot, ptr, batch, launched, unwinding>>
    BY <1>6 DEF DeviceStep, bufVars
  <2> QED BY <2>1, PointersKept DEF Unlaunched
<1>7. ASSUME UNCHANGED <<heap, ptr, batch, launched, unwinding>>, NEW D \in SUBSET Completed,
             slot' = [i \in Slots |-> IF i \in D THEN NoSnap ELSE slot[i]]
      PROVE  OwnersFree
  <2>1. Unlaunched' = Unlaunched
    BY <1>7 DEF Unlaunched
  <2>2. \A i \in Unlaunched : i \in Slots /\ slot[i].ref = "held"
    BY UnlaunchedHeld
  <2>3. \A i \in Unlaunched : slot'[i] = slot[i]
    BY <1>7, <2>2 DEF Completed
  <2> QED BY <1>7, <2>1, <2>3, PointersKept
<1>8. CASE Reclaim
  <2>1. /\ UNCHANGED <<heap, ptr, batch, launched, unwinding>>
        /\ slot' = [i \in Slots |-> IF i \in Completed THEN NoSnap ELSE slot[i]]
    BY <1>8 DEF Reclaim, bufVars
  <2> QED BY <1>7, <2>1
<1>9. ASSUME NEW D \in SUBSET Slots, ReclaimFails(D) PROVE OwnersFree
  <2>1. /\ UNCHANGED <<heap, ptr, batch, launched, unwinding>> /\ D \in SUBSET Completed
        /\ slot' = [i \in Slots |-> IF i \in D THEN NoSnap ELSE slot[i]]
    BY <1>9 DEF ReclaimFails, bufVars
  <2> QED BY <1>7, <2>1
<1> QED BY <1>1, <1>3, <1>4, <1>5, <1>6, <1>8, <1>9, AcquireFrees DEF ExecuteNext

---------------------------------------------------------------------------
(* Theorems. *)

\* While no CUDA call has failed, a kernel still queued on the device never
\* reads a page that reclaim has erased, whatever is called meanwhile.
THEOREM KernelsReadLivePages == Spec => [](faults = 0 => KernelPagesKept)
<1>1. ASSUME IInv, BatchInv PROVE KernelPagesKept
  <2> SUFFICES ASSUME NEW p \in RunningPages PROVE pstate[p] \in {"live", "retired"}
    BY DEF KernelPagesKept
  <2>1. PICK j \in DOMAIN stream : stream[j].op = "kernel" /\ p \in stream[j].pages
    BY DEF RunningPages
  <2>2. PICK i \in Slots : Covers(i, j)
    BY <1>1, <2>1 DEF BatchInv, KernelsCovered
  <2>3. i \in Outstanding /\ p \in slot[i].pages
    BY <2>1, <2>2 DEF Covers, Outstanding
  <2> QED BY <1>1, <2>3 DEF IInv, SnapshotPagesKept
<1>2. IInv /\ (faults = 0 => BatchInv) => (faults = 0 => KernelPagesKept)
  BY <1>1
<1> QED BY <1>2, Invariance, BatchInvariance, PTL

\* While no CUDA call has failed and no copy replaces a live sequence, the
\* audit passes: references resolve and every count is the number it stands for.
THEOREM AuditHolds ==
  ASSUME "overwrite" \notin Calls
  PROVE  Spec => [](faults = 0 => AuditPasses)
<1>1. IInv /\ CountInv => AuditPasses
  BY DEF IInv, CountInv, LogicalExact, AuditPasses
<1>2. IInv /\ (faults = 0 => CountInv) => (faults = 0 => AuditPasses)
  BY <1>1
<1> QED BY <1>2, Invariance, CountInvariance, PTL

\* Under the same calls nothing is lost: every allocation is owned, every
\* snapshot counted as acquired is held or released, every page that no
\* sequence references has been retired.
THEOREM NothingLost ==
  ASSUME "overwrite" \notin Calls
  PROVE  Spec => [](faults = 0 => NothingLeaks)
<1>1. ASSUME BatchInv, CountInv, BufferInv PROVE NothingLeaks
  <2>1. heap = UNION {Owned(s, l) : s \in live, l \in Layers}
    BY <1>1 DEF BufferInv, HeapOwned
  <2> QED BY <1>1, <2>1 DEF BatchInv, BalanceExact, CountInv, LiveReferenced, NothingLeaks
<1>2. /\ (faults = 0 => BatchInv) /\ (faults = 0 => CountInv) /\ (faults = 0 => BufferInv)
      => (faults = 0 => NothingLeaks)
  BY <1>1
<1> QED BY <1>2, BatchInvariance, CountInvariance, BufferInvariance, PTL

\* Without a shift either, the table a kernel would read is allocated and lists
\* the pages of its layer at the positions the sequence gives them.
THEOREM TablesCurrent ==
  ASSUME {"overwrite", "shift"} \cap Calls = {}
  PROVE  Spec => [](faults = 0 => TableCurrent)
<1>1. ASSUME BufferInv, TablesListed PROVE TableCurrent
  <2> SUFFICES ASSUME NEW s \in live, NEW l \in Layers, LayerPages(s, l) # {}
               PROVE  <<"table", s, l, table[s][l].buf>> \in heap
    BY <1>1 DEF TablesListed, TableCurrent
  <2>1. table[s][l].buf # Null
    BY <1>1 DEF BufferInv, TablesBacked
  <2>2. <<"table", s, l, table[s][l].buf>> \in Owned(s, l)
    BY <2>1 DEF Owned, Allocation
  <2> QED BY <1>1, <2>2 DEF BufferInv, HeapOwned
<1>2. (faults = 0 => BufferInv) /\ (faults = 0 => TablesListed) => (faults = 0 => TableCurrent)
  BY <1>1
<1>3. Spec => [](faults = 0 => BufferInv)
  BY BufferInvariance
<1>4. Spec => [](faults = 0 => TablesListed)
  BY ListedInvariance
<1> QED BY <1>2, <1>3, <1>4, PTL

\* Whatever calls fail and however they interleave, a batch comes to hold a
\* pointer to a freed buffer in one of two ways: its sequence is removed, or a
\* publication to its layer outgrows the table, between its two halves.  What the
\* run resolver_reset_race shows has no other cause.
THEOREM OwnersFreeBuffers == Spec => OnlyOwnersFree
<1>1. IInv /\ HeldInv /\ IInv' /\ HeldInv' /\ OwnerInv /\ [Next]_vars => [OwnersFree]_vars
  BY OwnershipFrees, ExecuteFrees DEF Next
<1> QED BY <1>1, Invariance, HeldInvariance, OwnerInvariance, PTL DEF Spec, OnlyOwnersFree

\* While no CUDA call has failed and no copy replaces a live sequence, a reclaim
\* of an idle device outside every batch leaves nothing to reclaim.
THEOREM ReclaimLeavesNothing ==
  ASSUME "overwrite" \notin Calls
  PROVE  Spec => ReclaimSettles
<1>1. ASSUME IInv, IInv', faults = 0 => BatchInv, faults = 0 => CountInv PROVE Settles
  <2> SUFFICES ASSUME Reclaim, Quiet, faults = 0
               PROVE  Outstanding' = {} /\ \A p \in PageIds : pstate'[p] # "retired"
    BY DEF Settles
  <2>1. /\ slot' = [i \in Slots |-> IF i \in Completed THEN NoSnap ELSE slot[i]]
        /\ pstate' = [p \in PageIds |-> IF Erasable(p) THEN "erased" ELSE pstate[p]]
    BY DEF Reclaim
  <2>2. \A w \in Workers : BatchSlots(w) = {}
    BY DEF Quiet, BatchSlots
  <2>3. \A i \in Outstanding : i \in Completed
    <3>1. \A i \in Outstanding : i \in Slots /\ slot[i].ref = "pending"
      BY <1>1, <2>2 DEF BatchInv, HeldBatched, Outstanding
    <3>2. DOMAIN stream = {}
      BY DEF Quiet
    <3> QED BY <3>1, <3>2 DEF Completed, EventDone
  <2>4. Outstanding' = {}
    BY <2>1, <2>3 DEF Outstanding, NoSnap
  <2>5. ASSUME NEW p \in PageIds, pstate'[p] = "retired" PROVE FALSE
    <3>1. pstate[p] = "retired" /\ ~Erasable(p)
      BY <2>1, <2>5
    <3>2. Observers(p) = {}
      BY <1>1, <3>1 DEF IInv, NoDanglingReference, Observers
    <3>3. logical[p] = 0
      BY <1>1, <3>2, FS_EmptySet DEF CountInv, LogicalExact
    <3>4. Holders(p)' = {}
      BY <2>4 DEF Holders
    <3>5. inflight'[p] = 0
      BY <1>1, <3>4, FS_EmptySet DEF IInv, InFlightExact
    <3> QED BY <3>1, <3>3, <3>5 DEF Erasable
  <2> QED BY <2>4, <2>5
<1>2. /\ IInv /\ IInv' /\ (faults = 0 => BatchInv) /\ (faults = 0 => CountInv)
      => [Settles]_vars
  BY <1>1
<1> QED BY <1>2, Invariance, BatchInvariance, CountInvariance, PTL DEF ReclaimSettles
=============================================================================
