---------------------------- MODULE SharedPages ----------------------------
(***************************************************************************)
(* What sharing of immutable pages promises, without counters, tables,     *)
(* events or buffers: a page has owners (sequences that reference it) and  *)
(* readers (device reads in flight).  MsCudaResolver implements it.        *)
(***************************************************************************)
CONSTANTS Seqs, Pages, Readers

VARIABLES
  store,   \* store[p]: none, live, retired or erased
  owners,  \* owners[p]: sequences that reference p
  readers  \* readers[p]: readers that may still read p

vars == <<store, owners, readers>>

Init ==
  /\ store = [p \in Pages |-> "none"]
  /\ owners = [p \in Pages |-> {}]
  /\ readers = [p \in Pages |-> {}]

\* A new page belongs to the sequence that published it.
Publish(p, s) ==
  /\ store[p] = "none"
  /\ store' = [store EXCEPT ![p] = "live"]
  /\ owners' = [owners EXCEPT ![p] = {s}]
  /\ UNCHANGED readers

\* d references exactly what a references; pages only d referenced may stay live.
Share(a, d) ==
  /\ a # d
  /\ owners' = [p \in Pages |-> IF a \in owners[p] THEN owners[p] \cup {d} ELSE owners[p] \ {d}]
  /\ UNCHANGED <<store, readers>>

LastOwned(s) == {p \in Pages : owners[p] = {s}}

\* s lets go of its pages; some of those nobody else references are retired.
Drop(s, R) ==
  /\ R \subseteq LastOwned(s)
  /\ owners' = [p \in Pages |-> owners[p] \ {s}]
  /\ store' = [p \in Pages |-> IF p \in R THEN "retired" ELSE store[p]]
  /\ UNCHANGED readers

Idle(r) == \A p \in Pages : r \notin readers[p]
Readable == {p \in Pages : owners[p] # {}}

\* Idle readers start reading; held[r] is what r reads: pages with an owner.
Read(held) ==
  /\ \A r \in Readers : held[r] # {} => Idle(r)
  /\ readers' = [p \in Pages |-> readers[p] \cup {r \in Readers : p \in held[r]}]
  /\ UNCHANGED <<store, owners>>

Collectable(p) == store[p] = "retired" /\ owners[p] = {} /\ readers'[p] = {}

\* The readers of D are done; a retired page nobody owns or reads may be erased.
Collect(D, E) ==
  /\ readers' = [p \in Pages |-> readers[p] \ D]
  /\ \A p \in E : Collectable(p)
  /\ store' = [p \in Pages |-> IF p \in E THEN "erased" ELSE store[p]]
  /\ UNCHANGED owners

Next ==
  \/ \E p \in Pages, s \in Seqs : Publish(p, s)
  \/ \E a, d \in Seqs : Share(a, d)
  \/ \E s \in Seqs, R \in SUBSET Pages : Drop(s, R)
  \/ \E held \in [Readers -> SUBSET Readable] : Read(held)
  \/ \E D \in SUBSET Readers, E \in SUBSET Pages : Collect(D, E)
Spec == Init /\ [][Next]_vars

---------------------------------------------------------------------------
TypeOK ==
  /\ store \in [Pages -> {"none", "live", "retired", "erased"}]
  /\ owners \in [Pages -> SUBSET Seqs]
  /\ readers \in [Pages -> SUBSET Readers]

\* Owned pages are live and pages being read still exist.
UsedPagesKept ==
  \A p \in Pages : /\ owners[p] # {} => store[p] = "live"
                   /\ readers[p] # {} => store[p] \in {"live", "retired"}

\* A page that is retired never gets an owner or a reader again, and never comes back.
StaysRetired ==
  \A p \in Pages : store[p] \in {"retired", "erased"} =>
    /\ store'[p] \in {"retired", "erased"}
    /\ owners'[p] = {}
    /\ readers'[p] \subseteq readers[p]
RetiredIsFinal == [][StaysRetired]_vars
=============================================================================
