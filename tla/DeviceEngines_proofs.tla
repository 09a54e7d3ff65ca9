------------------------ MODULE DeviceEngines_proofs ------------------------
(***************************************************************************)
(* Theorems of the engines below a llama.cpp graph.  The sealing engine,   *)
(* for any layers, page size, table capacity, staged pages and failures:   *)
(* every buffer has an owner, the table has room for the sealed pages and  *)
(* lists the first of them, and the history of a layer grows by copies of  *)
(* its full, finite tail only.  The dataplane, for any layers, heads,      *)
(* dimensions, page size, tensor lengths and strides: the active page is   *)
(* the accepted appends.  The compressed cache behind its two clients, for any layers,  *)
(* heads and page size and whatever uploads fail: the statistics are the   *)
(* tokens held, the heads of a layer hold what the client counts, an       *)
(* append without an error recovers those before, and the callback serves  *)
(* attention over the tokens llama.cpp holds.                              *)
(***************************************************************************)
EXTENDS DeviceEngines, FoldTheorems, SequenceTheorems

-----------------------------------------------------------------------------
(* The sealing engine: types and buffers, wherever a seal fails. *)

Working == Points \ {"idle"}

Buffers == [page : Nat, active : Nat, table : Nat]
Actives == [begin : Nat, count : 0 .. PageSize, owned : BOOLEAN, bad : SUBSET Halves]
Tables  == [cap : Nat, ent : Seq(Page)]

\* What the records of a layer and the seal in progress own is allocated, and all that
\* is allocated is theirs but the replacement pages that failures lost; tokens are in
\* a page that exists, and a page is sealed when it is full.
LayerSound(l) ==
  /\ heap[l].page = Owned(l).page /\ heap[l].table = Owned(l).table
  /\ Owned(l).active <= heap[l].active /\ heap[l].active <= Owned(l).active + faults
  /\ active[l].count > 0 => active[l].owned
  /\ seal.layer = l => active[l].count = PageSize

Types ==
  /\ state \in [Layers -> States] /\ pages \in [Layers -> Seq(Page)] /\ active \in [Layers -> Actives]
  /\ table \in [Layers -> Tables] /\ heap \in [Layers -> Buffers] /\ gen \in [Layers -> Nat]
  /\ seal = NoSeal \/ seal \in [layer : Layers, at : Working]
  /\ faults \in Nat

SealAccounted == Types /\ \A l \in Layers : LayerSound(l)

LEMMA SizeAndNames == PageSize \in Nat \ {0} /\ FirstCapacity \in Nat \ {0} /\ "none" \notin Layers
  BY SealConstants

\* What a step does to the point a seal has reached.
LEMMA SealPoints ==
  ASSUME Types, NEW l \in Layers
  PROVE  /\ Idle => seal.layer # l /\ seal.at = "idle"
         /\ \A p : At(l, p) => seal.layer = l /\ seal.at = p
         /\ seal.layer = l => seal.at \in Working /\ seal = [layer |-> l, at |-> seal.at]
  BY SizeAndNames DEF Types, Idle, NoSeal, At, Working, Points

\* The types of what belongs to one layer.
LEMMA SealLayerTypes ==
  ASSUME Types, NEW l \in Layers
  PROVE  /\ pages[l] \in Seq(Page) /\ Len(pages[l]) \in Nat
         /\ table[l] \in Tables /\ table[l].ent \in Seq(Page) /\ table[l].cap \in Nat
         /\ active[l] \in Actives /\ active[l].begin \in Nat /\ active[l].count \in 0 .. PageSize
         /\ active[l].owned \in BOOLEAN /\ active[l].bad \in SUBSET Halves
         /\ heap[l] \in Buffers
         /\ heap[l].page \in Nat /\ heap[l].active \in Nat /\ heap[l].table \in Nat
<1>1. active[l] \in Actives /\ heap[l] \in Buffers /\ table[l] \in Tables /\ pages[l] \in Seq(Page)
  BY DEF Types
<1>2. /\ active[l].begin \in Nat /\ active[l].count \in 0 .. PageSize
      /\ active[l].owned \in BOOLEAN /\ active[l].bad \in SUBSET Halves
  BY <1>1 DEF Actives
<1>3. heap[l].page \in Nat /\ heap[l].active \in Nat /\ heap[l].table \in Nat
  BY <1>1 DEF Buffers
<1>4. table[l].ent \in Seq(Page) /\ table[l].cap \in Nat
  BY <1>1 DEF Tables
<1> QED
  BY <1>1, <1>2, <1>3, <1>4

LEMMA BitIs == \A b : Bit(b) \in {0, 1} /\ (b => Bit(b) = 1) /\ (~b => Bit(b) = 0)
  BY DEF Bit

\* What a layer owns when no seal works on it, and at each point of one that does.
LEMMA OwnedIs ==
  ASSUME Types, NEW l \in Layers
  PROVE  /\ Owned(l).table = Bit(table[l].cap > 0)
         /\ Owned(l).page = Len(pages[l]) + Bit(seal.layer = l /\ seal.at \in Candidates)
         /\ Owned(l).active = Bit(active[l].owned) + Bit(seal.layer = l /\ seal.at \in {"replaced", "pushed"})
         /\ Owned(l).active \in {0, 1, 2}
         /\ seal.layer # l => /\ Owned(l).page = Len(pages[l]) /\ Owned(l).active = Bit(active[l].owned)
<1>1. /\ Owned(l).table = Bit(table[l].cap > 0)
      /\ Owned(l).page = Len(pages[l]) + Bit(seal.layer = l /\ seal.at \in Candidates)
      /\ Owned(l).active = Bit(active[l].owned) + Bit(seal.layer = l /\ seal.at \in {"replaced", "pushed"})
  BY DEF Owned
<1>2. /\ Bit(active[l].owned) \in {0, 1} /\ Bit(seal.layer = l /\ seal.at \in {"replaced", "pushed"}) \in {0, 1}
      /\ Len(pages[l]) \in Nat
  BY BitIs, SealLayerTypes
<1>3. seal.layer # l => /\ Bit(seal.layer = l /\ seal.at \in Candidates) = 0
                        /\ Bit(seal.layer = l /\ seal.at \in {"replaced", "pushed"}) = 0
  BY BitIs
<1> QED
  BY <1>1, <1>2, <1>3

\* A layer that a step leaves alone stays sound.
LEMMA OtherSound ==
  ASSUME SealAccounted, NEW l \in Layers, seal.layer # l, seal'.layer # l, faults' \in Nat, faults' >= faults,
         heap'[l] = heap[l], pages'[l] = pages[l], active'[l] = active[l], table'[l] = table[l]
  PROVE  LayerSound(l)'
<1>1. /\ heap[l].page = Owned(l).page /\ heap[l].table = Owned(l).table
      /\ Owned(l).active <= heap[l].active /\ heap[l].active <= Owned(l).active + faults
      /\ active[l].count > 0 => active[l].owned
  BY DEF SealAccounted, LayerSound
<1>2. Owned(l)' = Owned(l)
  BY DEF Owned, Bit
<1>3. heap[l].active \in Nat /\ Owned(l).active \in {0, 1, 2} /\ faults \in Nat
  BY SealLayerTypes, OwnedIs DEF SealAccounted, Types
<1> QED
  BY <1>1, <1>2, <1>3 DEF LayerSound

-----------------------------------------------------------------------------
(* The steps. *)

\* A step of a call on l alone preserves the invariant when it leaves l sound.
LEMMA StepOn ==
  ASSUME SealAccounted, Types', NEW l \in Layers, faults' >= faults, LayerSound(l)',
         \A x \in Layers : x # l =>
           /\ seal.layer # x /\ seal'.layer # x /\ heap'[x] = heap[x]
           /\ pages'[x] = pages[x] /\ active'[x] = active[x] /\ table'[x] = table[x]
  PROVE  SealAccounted'
<1>1. faults' \in Nat
  BY DEF Types
<1> QED
  BY <1>1, OtherSound DEF SealAccounted

\* Staging writes the active page, and allocates it when there is none.
LEMMA FillSound ==
  ASSUME SealAccounted, NEW l \in Layers, NEW new \in Actives, new.owned = TRUE, Idle,
         active' = [active EXCEPT ![l] = new], UNCHANGED <<pages, table, gen, seal>>,
         state' \in [Layers -> States], faults' \in Nat, faults' >= faults,
         heap' = IF active[l].owned THEN heap ELSE [heap EXCEPT ![l].active = @ + 1]
  PROVE  SealAccounted'
<1> DEFINE own == [heap[l] EXCEPT !.active = @ + 1]
<1>1. heap' = IF active[l].owned THEN heap ELSE [heap EXCEPT ![l] = own]
  BY DEF SealAccounted, Types
<1>2. own \in Buffers /\ own.active = heap[l].active + 1 /\ own.page = heap[l].page /\ own.table = heap[l].table
<2>1. heap[l] \in Buffers /\ heap[l].active + 1 \in Nat
  BY SealLayerTypes DEF SealAccounted
<2> QED
  BY <2>1 DEF Buffers
<1> HIDE DEF own
<1>3. Types'
<2>1. active' \in [Layers -> Actives]
  BY DEF SealAccounted, Types
<2>2. heap' \in [Layers -> Buffers]
  BY <1>1, <1>2 DEF SealAccounted, Types
<2> QED
  BY <2>1, <2>2 DEF SealAccounted, Types
<1>4. LayerSound(l)'
<2>1. seal.layer # l /\ seal' = seal
  BY SealPoints DEF SealAccounted
<2>2. active'[l] = new /\ heap'[l] = IF active[l].owned THEN heap[l] ELSE own
  BY <1>1 DEF SealAccounted, Types
<2>3. /\ Bit(active[l].owned) <= heap[l].active /\ heap[l].active <= Bit(active[l].owned) + faults
      /\ heap[l].page = Len(pages[l]) /\ heap[l].table = Bit(table[l].cap > 0)
<3>1. /\ Owned(l).active = Bit(active[l].owned) /\ Owned(l).page = Len(pages[l])
      /\ Owned(l).table = Bit(table[l].cap > 0)
  BY <2>1, OwnedIs DEF SealAccounted
<3> QED
  BY <3>1 DEF SealAccounted, LayerSound
<2>4. /\ Bit(new.owned) <= heap'[l].active /\ heap'[l].active <= Bit(new.owned) + faults'
      /\ heap'[l].page = heap[l].page /\ heap'[l].table = heap[l].table
  BY <1>2, <2>2, <2>3, SealLayerTypes DEF SealAccounted, Types, Bit
<2>5. /\ Owned(l)'.page = Len(pages[l]) /\ Owned(l)'.table = Bit(table[l].cap > 0)
      /\ Owned(l)'.active = Bit(new.owned)
  BY <2>1, <2>2 DEF Owned, Bit
<2> QED
  BY <2>1, <2>2, <2>3, <2>4, <2>5 DEF LayerSound
<1>5. ASSUME NEW x \in Layers, x # l
      PROVE  /\ seal.layer # x /\ seal'.layer # x /\ heap'[x] = heap[x]
             /\ pages'[x] = pages[x] /\ active'[x] = active[x] /\ table'[x] = table[x]
  BY <1>1, <1>5, SealPoints DEF SealAccounted, Types
<1> QED
  BY <1>3, <1>4, <1>5, StepOn

LEMMA StageSound ==
  ASSUME SealAccounted, NEW l \in Layers, NEW begin \in Begins, NEW n \in 1 .. PageSize,
         NEW bad \in SUBSET Halves, Stage(l, begin, n, bad)
  PROVE  SealAccounted'
<1> DEFINE new == [begin |-> begin, count |-> n, owned |-> TRUE, bad |-> bad]
<1>1. new \in Actives /\ new.owned = TRUE
<2>1. begin \in Nat /\ n \in 0 .. PageSize
  BY SizeAndNames, SealConstants
<2> QED
  BY <2>1 DEF Actives
<1>2. active' = [active EXCEPT ![l] = new] /\ state' \in [Layers -> States] /\ faults' = faults /\ faults \in Nat
  BY DEF Stage, SealAccounted, Types, States
<1>3. /\ Idle /\ UNCHANGED <<pages, table, gen, seal>> /\ faults' \in Nat /\ faults' >= faults
      /\ heap' = IF active[l].owned THEN heap ELSE [heap EXCEPT ![l].active = @ + 1]
  BY <1>2 DEF Stage
<1> HIDE DEF new
<1> QED
  BY <1>1, <1>2, <1>3, FillSound

LEMMA StageFailsSound ==
  ASSUME SealAccounted, NEW l \in Layers, NEW bad \in SUBSET Halves, StageFails(l, bad)
  PROVE  SealAccounted'
<1> DEFINE new == [active[l] EXCEPT !.owned = TRUE, !.bad = bad]
<1>1. new \in Actives /\ new.owned = TRUE
<2>1. active[l] \in Actives
  BY SealLayerTypes DEF SealAccounted
<2> QED
  BY <2>1 DEF Actives
<1>2. active' = [active EXCEPT ![l] = new] /\ state' \in [Layers -> States] /\ faults' = faults + 1 /\ faults \in Nat
  BY DEF StageFails, Fails, SealAccounted, Types
<1>3. /\ Idle /\ UNCHANGED <<pages, table, gen, seal>> /\ faults' \in Nat /\ faults' >= faults
      /\ heap' = IF active[l].owned THEN heap ELSE [heap EXCEPT ![l].active = @ + 1]
  BY <1>2 DEF StageFails
<1> HIDE DEF new
<1> QED
  BY <1>1, <1>2, <1>3, FillSound

LEMMA ClearSound == ASSUME SealAccounted, Clear PROVE SealAccounted'
<1>1. NewActive \in Actives /\ NewTable \in Tables /\ NewActive.owned = FALSE /\ NewActive.count = 0 /\ NewTable.cap = 0
<2>1. 0 \in 0 .. PageSize /\ <<>> \in Seq(Page)
  BY SizeAndNames
<2> QED
  BY <2>1 DEF NewActive, NewTable, Actives, Tables
<1>2. ASSUME NEW l \in Layers
      PROVE  /\ heap'[l] \in Buffers /\ heap'[l].page = 0 /\ heap'[l].table = 0
             /\ 0 <= heap'[l].active /\ heap'[l].active <= faults
<2>1. /\ heap[l].page = Owned(l).page /\ heap[l].table = Owned(l).table
      /\ Owned(l).active <= heap[l].active /\ heap[l].active <= Owned(l).active + faults
  BY DEF SealAccounted, LayerSound
<2>2. heap[l].page \in Nat /\ heap[l].active \in Nat /\ heap[l].table \in Nat /\ Owned(l).active \in {0, 1, 2} /\ faults \in Nat
  BY SealLayerTypes, OwnedIs DEF SealAccounted, Types
<2>3. heap'[l] = [page |-> heap[l].page - Owned(l).page, active |-> heap[l].active - Owned(l).active,
                  table |-> heap[l].table - Owned(l).table]
  BY DEF Clear
<2> QED
  BY <2>1, <2>2, <2>3 DEF Buffers
<1>3. Types'
<2>1. heap' \in [Layers -> Buffers]
  BY <1>2 DEF Clear
<2> QED
  BY <1>1, <2>1 DEF Clear, SealAccounted, Types, States
<1>4. ASSUME NEW l \in Layers PROVE LayerSound(l)'
<2>1. seal'.layer # l /\ active'[l] = NewActive /\ pages'[l] = <<>> /\ table'[l] = NewTable /\ faults' = faults
  BY SealPoints DEF Clear, SealAccounted
<2>2. Owned(l)'.page = 0 /\ Owned(l)'.table = 0 /\ Owned(l)'.active = 0
  BY <1>1, <2>1 DEF Owned, Bit
<2>3. heap'[l].active \in Nat /\ faults \in Nat
  BY <1>2 DEF SealAccounted, Types, Buffers
<2> QED
  BY <1>1, <1>2, <2>1, <2>2, <2>3 DEF LayerSound
<1> QED
  BY <1>3, <1>4 DEF SealAccounted

-----------------------------------------------------------------------------
(* The steps of a seal. *)

\* What is allocated for a layer when its seal has reached a point.
LEMMA ReachedPoint ==
  ASSUME SealAccounted, NEW l \in Layers, NEW p, At(l, p)
  PROVE  /\ seal.layer = l /\ seal.at = p
         /\ heap[l].page = Len(pages[l]) + Bit(p \in Candidates) /\ heap[l].table = Bit(table[l].cap > 0)
         /\ Bit(active[l].owned) + Bit(p \in {"replaced", "pushed"}) <= heap[l].active
         /\ heap[l].active <= Bit(active[l].owned) + Bit(p \in {"replaced", "pushed"}) + faults
         /\ active[l].count = PageSize /\ active[l].owned
<1>1. seal.layer = l /\ seal.at = p
  BY SealPoints DEF SealAccounted
<1>2. active[l].count = PageSize /\ active[l].owned
  BY <1>1, SizeAndNames DEF SealAccounted, LayerSound
<1>3. /\ Owned(l).page = Len(pages[l]) + Bit(p \in Candidates) /\ Owned(l).table = Bit(table[l].cap > 0)
      /\ Owned(l).active = Bit(active[l].owned) + Bit(p \in {"replaced", "pushed"})
  BY <1>1 DEF Owned, Bit
<1>4. /\ heap[l].page = Owned(l).page /\ heap[l].table = Owned(l).table
      /\ Owned(l).active <= heap[l].active /\ heap[l].active <= Owned(l).active + faults
  BY DEF SealAccounted, LayerSound
<1> QED
  BY <1>1, <1>2, <1>3, <1>4

\* A step of the seal of l that leaves it the buffers own, pages ps, active page ac and
\* table tb, at the point q or at its end, where own is what these account for.
Work(l, own, ps, ac, tb, q) ==
  /\ Idle \/ seal.layer = l
  /\ own \in Buffers /\ ps \in Seq(Page) /\ ac \in Actives /\ tb \in Tables /\ q \in Working
  /\ heap' = [heap EXCEPT ![l] = own] /\ pages' = [pages EXCEPT ![l] = ps]
  /\ active' = [active EXCEPT ![l] = ac] /\ table' = [table EXCEPT ![l] = tb]
  /\ state' \in [Layers -> States] /\ gen' \in [Layers -> Nat] /\ faults' \in Nat /\ faults' >= faults
  /\ \/ /\ seal' = [layer |-> l, at |-> q] /\ ac.count = PageSize
        /\ own.page = Len(ps) + Bit(q \in Candidates)
        /\ Bit(ac.owned) + Bit(q \in {"replaced", "pushed"}) <= own.active
        /\ own.active <= Bit(ac.owned) + Bit(q \in {"replaced", "pushed"}) + faults'
     \/ /\ seal' = NoSeal /\ own.page = Len(ps)
        /\ Bit(ac.owned) <= own.active /\ own.active <= Bit(ac.owned) + faults'
  /\ own.table = Bit(tb.cap > 0)
  /\ ac.count > 0 => ac.owned

LEMMA WorkSound ==
  ASSUME SealAccounted, NEW l \in Layers, NEW own, NEW ps, NEW ac, NEW tb, NEW q, Work(l, own, ps, ac, tb, q)
  PROVE  SealAccounted'
<1> USE DEF Work
<1>1. Types'
<2>1. seal' = NoSeal \/ seal' \in [layer : Layers, at : Working]
  OBVIOUS
<2>2. heap' \in [Layers -> Buffers] /\ pages' \in [Layers -> Seq(Page)]
  BY DEF SealAccounted, Types
<2>3. active' \in [Layers -> Actives] /\ table' \in [Layers -> Tables]
  BY DEF SealAccounted, Types
<2> QED
  BY <2>1, <2>2, <2>3 DEF Types
<1>2. LayerSound(l)'
<2>1. heap'[l] = own /\ pages'[l] = ps /\ active'[l] = ac /\ table'[l] = tb
  BY DEF SealAccounted, Types
<2>2. CASE seal' = NoSeal /\ own.page = Len(ps) /\ Bit(ac.owned) <= own.active /\ own.active <= Bit(ac.owned) + faults'
<3>1. seal'.layer # l
  BY <2>2, SizeAndNames DEF NoSeal
<3>2. Bit(ac.owned) \in {0, 1} /\ Len(ps) \in Nat
  BY BitIs
<3>3. Owned(l)'.page = Len(ps) /\ Owned(l)'.table = Bit(tb.cap > 0) /\ Owned(l)'.active = Bit(ac.owned)
  BY <2>1, <3>1 DEF Owned, Bit
<3> QED
  BY <2>1, <2>2, <3>1, <3>2, <3>3 DEF LayerSound
<2>3. CASE /\ seal' = [layer |-> l, at |-> q] /\ ac.count = PageSize /\ own.page = Len(ps) + Bit(q \in Candidates)
           /\ Bit(ac.owned) + Bit(q \in {"replaced", "pushed"}) <= own.active
           /\ own.active <= Bit(ac.owned) + Bit(q \in {"replaced", "pushed"}) + faults'
<3>1. seal'.layer = l /\ seal'.at = q
  BY <2>3
<3>2. /\ Owned(l)'.page = Len(ps) + Bit(q \in Candidates) /\ Owned(l)'.table = Bit(tb.cap > 0)
      /\ Owned(l)'.active = Bit(ac.owned) + Bit(q \in {"replaced", "pushed"})
  BY <2>1, <3>1 DEF Owned, Bit, Candidates
<3> QED
  BY <2>1, <2>3, <3>2 DEF LayerSound
<2> QED
  BY <2>2, <2>3
<1>3. ASSUME NEW x \in Layers, x # l
      PROVE  /\ seal.layer # x /\ seal'.layer # x /\ heap'[x] = heap[x]
             /\ pages'[x] = pages[x] /\ active'[x] = active[x] /\ table'[x] = table[x]
<2>1. seal.layer # x
  BY <1>3, SealPoints DEF SealAccounted
<2>2. seal'.layer # x
  BY <1>3, SizeAndNames DEF NoSeal
<2> QED
  BY <1>3, <2>1, <2>2 DEF SealAccounted, Types
<1> QED
  BY <1>1, <1>2, <1>3, StepOn

\* What a step that leaves a record of a layer alone leaves it.
LEMMA Alone ==
  ASSUME Types, NEW l \in Layers
  PROVE  /\ heap = [heap EXCEPT ![l] = heap[l]] /\ pages = [pages EXCEPT ![l] = pages[l]]
         /\ active = [active EXCEPT ![l] = active[l]] /\ table = [table EXCEPT ![l] = table[l]]
  BY DEF Types

\* Begin and the steps from one state to the next that allocate nothing.
LEMMA QuietSound ==
  ASSUME SealAccounted, NEW l \in Layers, NEW q \in Working, Goto(l, q),
         state' \in [Layers -> States], UNCHANGED <<pages, active, table, gen, heap, faults>>,
         \/ Idle /\ active[l].count = PageSize /\ q = "started"
         \/ At(l, "started") /\ q = "validating"
         \/ At(l, "validating") /\ q = "quantizing"
         \/ At(l, "packing") /\ q = "publishing"
  PROVE  SealAccounted'
<1>1. /\ heap[l].page = Len(pages[l]) + Bit(q \in Candidates) /\ heap[l].table = Bit(table[l].cap > 0)
      /\ Bit(active[l].owned) + Bit(q \in {"replaced", "pushed"}) <= heap[l].active
      /\ heap[l].active <= Bit(active[l].owned) + Bit(q \in {"replaced", "pushed"}) + faults
      /\ active[l].count = PageSize /\ (Idle \/ seal.layer = l)
<2>1. CASE Idle /\ active[l].count = PageSize /\ q = "started"
<3>1. seal.layer # l
  BY <2>1, SealPoints DEF SealAccounted
<3>2. /\ heap[l].page = Len(pages[l]) /\ heap[l].table = Bit(table[l].cap > 0)
      /\ Bit(active[l].owned) <= heap[l].active /\ heap[l].active <= Bit(active[l].owned) + faults
  BY <3>1, OwnedIs DEF SealAccounted, LayerSound
<3>3. Bit(q \in Candidates) = 0 /\ Bit(q \in {"replaced", "pushed"}) = 0
  BY <2>1 DEF Candidates, Bit
<3>4. Bit(active[l].owned) \in {0, 1} /\ Len(pages[l]) \in Nat /\ heap[l].active \in Nat /\ faults \in Nat
  BY BitIs, SealLayerTypes DEF SealAccounted, Types
<3> QED
  BY ONLY <2>1, <3>2, <3>3, <3>4
<2>2. ASSUME NEW p, At(l, p), p \in Candidates <=> q \in Candidates,
             p \notin {"replaced", "pushed"}, q \notin {"replaced", "pushed"}
      PROVE  /\ heap[l].page = Len(pages[l]) + Bit(q \in Candidates) /\ heap[l].table = Bit(table[l].cap > 0)
             /\ Bit(active[l].owned) + Bit(q \in {"replaced", "pushed"}) <= heap[l].active
             /\ heap[l].active <= Bit(active[l].owned) + Bit(q \in {"replaced", "pushed"}) + faults
             /\ active[l].count = PageSize /\ (Idle \/ seal.layer = l)
  BY <2>2, ReachedPoint DEF Bit
<2> QED
  BY <2>1, <2>2 DEF Candidates
<1>2. faults \in Nat /\ gen \in [Layers -> Nat] /\ (active[l].count > 0 => active[l].owned)
  BY DEF SealAccounted, Types, LayerSound
<1>3. heap[l] \in Buffers /\ pages[l] \in Seq(Page) /\ active[l] \in Actives /\ table[l] \in Tables
  BY SealLayerTypes DEF SealAccounted
<1>4. /\ heap' = [heap EXCEPT ![l] = heap[l]] /\ pages' = [pages EXCEPT ![l] = pages[l]]
      /\ active' = [active EXCEPT ![l] = active[l]] /\ table' = [table EXCEPT ![l] = table[l]]
  BY Alone DEF SealAccounted
<1>5. /\ seal' = [layer |-> l, at |-> q] /\ gen' \in [Layers -> Nat] /\ faults' \in Nat /\ faults' >= faults
      /\ faults' = faults
  BY <1>2 DEF Goto
<1>6. Work(l, heap[l], pages[l], active[l], table[l], q)
  BY <1>1, <1>2, <1>3, <1>4, <1>5 DEF Work
<1> QED
  BY <1>6, WorkSound

LEMMA QuietSteps ==
  ASSUME SealAccounted, NEW l \in Layers, Begin(l) \/ Validate(l) \/ Quantize(l) \/ Describe(l)
  PROVE  SealAccounted'
<1>1. state' \in [Layers -> States]
  BY DEF SealAccounted, Types, States, Begin, Validate, Quantize, Describe, Advance, layerVars
<1>2. {"started", "validating", "quantizing", "publishing"} \subseteq Working
  BY DEF Working, Points
<1>3. CASE Begin(l)
<2>1. Goto(l, "started") /\ UNCHANGED <<pages, active, table, gen, heap, faults>> /\ Idle /\ active[l].count = PageSize
  BY <1>3 DEF Begin, layerVars
<2> QED
  BY <1>1, <1>2, <2>1, QuietSound
<1>4. CASE Validate(l)
<2>1. Goto(l, "validating") /\ UNCHANGED <<pages, active, table, gen, heap, faults>> /\ At(l, "started")
  BY <1>4 DEF Validate, Advance
<2> QED
  BY <1>1, <1>2, <2>1, QuietSound
<1>5. CASE Quantize(l)
<2>1. Goto(l, "quantizing") /\ UNCHANGED <<pages, active, table, gen, heap, faults>> /\ At(l, "validating")
  BY <1>5 DEF Quantize, Advance
<2> QED
  BY <1>1, <1>2, <2>1, QuietSound
<1>6. CASE Describe(l)
<2>1. Goto(l, "publishing") /\ UNCHANGED <<pages, active, table, gen, heap, faults>> /\ At(l, "packing")
  BY <1>6 DEF Describe, Advance
<2> QED
  BY <1>1, <1>2, <2>1, QuietSound
<1> QED
  BY <1>3, <1>4, <1>5, <1>6

\* Records of a layer with one count changed.
LEMMA Recount ==
  ASSUME Types, NEW l \in Layers, NEW n \in Nat
  PROVE  /\ LET own == [heap[l] EXCEPT !.page = n]
            IN own \in Buffers /\ own.page = n /\ own.active = heap[l].active /\ own.table = heap[l].table
         /\ LET own == [heap[l] EXCEPT !.active = n]
            IN own \in Buffers /\ own.active = n /\ own.page = heap[l].page /\ own.table = heap[l].table
         /\ LET own == [heap[l] EXCEPT !.table = n]
            IN own \in Buffers /\ own.table = n /\ own.page = heap[l].page /\ own.active = heap[l].active
<1>1. heap[l] \in Buffers
  BY SealLayerTypes
<1> QED
  BY <1>1 DEF Buffers

\* The types of a layer's records, and of the numbers the steps compute with.
Numbered(l) ==
  /\ Bit(active[l].owned) \in {0, 1} /\ Bit(table[l].cap > 0) \in {0, 1} /\ Len(pages[l]) \in Nat
  /\ heap[l].page \in Nat /\ heap[l].active \in Nat /\ heap[l].table \in Nat
  /\ faults \in Nat /\ gen \in [Layers -> Nat] /\ state \in [Layers -> States]
  /\ heap[l] \in Buffers /\ pages[l] \in Seq(Page) /\ active[l] \in Actives /\ table[l] \in Tables
  /\ active[l].count > 0 => active[l].owned

LEMMA Numbers == ASSUME SealAccounted, NEW l \in Layers PROVE Numbered(l)
  BY SealLayerTypes, BitIs DEF SealAccounted, Types, LayerSound, Numbered

LEMMA PackSound == ASSUME SealAccounted, NEW l \in Layers, Pack(l) PROVE SealAccounted'
<1> DEFINE own == [heap[l] EXCEPT !.page = heap[l].page + 1]
<1>1. Numbered(l) /\ At(l, "quantizing")
  BY Numbers DEF Pack, Advance
<1>2. /\ seal' = [layer |-> l, at |-> "packing"] /\ UNCHANGED <<pages, active, table, gen, faults>>
      /\ heap' = [heap EXCEPT ![l] = own] /\ state' \in [Layers -> States] /\ "packing" \in Working
  BY <1>1 DEF Pack, Advance, Goto, SealAccounted, Types, States, Working, Points
<1>3. own \in Buffers /\ own.page = heap[l].page + 1 /\ own.active = heap[l].active /\ own.table = heap[l].table
<2>1. heap[l].page + 1 \in Nat
  BY <1>1 DEF Numbered
<2> QED
  BY <2>1, Recount DEF SealAccounted
<1> HIDE DEF own
<1>4. /\ pages' = [pages EXCEPT ![l] = pages[l]] /\ active' = [active EXCEPT ![l] = active[l]]
      /\ table' = [table EXCEPT ![l] = table[l]] /\ gen' \in [Layers -> Nat]
      /\ faults' \in Nat /\ faults' >= faults /\ faults' = faults
  BY <1>1, <1>2, Alone DEF SealAccounted, Numbered
<1>5. /\ seal.layer = l /\ heap[l].page = Len(pages[l]) + Bit("quantizing" \in Candidates)
      /\ heap[l].table = Bit(table[l].cap > 0)
      /\ Bit(active[l].owned) + Bit("quantizing" \in {"replaced", "pushed"}) <= heap[l].active
      /\ heap[l].active <= Bit(active[l].owned) + Bit("quantizing" \in {"replaced", "pushed"}) + faults
      /\ active[l].count = PageSize
  BY <1>1, ReachedPoint
<1>6. /\ Bit("packing" \in Candidates) = 1 /\ Bit("packing" \in {"replaced", "pushed"}) = 0
      /\ Bit("quantizing" \in Candidates) = 0 /\ Bit("quantizing" \in {"replaced", "pushed"}) = 0
  BY DEF Candidates, Bit
<1>7. /\ own.page = Len(pages[l]) + Bit("packing" \in Candidates) /\ own.table = Bit(table[l].cap > 0)
      /\ Bit(active[l].owned) + Bit("packing" \in {"replaced", "pushed"}) <= own.active
      /\ own.active <= Bit(active[l].owned) + Bit("packing" \in {"replaced", "pushed"}) + faults'
  BY <1>1, <1>3, <1>4, <1>5, <1>6 DEF Numbered
<1>8. Work(l, own, pages[l], active[l], table[l], "packing")
  BY <1>1, <1>2, <1>3, <1>4, <1>5, <1>7 DEF Work, Numbered
<1> QED
  BY <1>8, WorkSound

LEMMA GrowSound == ASSUME SealAccounted, NEW l \in Layers, Grow(l) PROVE SealAccounted'
<1> DEFINE new == [cap |-> IF table[l].cap = 0 THEN FirstCapacity ELSE 2 * table[l].cap, ent |-> <<>>]
           own == [heap[l] EXCEPT !.table = 1]
<1>1. Numbered(l) /\ At(l, "publishing")
  BY Numbers DEF Grow
<1>2. /\ seal' = [layer |-> l, at |-> "grown"] /\ UNCHANGED <<state, pages, active, gen, faults>>
      /\ state \in [Layers -> States] /\ gen \in [Layers -> Nat] /\ "grown" \in Working
  BY DEF Grow, Goto, SealAccounted, Types, Working, Points
<1>3. /\ seal.layer = l /\ heap[l].page = Len(pages[l]) + Bit("publishing" \in Candidates)
      /\ heap[l].table = Bit(table[l].cap > 0)
      /\ Bit(active[l].owned) + Bit("publishing" \in {"replaced", "pushed"}) <= heap[l].active
      /\ heap[l].active <= Bit(active[l].owned) + Bit("publishing" \in {"replaced", "pushed"}) + faults
      /\ active[l].count = PageSize
  BY <1>1, ReachedPoint
<1>4. /\ Bit("grown" \in Candidates) = 1 /\ Bit("grown" \in {"replaced", "pushed"}) = 0
      /\ Bit("publishing" \in Candidates) = 1 /\ Bit("publishing" \in {"replaced", "pushed"}) = 0
  BY DEF Candidates, Bit
<1>5. /\ pages' = [pages EXCEPT ![l] = pages[l]] /\ active' = [active EXCEPT ![l] = active[l]]
      /\ faults' \in Nat /\ faults' >= faults /\ faults' = faults
  BY <1>1, <1>2, Alone DEF SealAccounted, Numbered
<1>6. CASE UNCHANGED <<table, heap>>
<2>1. heap' = [heap EXCEPT ![l] = heap[l]] /\ table' = [table EXCEPT ![l] = table[l]]
  BY <1>6, Alone DEF SealAccounted
<2>2. Work(l, heap[l], pages[l], active[l], table[l], "grown")
  BY <1>1, <1>2, <1>3, <1>4, <1>5, <2>1 DEF Work, Numbered
<2> QED
  BY <2>2, WorkSound
<1>7. CASE table' = [table EXCEPT ![l] = new] /\ heap' = [heap EXCEPT ![l] = own]
<2>1. new \in Tables /\ new.cap > 0
<3>1. <<>> \in Seq(Page) /\ FirstCapacity \in Nat /\ FirstCapacity > 0 /\ table[l].cap \in Nat
  BY SizeAndNames, SealLayerTypes DEF SealAccounted
<3> QED
  BY <3>1 DEF Tables
<2>2. own \in Buffers /\ own.table = 1 /\ own.page = heap[l].page /\ own.active = heap[l].active
<3>1. 1 \in Nat
  OBVIOUS
<3> QED
  BY <3>1, Recount DEF SealAccounted
<2>3. Bit(new.cap > 0) = 1
  BY <2>1 DEF Bit
<2> HIDE DEF own, new
<2>4. Work(l, own, pages[l], active[l], new, "grown")
  BY <1>1, <1>2, <1>3, <1>4, <1>5, <1>7, <2>1, <2>2, <2>3 DEF Work, Numbered
<2> QED
  BY <2>4, WorkSound
<1>8. heap[l].table + 1 - Bit(table[l].cap > 0) = 1
  BY <1>1, <1>3 DEF Numbered
<1> QED
  BY <1>6, <1>7, <1>8 DEF Grow, SealAccounted, Types

LEMMA ReplaceSound == ASSUME SealAccounted, NEW l \in Layers, Replace(l) PROVE SealAccounted'
<1> DEFINE own == [heap[l] EXCEPT !.active = heap[l].active + 1]
<1>1. Numbered(l) /\ At(l, "grown")
  BY Numbers DEF Replace
<1>2. /\ seal' = [layer |-> l, at |-> "replaced"] /\ UNCHANGED <<state, pages, active, table, gen, faults>>
      /\ heap' = [heap EXCEPT ![l] = own] /\ "replaced" \in Working
      /\ state \in [Layers -> States] /\ gen \in [Layers -> Nat]
  BY DEF Replace, Goto, layerVars, SealAccounted, Types, Working, Points
<1>3. own \in Buffers /\ own.active = heap[l].active + 1 /\ own.page = heap[l].page /\ own.table = heap[l].table
<2>1. heap[l].active + 1 \in Nat
  BY <1>1 DEF Numbered
<2> QED
  BY <2>1, Recount DEF SealAccounted
<1> HIDE DEF own
<1>4. /\ seal.layer = l /\ heap[l].page = Len(pages[l]) + Bit("grown" \in Candidates)
      /\ heap[l].table = Bit(table[l].cap > 0)
      /\ Bit(active[l].owned) + Bit("grown" \in {"replaced", "pushed"}) <= heap[l].active
      /\ heap[l].active <= Bit(active[l].owned) + Bit("grown" \in {"replaced", "pushed"}) + faults
      /\ active[l].count = PageSize
  BY <1>1, ReachedPoint
<1>5. /\ Bit("grown" \in Candidates) = 1 /\ Bit("grown" \in {"replaced", "pushed"}) = 0
      /\ Bit("replaced" \in Candidates) = 1 /\ Bit("replaced" \in {"replaced", "pushed"}) = 1
  BY DEF Candidates, Bit
<1>6. /\ pages' = [pages EXCEPT ![l] = pages[l]] /\ active' = [active EXCEPT ![l] = active[l]]
      /\ table' = [table EXCEPT ![l] = table[l]]
      /\ faults' \in Nat /\ faults' >= faults /\ faults' = faults
  BY <1>1, <1>2, Alone DEF SealAccounted, Numbered
<1>7. /\ own.page = Len(pages[l]) + Bit("replaced" \in Candidates) /\ own.table = Bit(table[l].cap > 0)
      /\ Bit(active[l].owned) + Bit("replaced" \in {"replaced", "pushed"}) <= own.active
      /\ own.active <= Bit(active[l].owned) + Bit("replaced" \in {"replaced", "pushed"}) + faults'
  BY <1>1, <1>3, <1>4, <1>5, <1>6 DEF Numbered
<1>8. Work(l, own, pages[l], active[l], table[l], "replaced")
  BY <1>1, <1>2, <1>3, <1>4, <1>6, <1>7 DEF Work, Numbered
<1> QED
  BY <1>8, WorkSound

\* The candidate of the seal becomes a page of the layer: its storage changes hands.
LEMMA PushSound == ASSUME SealAccounted, NEW l \in Layers, Push(l) PROVE SealAccounted'
<1> DEFINE ps == Append(pages[l], ActivePage(l))
<1>1. Numbered(l) /\ At(l, "replaced")
  BY Numbers DEF Push
<1>2. /\ seal' = [layer |-> l, at |-> "pushed"] /\ UNCHANGED <<state, active, table, gen, heap, faults>>
      /\ pages' = [pages EXCEPT ![l] = ps] /\ "pushed" \in Working
      /\ state \in [Layers -> States] /\ gen \in [Layers -> Nat]
  BY DEF Push, Goto, SealAccounted, Types, Working, Points
<1>3. ps \in Seq(Page) /\ Len(ps) = Len(pages[l]) + 1
<2>1. ActivePage(l) \in Page
  BY SealLayerTypes DEF SealAccounted, ActivePage, Page, Finite
<2>2. pages[l] \in Seq(Page)
  BY <1>1 DEF Numbered
<2> QED
  BY <2>1, <2>2
<1> HIDE DEF ps
<1>4. /\ seal.layer = l /\ heap[l].page = Len(pages[l]) + Bit("replaced" \in Candidates)
      /\ heap[l].table = Bit(table[l].cap > 0)
      /\ Bit(active[l].owned) + Bit("replaced" \in {"replaced", "pushed"}) <= heap[l].active
      /\ heap[l].active <= Bit(active[l].owned) + Bit("replaced" \in {"replaced", "pushed"}) + faults
      /\ active[l].count = PageSize
  BY <1>1, ReachedPoint
<1>5. /\ Bit("pushed" \in Candidates) = 0 /\ Bit("pushed" \in {"replaced", "pushed"}) = 1
      /\ Bit("replaced" \in Candidates) = 1 /\ Bit("replaced" \in {"replaced", "pushed"}) = 1
  BY DEF Candidates, Bit
<1>6. /\ heap' = [heap EXCEPT ![l] = heap[l]] /\ active' = [active EXCEPT ![l] = active[l]]
      /\ table' = [table EXCEPT ![l] = table[l]]
      /\ faults' \in Nat /\ faults' >= faults /\ faults' = faults
  BY <1>1, <1>2, Alone DEF SealAccounted, Numbered
<1>7. /\ heap[l].page = Len(ps) + Bit("pushed" \in Candidates)
      /\ Bit(active[l].owned) + Bit("pushed" \in {"replaced", "pushed"}) <= heap[l].active
      /\ heap[l].active <= Bit(active[l].owned) + Bit("pushed" \in {"replaced", "pushed"}) + faults'
  BY <1>1, <1>3, <1>4, <1>5, <1>6 DEF Numbered
<1>8. Work(l, heap[l], ps, active[l], table[l], "pushed")
  BY <1>1, <1>2, <1>3, <1>4, <1>6, <1>7 DEF Work, Numbered
<1> QED
  BY <1>8, WorkSound

LEMMA PublishSound == ASSUME SealAccounted, NEW l \in Layers, Publish(l) PROVE SealAccounted'
<1> DEFINE ac == [NewActive EXCEPT !.begin = active[l].begin + active[l].count, !.owned = TRUE]
           tb == [table[l] EXCEPT !.ent = pages[l]]
           own == [heap[l] EXCEPT !.active = heap[l].active - 1]
<1>1. Numbered(l) /\ At(l, "pushed")
  BY Numbers DEF Publish
<1>2. /\ seal' = NoSeal /\ UNCHANGED <<pages, faults>> /\ heap' = [heap EXCEPT ![l] = own]
      /\ active' = [active EXCEPT ![l] = ac] /\ table' = [table EXCEPT ![l] = tb]
      /\ state' \in [Layers -> States] /\ gen' \in [Layers -> Nat]
  BY DEF Publish, SealAccounted, Types, States
<1>3. /\ seal.layer = l /\ heap[l].page = Len(pages[l]) + Bit("pushed" \in Candidates)
      /\ heap[l].table = Bit(table[l].cap > 0)
      /\ Bit(active[l].owned) + Bit("pushed" \in {"replaced", "pushed"}) <= heap[l].active
      /\ heap[l].active <= Bit(active[l].owned) + Bit("pushed" \in {"replaced", "pushed"}) + faults
      /\ active[l].count = PageSize /\ active[l].owned
  BY <1>1, ReachedPoint
<1>4. /\ Bit("pushed" \in Candidates) = 0 /\ Bit("pushed" \in {"replaced", "pushed"}) = 1
      /\ Bit(active[l].owned) = 1 /\ "started" \in Working
  BY <1>3 DEF Candidates, Bit, Working, Points
<1>5. ac \in Actives /\ ac.owned = TRUE /\ Bit(ac.owned) = 1
<2>1. active[l].begin + active[l].count \in Nat /\ 0 \in 0 .. PageSize
  BY SealLayerTypes, SizeAndNames DEF SealAccounted
<2> QED
  BY <2>1 DEF Actives, NewActive, Bit
<1>6. tb \in Tables /\ tb.cap = table[l].cap
<2>1. table[l] \in Tables /\ pages[l] \in Seq(Page)
  BY <1>1 DEF Numbered
<2> QED
  BY <2>1 DEF Tables
<1>7. own \in Buffers /\ own.active = heap[l].active - 1 /\ own.page = heap[l].page /\ own.table = heap[l].table
<2>1. heap[l].active - 1 \in Nat
  BY <1>1, <1>3, <1>4 DEF Numbered, Bit
<2> QED
  BY <2>1, Recount DEF SealAccounted
<1> HIDE DEF ac, tb, own
<1>8. pages' = [pages EXCEPT ![l] = pages[l]] /\ faults' \in Nat /\ faults' >= faults /\ faults' = faults
  BY <1>1, <1>2, Alone DEF SealAccounted, Numbered
<1>9. /\ own.page = Len(pages[l]) /\ own.table = Bit(tb.cap > 0)
      /\ Bit(ac.owned) <= own.active /\ own.active <= Bit(ac.owned) + faults'
<2>1. own.page = Len(pages[l]) /\ own.table = Bit(tb.cap > 0)
  BY <1>1, <1>3, <1>4, <1>6, <1>7 DEF Numbered
<2>2. 2 <= heap[l].active /\ heap[l].active <= 2 + faults
  BY <1>1, <1>3, <1>4 DEF Numbered, Bit
<2> QED
  BY <1>1, <1>5, <1>7, <1>8, <2>1, <2>2 DEF Numbered
<1>10. Work(l, own, pages[l], ac, tb, "started")
  BY <1>1, <1>2, <1>3, <1>4, <1>5, <1>6, <1>7, <1>8, <1>9 DEF Work, Numbered
<1> QED
  BY <1>10, WorkSound

\* Whatever point a seal had reached, what it undoes leaves every buffer but a lost
\* replacement page with an owner.
LEMMA UndoSound ==
  ASSUME SealAccounted, NEW l \in Layers, NEW p \in Working, At(l, p), Undo(l), faults' \in Nat,
         faults' = faults + 1 \/ (faults' = faults /\ p \notin {"replaced", "pushed"})
  PROVE  SealAccounted'
<1> DEFINE own == [heap[l] EXCEPT !.page = heap[l].page - Bit(p \in Candidates)]
<1>1. Numbered(l)
  BY Numbers
<1>2. /\ seal.layer = l /\ seal.at = p /\ heap[l].page = Len(pages[l]) + Bit(p \in Candidates)
      /\ heap[l].table = Bit(table[l].cap > 0)
      /\ Bit(active[l].owned) + Bit(p \in {"replaced", "pushed"}) <= heap[l].active
      /\ heap[l].active <= Bit(active[l].owned) + Bit(p \in {"replaced", "pushed"}) + faults
      /\ active[l].count = PageSize
  BY ReachedPoint
<1>3. /\ seal' = NoSeal /\ UNCHANGED <<pages, active, table, gen>> /\ heap' = [heap EXCEPT ![l] = own]
      /\ state' \in [Layers -> States]
  BY <1>2 DEF Undo, SealAccounted, Types, States
<1>4. Bit(p \in Candidates) \in {0, 1} /\ Bit(p \in {"replaced", "pushed"}) \in {0, 1}
      /\ p \notin {"replaced", "pushed"} => Bit(p \in {"replaced", "pushed"}) = 0
  BY DEF Bit
<1>5. own \in Buffers /\ own.page = Len(pages[l]) /\ own.active = heap[l].active /\ own.table = heap[l].table
<2>1. heap[l].page - Bit(p \in Candidates) = Len(pages[l]) /\ Len(pages[l]) \in Nat
  BY <1>1, <1>2 DEF Numbered, Bit
<2>2. own = [heap[l] EXCEPT !.page = Len(pages[l])]
  BY <2>1
<2> HIDE DEF own
<2> QED
  BY <2>1, <2>2, Recount DEF SealAccounted
<1> HIDE DEF own
<1>6. /\ pages' = [pages EXCEPT ![l] = pages[l]] /\ active' = [active EXCEPT ![l] = active[l]]
      /\ table' = [table EXCEPT ![l] = table[l]] /\ gen' \in [Layers -> Nat]
  BY <1>1, <1>3, Alone DEF SealAccounted, Numbered
<1>7. /\ own.table = Bit(table[l].cap > 0) /\ faults' >= faults
      /\ Bit(active[l].owned) <= own.active /\ own.active <= Bit(active[l].owned) + faults'
  BY <1>1, <1>2, <1>5 DEF Numbered, Bit
<1>8. Work(l, own, pages[l], active[l], table[l], p)
  BY <1>1, <1>2, <1>3, <1>5, <1>6, <1>7 DEF Work, Numbered
<1> QED
  BY <1>8, WorkSound

-----------------------------------------------------------------------------
(* The first theorem. *)

LEMMA InitAccounted == Init => SealAccounted
<1> SUFFICES ASSUME Init PROVE SealAccounted
  OBVIOUS
<1>1. NewActive \in Actives /\ NewTable \in Tables /\ NewActive.owned = FALSE /\ NewActive.count = 0 /\ NewTable.cap = 0
<2>1. 0 \in 0 .. PageSize /\ <<>> \in Seq(Page)
  BY SizeAndNames
<2> QED
  BY <2>1 DEF NewActive, NewTable, Actives, Tables
<1>2. Types
  BY <1>1 DEF Init, Types, States, Buffers
<1>3. ASSUME NEW l \in Layers PROVE LayerSound(l)
<2>1. /\ seal.layer # l /\ active[l] = NewActive /\ pages[l] = <<>> /\ table[l] = NewTable /\ faults = 0
      /\ heap[l] = [page |-> 0, active |-> 0, table |-> 0]
  BY SizeAndNames DEF Init, NoSeal
<2>2. Owned(l).page = 0 /\ Owned(l).table = 0 /\ Owned(l).active = 0
  BY <1>1, <2>1 DEF Owned, Bit
<2> QED
  BY <1>1, <2>1, <2>2 DEF LayerSound
<1> QED
  BY <1>2, <1>3 DEF SealAccounted

LEMMA StepAccounted == SealAccounted /\ [Next]_vars => SealAccounted'
<1> SUFFICES ASSUME SealAccounted, [Next]_vars PROVE SealAccounted'
  OBVIOUS
<1>1. ASSUME NEW l \in Layers, NEW begin \in Begins, NEW n \in 1 .. PageSize, NEW bad \in SUBSET Halves,
             Stage(l, begin, n, bad)
      PROVE  SealAccounted'
  BY <1>1, StageSound
<1>2. ASSUME NEW l \in Layers, NEW bad \in SUBSET Halves, StageFails(l, bad) PROVE SealAccounted'
  BY <1>2, StageFailsSound
<1>3. ASSUME NEW l \in Layers, Begin(l) PROVE SealAccounted'
  BY <1>3, QuietSteps
<1>4. ASSUME NEW l \in Layers, SealStep(l) PROVE SealAccounted'
<2>1. CASE Validate(l) \/ Quantize(l) \/ Describe(l)
  BY <2>1, QuietSteps
<2>2. CASE Pack(l) \/ Grow(l) \/ Replace(l) \/ Push(l) \/ Publish(l)
  BY <2>2, PackSound, GrowSound, ReplaceSound, PushSound, PublishSound
<2>3. CASE Reject(l)
<3>1. "validating" \in Working /\ "validating" \notin {"replaced", "pushed"} /\ faults \in Nat
  BY DEF Working, Points, SealAccounted, Types
<3> QED
  BY <2>3, <3>1, UndoSound DEF Reject
<2> QED
  BY <1>4, <2>1, <2>2, <2>3 DEF SealStep
<1>5. ASSUME NEW l \in Layers, Fail(l) PROVE SealAccounted'
<2>1. seal.layer = l /\ Undo(l) /\ faults' = faults + 1 /\ faults \in Nat
  BY <1>5 DEF Fail, Fails, SealAccounted, Types
<2>2. seal.at \in Working /\ At(l, seal.at)
  BY <2>1, SealPoints DEF SealAccounted, At
<2>3. PICK p \in Working : At(l, p)
  BY <2>2
<2>4. faults' \in Nat
  BY <2>1
<2>5. faults' = faults + 1 \/ (faults' = faults /\ p \notin {"replaced", "pushed"})
  BY <2>1
<2> QED
  BY <2>1, <2>3, <2>4, <2>5, UndoSound
<1>6. CASE Clear
  BY <1>6, ClearSound
<1>7. CASE UNCHANGED vars
<2>1. /\ state' = state /\ pages' = pages /\ active' = active /\ table' = table /\ gen' = gen
      /\ seal' = seal /\ heap' = heap /\ faults' = faults
  BY <1>7 DEF vars, layerVars
<2>2. Types'
  BY <2>1 DEF SealAccounted, Types
<2>3. ASSUME NEW l \in Layers PROVE LayerSound(l)'
<3>1. Owned(l)' = Owned(l)
  BY <2>1 DEF Owned, Bit
<3> QED
  BY <2>1, <3>1 DEF SealAccounted, LayerSound
<2> QED
  BY <2>2, <2>3 DEF SealAccounted
<1> QED
  BY <1>1, <1>2, <1>3, <1>4, <1>5, <1>6, <1>7 DEF Next

LEMMA AccountedHolds == Spec => []SealAccounted
  BY InitAccounted, StepAccounted, PTL DEF Spec

\* Wherever seals fail, and however often: what the records and the seal in progress
\* refer to is allocated, and what is allocated has an owner, but for at most one
\* replacement page lost to each failure.
THEOREM NothingFreedTwice == Spec => []BuffersAccounted
<1>1. SealAccounted => BuffersAccounted
<2> SUFFICES ASSUME SealAccounted, NEW l \in Layers
             PROVE  /\ heap[l].page = Owned(l).page /\ heap[l].table = Owned(l).table
                    /\ heap[l].active \in Owned(l).active .. Owned(l).active + faults
  BY DEF BuffersAccounted
<2>1. Owned(l).active \in {0, 1, 2} /\ heap[l].active \in Nat /\ faults \in Nat
  BY OwnedIs, SealLayerTypes DEF SealAccounted, Types
<2> QED
  BY <2>1 DEF SealAccounted, LayerSound
<1> QED
  BY <1>1, AccountedHolds, PTL

-----------------------------------------------------------------------------
(* The sealed history. *)

\* The pages that are sealed: the last one is not before the seal has ended.
Base(l) == IF At(l, "pushed") THEN SubSeq(pages[l], 1, Len(pages[l]) - 1) ELSE pages[l]

Checked == {"quantizing", "packing", "publishing", "grown", "replaced", "pushed"}
Grown == {"grown", "replaced", "pushed"}

\* A list of the first pages of ps.
Leads(ent, ps) == Len(ent) <= Len(ps) /\ \A i \in DOMAIN ent : ent[i] = ps[i]

\* The table has room for the sealed pages, and for one more once a seal has grown it,
\* and lists the first of them; a page past the scan is finite, and the page pushed is
\* the active one.
LayerOrdered(l) ==
  /\ Len(Base(l)) <= table[l].cap
  /\ seal.layer = l /\ seal.at \in Grown => Len(Base(l)) < table[l].cap
  /\ Leads(table[l].ent, Base(l))
  /\ seal.layer = l /\ seal.at \in Checked => Finite(l)
  /\ At(l, "pushed") => pages[l] = Append(Base(l), ActivePage(l))

Ordered == \A l \in Layers : LayerOrdered(l)

LEMMA ListsLead ==
  ASSUME NEW S, NEW s \in Seq(S), NEW x \in S, NEW t \in Seq(S)
  PROVE  /\ Leads(<<>>, s) /\ Leads(s, s)
         /\ Leads(t, s) => Leads(t, Append(s, x))
<1>1. Leads(<<>>, s) /\ Leads(s, s)
  BY DEF Leads
<1>2. ASSUME Leads(t, s) PROVE Leads(t, Append(s, x))
<2>1. Len(s) \in Nat /\ Len(t) \in Nat /\ Len(Append(s, x)) = Len(s) + 1 /\ DOMAIN t = 1 .. Len(t)
  OBVIOUS
<2>2. \A i \in 1 .. Len(s) : Append(s, x)[i] = s[i]
  OBVIOUS
<2> QED
  BY <1>2, <2>1, <2>2 DEF Leads
<1> QED
  BY <1>1, <1>2

LEMMA FrontOfAppend ==
  ASSUME NEW S, NEW s \in Seq(S), NEW x \in S
  PROVE  SubSeq(Append(s, x), 1, Len(Append(s, x)) - 1) = s
  OBVIOUS

\* A step leaves a layer its sealed pages when it touches neither them nor a seal of
\* the layer that has pushed one.
LEMMA OtherOrdered ==
  ASSUME NEW l \in Layers, LayerOrdered(l), seal.layer # l, seal'.layer # l,
         pages'[l] = pages[l], table'[l] = table[l]
  PROVE  LayerOrdered(l)' /\ Base(l)' = Base(l)
<1>1. \A p : ~At(l, p) /\ ~At(l, p)'
  BY DEF At
<1>2. Base(l)' = Base(l)
  BY <1>1 DEF Base
<1> QED
  BY <1>1, <1>2 DEF LayerOrdered

LEMMA StageOrdered ==
  ASSUME SealAccounted, Ordered, Idle, UNCHANGED <<pages, table, seal>>
  PROVE  Ordered' /\ \A x \in Layers : Base(x)' = Base(x)
<1>1. ASSUME NEW x \in Layers PROVE LayerOrdered(x)' /\ Base(x)' = Base(x)
<2>1. seal.layer # x /\ seal'.layer # x
  BY SealPoints DEF SealAccounted
<2> QED
  BY <2>1, OtherOrdered DEF Ordered
<1> QED
  BY <1>1 DEF Ordered

LEMMA ClearOrdered == ASSUME SealAccounted, Clear PROVE Ordered' /\ \A l \in Layers : Base(l)' = <<>>
<1>1. ASSUME NEW l \in Layers PROVE LayerOrdered(l)' /\ Base(l)' = <<>>
<2>1. /\ pages'[l] = <<>> /\ table'[l] = NewTable /\ active'[l] = NewActive /\ seal'.layer # l
      /\ \A p : ~At(l, p)'
  BY SealPoints DEF SealAccounted, Clear, At
<2>2. Base(l)' = <<>>
  BY <2>1 DEF Base
<2>3. NewTable.cap = 0 /\ NewTable.ent = <<>> /\ Leads(<<>>, <<>>)
  BY DEF NewTable, Leads
<2> QED
  BY <2>1, <2>2, <2>3 DEF LayerOrdered
<1> QED
  BY <1>1 DEF Ordered

\* The steps of a seal of l that leave its pages alone: its sealed pages are its pages.
LEMMA WorkOrdered ==
  ASSUME SealAccounted, Ordered, NEW l \in Layers, Idle \/ (\E p \in Working \ {"pushed"} : At(l, p)),
         UNCHANGED <<pages, active>>, \A x \in Layers : x # l => table'[x] = table[x],
         seal' = NoSeal \/ (\E q \in Working \ {"pushed"} : Goto(l, q)),
         Len(pages[l]) <= table'[l].cap,
         seal'.at \in Grown => Len(pages[l]) < table'[l].cap,
         Leads(table'[l].ent, pages[l]),
         seal'.at \in Checked => Finite(l)
  PROVE  Ordered' /\ \A x \in Layers : Base(x)' = Base(x)
<1>1. ~At(l, "pushed") /\ ~At(l, "pushed")'
  BY SizeAndNames DEF At, Goto, Idle, NoSeal
<1>2. Base(l) = pages[l] /\ Base(l)' = pages[l]
  BY <1>1 DEF Base
<1>3. LayerOrdered(l)'
  BY <1>1, <1>2 DEF Ordered, LayerOrdered, Finite
<1>4. ASSUME NEW x \in Layers, x # l PROVE LayerOrdered(x)' /\ Base(x)' = Base(x)
<2>1. seal.layer # x /\ seal'.layer # x
  BY <1>4, SizeAndNames DEF At, Goto, Idle, NoSeal
<2> QED
  BY <1>4, <2>1, OtherOrdered DEF Ordered
<1> QED
  BY <1>2, <1>3, <1>4 DEF Ordered

\* Before its page is pushed, a seal of l has l's pages as the sealed ones.
LEMMA BeforePush ==
  ASSUME SealAccounted, Ordered, NEW l \in Layers, NEW p \in Working \ {"pushed"}, At(l, p)
  PROVE  /\ seal.layer = l /\ seal.at = p /\ active[l].count = PageSize
         /\ Len(pages[l]) <= table[l].cap /\ Leads(table[l].ent, pages[l])
         /\ p \in Grown => Len(pages[l]) < table[l].cap
         /\ p \in Checked => Finite(l)
<1>1. seal.layer = l /\ seal.at = p /\ active[l].count = PageSize
  BY ReachedPoint
<1>2. Base(l) = pages[l]
  BY <1>1 DEF Base, At
<1> QED
  BY <1>1, <1>2 DEF Ordered, LayerOrdered, Finite

LEMMA BetweenSeals ==
  ASSUME SealAccounted, Ordered, NEW l \in Layers, Idle
  PROVE  /\ Base(l) = pages[l] /\ Len(pages[l]) <= table[l].cap /\ Leads(table[l].ent, pages[l])
<1>1. Base(l) = pages[l]
  BY SealPoints DEF SealAccounted, Base
<1> QED
  BY <1>1 DEF Ordered, LayerOrdered

LEMMA QuietOrdered ==
  ASSUME SealAccounted, Ordered, NEW l \in Layers,
         \/ Begin(l) \/ Validate(l) \/ Quantize(l) \/ Pack(l) \/ Describe(l) \/ Replace(l)
         \/ \E p \in Working \ {"pushed"} : At(l, p) /\ Undo(l)
  PROVE  Ordered' /\ \A x \in Layers : Base(x)' = Base(x)
<1> USE DEF Working, Points, Checked, Grown
<1>1. UNCHANGED <<pages, active, table>>
  BY DEF Begin, Validate, Quantize, Pack, Describe, Replace, Advance, Undo, layerVars
<1>2. CASE Begin(l)
<2>1. Idle /\ Goto(l, "started")
  BY <1>2 DEF Begin
<2>2. seal'.at = "started" /\ Len(pages[l]) <= table[l].cap /\ Leads(table[l].ent, pages[l])
  BY <2>1, BetweenSeals DEF Goto
<2> QED
  BY <1>1, <2>1, <2>2, WorkOrdered
<1>3. ASSUME NEW p \in Working \ {"pushed"}, NEW q \in Working \ {"pushed"}, At(l, p), Goto(l, q),
             q \in Grown => p \in Grown, q \in Checked => p \in Checked \/ Finite(l)
      PROVE  Ordered' /\ \A x \in Layers : Base(x)' = Base(x)
<2>1. /\ Len(pages[l]) <= table[l].cap /\ Leads(table[l].ent, pages[l])
      /\ p \in Grown => Len(pages[l]) < table[l].cap
      /\ p \in Checked => Finite(l)
  BY <1>3, BeforePush
<2>2. seal'.at = q
  BY <1>3 DEF Goto
<2> QED
  BY <1>1, <1>3, <2>1, <2>2, WorkOrdered
<1>4. CASE Validate(l)
  BY <1>3, <1>4 DEF Validate, Advance
<1>5. CASE Quantize(l)
  BY <1>3, <1>5 DEF Quantize, Advance
<1>6. CASE Pack(l)
  BY <1>3, <1>6 DEF Pack, Advance
<1>7. CASE Describe(l)
  BY <1>3, <1>7 DEF Describe, Advance
<1>8. CASE Replace(l)
  BY <1>3, <1>8 DEF Replace
<1>9. ASSUME NEW p \in Working \ {"pushed"}, At(l, p), Undo(l)
      PROVE  Ordered' /\ \A x \in Layers : Base(x)' = Base(x)
<2>1. Len(pages[l]) <= table[l].cap /\ Leads(table[l].ent, pages[l])
  BY <1>9, BeforePush
<2>2. seal' = NoSeal /\ seal'.at = "idle"
  BY <1>9 DEF Undo, NoSeal
<2> QED
  BY <1>1, <1>9, <2>1, <2>2, WorkOrdered
<1> QED
  BY <1>2, <1>4, <1>5, <1>6, <1>7, <1>8, <1>9

LEMMA GrowOrdered ==
  ASSUME SealAccounted, Ordered, NEW l \in Layers, Grow(l)
  PROVE  Ordered' /\ \A x \in Layers : Base(x)' = Base(x)
<1>1. At(l, "publishing") /\ Goto(l, "grown") /\ UNCHANGED <<pages, active>>
      /\ "publishing" \in Working \ {"pushed"} /\ "grown" \in Working \ {"pushed"} /\ seal'.at = "grown"
  BY DEF Grow, Goto, Working, Points
<1>2. Len(pages[l]) <= table[l].cap /\ Leads(table[l].ent, pages[l]) /\ Finite(l)
  BY <1>1, BeforePush DEF Checked
<1>3. Len(pages[l]) \in Nat /\ table[l].cap \in Nat
  BY SealLayerTypes DEF SealAccounted
<1>4. Len(pages[l]) < table'[l].cap /\ Leads(table'[l].ent, pages[l])
<2>1. CASE Len(pages[l]) < table[l].cap
  BY <1>2, <2>1 DEF Grow
<2>2. CASE ~(Len(pages[l]) < table[l].cap)
<3>1. table'[l] = [cap |-> IF table[l].cap = 0 THEN FirstCapacity ELSE 2 * table[l].cap, ent |-> <<>>]
  BY <2>2 DEF Grow, SealAccounted, Types
<3>2. table'[l].ent = <<>> /\ Leads(<<>>, pages[l])
  BY <3>1 DEF Leads
<3> QED
  BY <1>2, <1>3, <2>2, <3>1, <3>2, SizeAndNames
<2> QED
  BY <2>1, <2>2
<1>5. \A x \in Layers : x # l => table'[x] = table[x]
  BY DEF Grow, SealAccounted, Types
<1>6. Len(pages[l]) <= table'[l].cap
<2>1. table'[l].cap \in Nat
  BY GrowSound, SealLayerTypes DEF SealAccounted, Grow, Types, Tables
<2> QED
  BY <1>3, <1>4, <2>1
<1> QED
  BY <1>1, <1>2, <1>4, <1>5, <1>6, WorkOrdered

LEMMA PushOrdered ==
  ASSUME SealAccounted, Ordered, NEW l \in Layers, Push(l)
  PROVE  Ordered' /\ \A x \in Layers : Base(x)' = Base(x)
<1> DEFINE ps == Append(pages[l], ActivePage(l))
<1>1. /\ At(l, "replaced") /\ seal' = [layer |-> l, at |-> "pushed"] /\ UNCHANGED <<active, table>>
      /\ pages' = [pages EXCEPT ![l] = ps] /\ "replaced" \in Working \ {"pushed"}
  BY DEF Push, Goto, Working, Points
<1>2. /\ Len(pages[l]) <= table[l].cap /\ Leads(table[l].ent, pages[l]) /\ Finite(l)
      /\ Len(pages[l]) < table[l].cap
  BY <1>1, BeforePush DEF Checked, Grown
<1>3. pages'[l] = ps /\ \A x \in Layers : x # l => pages'[x] = pages[x]
  BY <1>1 DEF SealAccounted, Types
<1>4. SubSeq(ps, 1, Len(ps) - 1) = pages[l]
<2>1. ActivePage(l) \in Page /\ pages[l] \in Seq(Page)
  BY SealLayerTypes DEF SealAccounted, ActivePage, Page, Finite
<2> QED
  BY <2>1, FrontOfAppend
<1>5. Base(l) = pages[l] /\ Base(l)' = pages[l]
  BY <1>1, <1>3, <1>4 DEF Base, At
<1> HIDE DEF ps
<1>6. LayerOrdered(l)'
<2>1. active'[l] = active[l] /\ table'[l] = table[l] /\ Finite(l)'
  BY <1>1, <1>2 DEF Finite
<2>2. pages'[l] = Append(pages[l], ActivePage(l)')
  BY <1>3, <2>1 DEF ps, ActivePage, Finite
<2>3. Len(pages[l]) <= table[l].cap
  BY <1>2
<2> QED
  BY <1>2, <1>5, <2>1, <2>2, <2>3 DEF LayerOrdered
<1>7. ASSUME NEW x \in Layers, x # l PROVE LayerOrdered(x)' /\ Base(x)' = Base(x)
<2>1. seal.layer # x /\ seal'.layer # x
  BY <1>1, <1>7 DEF At
<2> QED
  BY <1>1, <1>3, <1>7, <2>1, OtherOrdered DEF Ordered
<1> QED
  BY <1>5, <1>6, <1>7 DEF Ordered

\* The sealed pages once the page pushed is among them.
LEMMA PushedJoins ==
  ASSUME SealAccounted, Ordered, NEW l \in Layers, At(l, "pushed"),
         seal' = NoSeal, UNCHANGED pages, table'[l].cap = table[l].cap,
         table'[l].ent = pages[l] \/ table'[l].ent = table[l].ent,
         \A x \in Layers : x # l => table'[x] = table[x]
  PROVE  /\ Ordered' /\ \A x \in Layers : x # l => Base(x)' = Base(x)
         /\ Base(l)' = Append(Base(l), ActivePage(l)) /\ Finite(l) /\ active[l].count = PageSize
<1>1. /\ seal.layer = l /\ seal.at = "pushed" /\ active[l].count = PageSize /\ Finite(l)
      /\ pages[l] = Append(Base(l), ActivePage(l)) /\ Leads(table[l].ent, Base(l))
      /\ Len(Base(l)) < table[l].cap
  BY ReachedPoint DEF Ordered, LayerOrdered, Grown, Checked
<1>2. \A x \in Layers : \A p : seal'.layer # x /\ ~At(x, p)'
  BY SizeAndNames DEF At, NoSeal
<1>3. Base(l)' = pages[l]
  BY <1>2 DEF Base
<1>4. LayerOrdered(l)'
<2>1. /\ pages[l] \in Seq(Page) /\ ActivePage(l) \in Page /\ table[l].ent \in Seq(Page)
      /\ table[l].cap \in Nat
  BY SealLayerTypes DEF SealAccounted, ActivePage, Page, Finite
<2>2. Base(l) \in Seq(Page)
  BY <2>1 DEF Base
<2>3. Len(pages[l]) = Len(Base(l)) + 1 /\ Len(Base(l)) \in Nat
  BY <1>1, <2>1, <2>2
<2>4. Leads(table[l].ent, Append(Base(l), ActivePage(l)))
  BY <1>1, <2>1, <2>2, ListsLead
<2>5. Leads(pages[l], pages[l])
  BY DEF Leads
<2>6. Leads(table'[l].ent, pages[l])
  BY <1>1, <2>4, <2>5
<2>7. Len(pages[l]) <= table'[l].cap
  BY <1>1, <2>1, <2>3
<2> QED
  BY <1>2, <1>3, <2>6, <2>7 DEF LayerOrdered
<1>5. ASSUME NEW x \in Layers, x # l PROVE LayerOrdered(x)' /\ Base(x)' = Base(x)
<2>1. seal.layer # x /\ seal'.layer # x
  BY <1>1, <1>2, <1>5
<2> QED
  BY <1>5, <2>1, OtherOrdered DEF Ordered
<1> QED
  BY <1>1, <1>3, <1>4, <1>5 DEF Ordered

-----------------------------------------------------------------------------
(* The theorems about the sealed pages. *)

LEMMA InitOrdered == Init => Ordered
<1> SUFFICES ASSUME Init, NEW l \in Layers PROVE LayerOrdered(l)
  BY DEF Ordered
<1>1. /\ pages[l] = <<>> /\ table[l] = NewTable /\ active[l] = NewActive /\ seal.layer # l
      /\ \A p : ~At(l, p)
  BY SizeAndNames DEF Init, NoSeal, At
<1>2. Base(l) = <<>>
  BY <1>1 DEF Base
<1>3. NewTable.cap = 0 /\ NewTable.ent = <<>> /\ Leads(<<>>, <<>>)
  BY DEF NewTable, Leads
<1> QED
  BY <1>1, <1>2, <1>3 DEF LayerOrdered

\* The abstract variables.
HistoryOf == [l \in Layers |-> Base(l)]
TailOf == [l \in Layers |-> [begin |-> active[l].begin, count |-> active[l].count, finite |-> Finite(l)]]

\* Every step is a step of the sealed history or leaves it alone.
HistoryStep == History!Next \/ UNCHANGED <<HistoryOf, TailOf>>

LEMMA Mapping ==
  HistoryOf = [l \in Layers |-> IF At(l, "pushed") THEN SubSeq(pages[l], 1, Len(pages[l]) - 1) ELSE pages[l]]
  BY DEF HistoryOf, Base

\* A step that leaves the active pages and what is sealed alone is a stutter.
LEMMA Stutters ==
  ASSUME \A x \in Layers : Base(x)' = Base(x), UNCHANGED active
  PROVE  HistoryStep
  BY DEF HistoryStep, HistoryOf, TailOf, Finite

\* A full, finite tail joins the sealed pages.
LEMMA HistoryJoins ==
  ASSUME SealAccounted, NEW l \in Layers, \A x \in Layers : x # l => Base(x)' = Base(x),
         Base(l)' = Append(Base(l), ActivePage(l)), Finite(l), active[l].count = PageSize
  PROVE  History!Join(l)
<1>1. ActivePage(l) = [begin |-> TailOf[l].begin, finite |-> TRUE]
  BY DEF ActivePage, TailOf, Finite
<1>2. HistoryOf' = [HistoryOf EXCEPT ![l] = Append(@, [begin |-> TailOf[l].begin, finite |-> TRUE])]
  BY <1>1 DEF HistoryOf
<1>3. TailOf[l].count = PageSize /\ TailOf[l].finite
  BY DEF TailOf
<1> QED
  BY <1>2, <1>3 DEF History!Join, HistoryOf, TailOf, Base

LEMMA HistoryNext ==
  ASSUME SealAccounted, Ordered, [Next]_vars
  PROVE  Ordered' /\ HistoryStep
<1>1. ASSUME NEW l \in Layers, NEW begin \in Begins, NEW n \in 1 .. PageSize, NEW bad \in SUBSET Halves,
             Stage(l, begin, n, bad)
      PROVE  Ordered' /\ HistoryStep
<2> DEFINE new == [begin |-> begin, count |-> n, owned |-> TRUE, bad |-> bad]
<2>1. /\ Idle /\ UNCHANGED <<pages, table, seal>> /\ active' = [active EXCEPT ![l] = new]
      /\ new.begin = begin /\ new.count = n /\ new.bad = bad
  BY <1>1 DEF Stage
<2> HIDE DEF new
<2>2. Ordered' /\ \A x \in Layers : Base(x)' = Base(x)
  BY <2>1, StageOrdered
<2>3. HistoryOf' = HistoryOf
  BY <2>2 DEF HistoryOf
<2>4. PICK f \in BOOLEAN : f = (bad = {})
  OBVIOUS
<2>5. TailOf' = [TailOf EXCEPT ![l] = [begin |-> begin, count |-> n, finite |-> f]]
  BY <2>1, <2>4 DEF TailOf, Finite, SealAccounted, Types
<2>6. History!Stage(l)
  BY <2>3, <2>5 DEF History!Stage, HistoryOf, TailOf, Base
<2> QED
  BY <2>2, <2>6 DEF HistoryStep, History!Next
<1>2. ASSUME NEW l \in Layers, NEW bad \in SUBSET Halves, StageFails(l, bad) PROVE Ordered' /\ HistoryStep
<2> DEFINE new == [active[l] EXCEPT !.owned = TRUE, !.bad = bad]
<2>1. /\ Idle /\ UNCHANGED <<pages, table, seal>> /\ active' = [active EXCEPT ![l] = new]
      /\ new.begin = active[l].begin /\ new.count = active[l].count /\ new.bad = bad
<3>1. active[l] \in Actives
  BY SealLayerTypes DEF SealAccounted
<3> QED
  BY <1>2, <3>1 DEF StageFails, SealAccounted, Types, Actives
<2> HIDE DEF new
<2>2. Ordered' /\ \A x \in Layers : Base(x)' = Base(x)
  BY <2>1, StageOrdered
<2>3. HistoryOf' = HistoryOf
  BY <2>2 DEF HistoryOf
<2>4. PICK f \in BOOLEAN : f = (bad = {})
  OBVIOUS
<2>5. TailOf' = [TailOf EXCEPT ![l] = [@ EXCEPT !.finite = f]]
  BY <2>1, <2>4 DEF TailOf, Finite, SealAccounted, Types
<2>6. History!StageFails(l)
  BY <2>3, <2>5 DEF History!StageFails, HistoryOf, TailOf, Base
<2> QED
  BY <2>2, <2>6 DEF HistoryStep, History!Next
<1>3. CASE Clear
<2>1. Ordered' /\ \A l \in Layers : Base(l)' = <<>>
  BY <1>3, ClearOrdered
<2>2. HistoryOf' = [l \in Layers |-> <<>>]
  BY <2>1 DEF HistoryOf
<2>3. TailOf' = [l \in Layers |-> History!EmptyTail]
  BY <1>3 DEF TailOf, Finite, Clear, NewActive, History!EmptyTail
<2>4. History!Clear
  BY <2>2, <2>3 DEF History!Clear, HistoryOf, TailOf, Base
<2> QED
  BY <2>1, <2>4 DEF HistoryStep, History!Next
<1>4. ASSUME NEW l \in Layers,
             \/ Begin(l) \/ Validate(l) \/ Quantize(l) \/ Pack(l) \/ Describe(l) \/ Replace(l)
             \/ \E p \in Working \ {"pushed"} : At(l, p) /\ Undo(l)
      PROVE  Ordered' /\ HistoryStep
<2>1. UNCHANGED active
  BY <1>4 DEF Begin, Validate, Quantize, Pack, Describe, Replace, Advance, Undo, layerVars
<2> QED
  BY <1>4, <2>1, QuietOrdered, Stutters
<1>5. ASSUME NEW l \in Layers, Grow(l) \/ Push(l) PROVE Ordered' /\ HistoryStep
<2>1. UNCHANGED active
  BY <1>5 DEF Grow, Push
<2> QED
  BY <1>5, <2>1, GrowOrdered, PushOrdered, Stutters
<1>6. ASSUME NEW l \in Layers, Publish(l) PROVE Ordered' /\ HistoryStep
<2>1. /\ At(l, "pushed") /\ seal' = NoSeal /\ UNCHANGED pages
      /\ active' = [active EXCEPT ![l] = [NewActive EXCEPT !.begin = active[l].begin + active[l].count,
                                                           !.owned = TRUE]]
  BY <1>6 DEF Publish
<2>2. /\ table'[l].cap = table[l].cap /\ table'[l].ent = pages[l]
      /\ \A x \in Layers : x # l => table'[x] = table[x]
<3>1. table' = [table EXCEPT ![l] = [table[l] EXCEPT !.ent = pages[l]]] /\ table[l] \in Tables
  BY <1>6, SealLayerTypes DEF Publish, SealAccounted, Types
<3> QED
  BY <3>1 DEF SealAccounted, Types, Tables
<2>3. /\ Ordered' /\ \A x \in Layers : x # l => Base(x)' = Base(x)
      /\ Base(l)' = Append(Base(l), ActivePage(l)) /\ Finite(l) /\ active[l].count = PageSize
  BY <2>1, <2>2, PushedJoins
<2>4. TailOf' = [TailOf EXCEPT ![l] = [History!EmptyTail EXCEPT !.begin = TailOf[l].begin + PageSize]]
  BY <2>1, <2>3 DEF TailOf, Finite, NewActive, History!EmptyTail, SealAccounted, Types
<2>5. History!Seal(l)
  BY <2>3, <2>4, HistoryJoins DEF History!Seal, TailOf
<2> QED
  BY <2>3, <2>5 DEF HistoryStep, History!Next
<1>7. ASSUME NEW l \in Layers, Reject(l) \/ Fail(l) PROVE Ordered' /\ HistoryStep
<2>1. Undo(l) /\ seal.layer = l
  BY <1>7, SealPoints DEF Reject, Fail, SealAccounted
<2>2. seal.at \in Working /\ At(l, seal.at)
  BY <2>1, SealPoints DEF SealAccounted, At
<2>3. CASE seal.at # "pushed"
<3>1. \E p \in Working \ {"pushed"} : At(l, p) /\ Undo(l)
  BY <2>1, <2>2, <2>3
<3> QED
  BY <1>4, <3>1
<2>4. CASE seal.at = "pushed"
<3>1. At(l, "pushed") /\ seal' = NoSeal /\ UNCHANGED <<pages, active, table>>
  BY <2>1, <2>2, <2>4 DEF Undo
<3>2. /\ Ordered' /\ \A x \in Layers : x # l => Base(x)' = Base(x)
      /\ Base(l)' = Append(Base(l), ActivePage(l)) /\ Finite(l) /\ active[l].count = PageSize
  BY <3>1, PushedJoins
<3>3. TailOf' = TailOf
  BY <3>1 DEF TailOf, Finite
<3>4. History!PublishFails(l)
  BY <3>2, <3>3, HistoryJoins DEF History!PublishFails, TailOf
<3> QED
  BY <3>2, <3>4 DEF HistoryStep, History!Next
<2> QED
  BY <2>3, <2>4
<1>8. CASE UNCHANGED vars
<2>1. /\ pages' = pages /\ active' = active /\ table' = table /\ seal' = seal
  BY <1>8 DEF vars, layerVars
<2>2. \A l \in Layers : Base(l)' = Base(l) /\ LayerOrdered(l)'
  BY <2>1 DEF Base, At, LayerOrdered, ActivePage, Finite, Ordered
<2> QED
  BY <2>1, <2>2, Stutters DEF Ordered
<1> QED
  BY <1>1, <1>2, <1>3, <1>4, <1>5, <1>6, <1>7, <1>8 DEF Next, SealStep

LEMMA OrderedHolds == Spec => [](SealAccounted /\ Ordered)
<1>1. Init => SealAccounted /\ Ordered
  BY InitAccounted, InitOrdered
<1>2. SealAccounted /\ Ordered /\ [Next]_vars => (SealAccounted /\ Ordered)'
  BY StepAccounted, HistoryNext
<1> QED
  BY <1>1, <1>2, PTL DEF Spec

\* Wherever seals fail, for any layers, page size, staged pages and failures: between
\* calls the descriptor table has room for every page of the layer and lists the first
\* of them in order, and every buffer has its owner.
THEOREM StorageHolds == Spec => []StorageSound
<1>1. SealAccounted => TypeOK
  BY DEF SealAccounted, Types, TypeOK, Actives, Tables, Buffers, NoSeal, Working, Points
<1>2. SealAccounted /\ Ordered => TableLeads
  BY BetweenSeals DEF TableLeads, Leads
<1>3. SealAccounted /\ Ordered /\ BuffersAccounted => StorageSound
  BY <1>1, <1>2 DEF StorageSound
<1> QED
  BY <1>3, OrderedHolds, NothingFreedTwice, PTL

\* The engine implements SealedHistory wherever it fails: the pages of a layer are, one
\* after the other, copies of its active page taken when that was full and finite, and
\* only a seal that has published one starts the next active page behind it.
THEOREM SealsExtendHistory == Spec => ImplementsHistory
<1>1. Init => History!Init
<2> SUFFICES ASSUME Init PROVE History!Init
  OBVIOUS
<2>1. \A l \in Layers : ~At(l, "pushed") /\ pages[l] = <<>> /\ active[l] = NewActive
  BY SizeAndNames DEF Init, At, NoSeal
<2>2. HistoryOf = [l \in Layers |-> <<>>]
  BY <2>1 DEF HistoryOf, Base
<2>3. TailOf = [l \in Layers |-> History!EmptyTail]
  BY DEF Init, TailOf, Finite, NewActive, History!EmptyTail
<2> QED
  BY <2>2, <2>3 DEF History!Init, HistoryOf, TailOf, Base
<1>2. SealAccounted /\ Ordered /\ [Next]_vars => [History!Next]_<<HistoryOf, TailOf>>
  BY HistoryNext DEF HistoryStep
<1>3. Spec => [][History!Next]_<<HistoryOf, TailOf>>
  BY <1>2, OrderedHolds, PTL DEF Spec
<1> QED
  BY <1>1, <1>3, PTL DEF Spec, ImplementsHistory, History!Spec, HistoryOf, TailOf, Base

-----------------------------------------------------------------------------
(* The dataplane and the compressed cache. *)

\* The dataplane's sums and cardinalities are those the lemmas of sums speak of.
LEMMA SameSums == \A f : Dataplane!SumFunction(f) = SumFunction(f)
  BY DEF Dataplane!SumFunction, SumFunction, Dataplane!SumFunctionOnSet, SumFunctionOnSet,
         Dataplane!FoldFunctionOnSet, FoldFunctionOnSet, Dataplane!MapThenFoldSet, MapThenFoldSet

LEMMA SameSizes == \A S : Dataplane!Cardinality(S) = Cardinality(S)
  BY DEF Dataplane!Cardinality, Cardinality

-----------------------------------------------------------------------------
(* Offsets and indices. *)

LEMMA Monotone ==
  ASSUME NEW a \in Nat, NEW b \in Nat, NEW c \in Nat
  PROVE  /\ a * c \in Nat /\ (a <= b => a * c <= b * c) /\ (a < b => a * c + c <= b * c)
<1>1. a * c \in Nat
  OBVIOUS
<1>2. a < b => (a + 1) * c <= b * c
  OBVIOUS
<1>3. (a + 1) * c = a * c + c
  OBVIOUS
<1> QED
  BY <1>1, <1>2, <1>3

\* A quotient and a remainder are the only ones.
LEMMA Split ==
  ASSUME NEW n \in Nat \ {0}, NEW a \in Nat, NEW r \in 0 .. n - 1
  PROVE  (a * n + r) \div n = a /\ (a * n + r) % n = r
<1>1. PICK x \in Nat : x = a * n + r
  BY Monotone
<1>2. x \div n \in Nat /\ (x \div n) * n <= x /\ x < (x \div n) * n + n /\ x % n \in Nat
  OBVIOUS
<1>3. x = n * (x \div n) + (x % n)
  OBVIOUS
<1>4. PICK q \in Nat : q = x \div n
  BY <1>2
<1>5. PICK u, v \in Nat : u = q * n /\ v = a * n
  BY Monotone
<1>6. (q < a => u + n <= v) /\ (a < q => v + n <= u)
  BY <1>5, Monotone
<1>7. q = a
  BY <1>1, <1>2, <1>4, <1>5, <1>6
<1>8. x = n * q + (x % n)
  BY <1>3, <1>4
<1>9. n * q = v
  BY <1>5, <1>7
<1> QED
  BY <1>1, <1>2, <1>4, <1>5, <1>7, <1>8, <1>9

\* A tensor as a caller describes it.
Tensors == [tokens : Nat \ {0}, element : Nat, head : Nat, token : Nat]
Places(view) == (0 .. view.tokens - 1) \X (0 .. KvHeads - 1) \X (0 .. HeadDim - 1)
Found(view, p) == Dataplane!Offset(view, p[1], p[2], p[3])
Before(p, q) == p[1] < q[1] \/ (p[1] = q[1] /\ (p[2] < q[2] \/ (p[2] = q[2] /\ p[3] < q[3])))

\* Strides that validate keep a value clear of those at later places.
LEMMA LaterIsBeyond ==
  ASSUME NEW view \in Tensors, Dataplane!Validated(view), NEW p \in Places(view), NEW q \in Places(view), Before(p, q)
  PROVE  Found(view, p) + 2 <= Found(view, q) /\ Found(view, p) \in Nat /\ Found(view, q) \in Nat
<1>1. PICK t, u \in 0 .. view.tokens - 1, h, i \in 0 .. KvHeads - 1, d, e \in 0 .. HeadDim - 1 :
        t = p[1] /\ h = p[2] /\ d = p[3] /\ u = q[1] /\ i = q[2] /\ e = q[3]
  BY DEF Places
<1>2. /\ t \in Nat /\ u \in Nat /\ h \in Nat /\ i \in Nat /\ d \in Nat /\ e \in Nat
      /\ KvHeads - 1 \in Nat /\ HeadDim - 1 \in Nat /\ h <= KvHeads - 1 /\ d <= HeadDim - 1
  BY <1>1, PlaneConstants DEF Tensors
<1>3. PICK x, y, z \in Nat : x = view.token /\ y = view.head /\ z = view.element
  BY DEF Tensors
<1>4. PICK ym, zm \in Nat : ym = (KvHeads - 1) * y /\ zm = (HeadDim - 1) * z
  BY <1>2, <1>3, Monotone
<1>5. z >= 2 /\ y >= zm + 2 /\ x >= ym + zm + 2
  BY <1>3, <1>4 DEF Dataplane!Validated, Dataplane!Width
<1>6. PICK tx, ux, hy, iy, dz, ez \in Nat :
        tx = t * x /\ ux = u * x /\ hy = h * y /\ iy = i * y /\ dz = d * z /\ ez = e * z
  BY <1>2, <1>3, Monotone
<1>7. Found(view, p) = tx + hy + dz /\ Found(view, q) = ux + iy + ez
  BY <1>1, <1>3, <1>6 DEF Found, Dataplane!Offset
<1>8. hy <= ym /\ dz <= zm
  BY <1>2, <1>3, <1>4, <1>6, Monotone
<1>9. (t < u => tx + x <= ux) /\ (h < i => hy + y <= iy) /\ (d < e => dz + z <= ez)
  BY <1>2, <1>3, <1>6, Monotone
<1>10. t < u \/ (t = u /\ (h < i \/ (h = i /\ d < e)))
  BY <1>1 DEF Before
<1>11. (t = u => tx = ux) /\ (h = i => hy = iy)
  BY <1>6
<1> QED
  BY <1>5, <1>7, <1>8, <1>9, <1>10, <1>11

\* So what is loaded is what the producer meant for the place.
LEMMA LoadedExact ==
  ASSUME NEW view \in Tensors, Dataplane!Validated(view), NEW stamp,
         NEW t \in 0 .. view.tokens - 1, NEW h \in 0 .. KvHeads - 1, NEW d \in 0 .. HeadDim - 1
  PROVE  Dataplane!Loaded(view, stamp, t, h, d) = [stamp |-> stamp, token |-> t, head |-> h, dim |-> d]
<1>1. <<t, h, d>> \in Places(view) /\ Found(view, <<t, h, d>>) = Dataplane!Offset(view, t, h, d)
  BY DEF Places, Found
<1>2. ASSUME NEW p \in Places(view) \ {<<t, h, d>>}
      PROVE  \/ Found(view, p) >= Found(view, <<t, h, d>>) + 2
             \/ Found(view, p) + 2 <= Found(view, <<t, h, d>>)
  <2>1. Before(p, <<t, h, d>>) \/ Before(<<t, h, d>>, p)
    BY PlaneConstants DEF Before, Places, Tensors
  <2> QED
    BY <1>1, <2>1, LaterIsBeyond
<1> QED
  BY <1>1, <1>2 DEF Dataplane!Loaded, Dataplane!Width, Places, Found

\* The values of a token lie together, from the multiple of their number on.
Values == KvHeads * HeadDim
Index(n, h, d) == (n * KvHeads + h) * HeadDim + d

LEMMA IndexParts ==
  ASSUME NEW n \in Nat, NEW h \in 0 .. KvHeads - 1, NEW d \in 0 .. HeadDim - 1
  PROVE  /\ Values \in Nat \ {0} /\ n * Values \in Nat /\ Index(n, h, d) \in Nat
         /\ Index(n, h, d) = n * Values + (h * HeadDim + d) /\ h * HeadDim + d \in 0 .. Values - 1
         /\ Index(n, h, d) \div (HeadDim * KvHeads) = n
         /\ (Index(n, h, d) \div HeadDim) % KvHeads = h /\ Index(n, h, d) % HeadDim = d
<1>1. h \in Nat /\ d \in Nat /\ KvHeads \in Nat \ {0} /\ HeadDim \in Nat \ {0}
  BY PlaneConstants
<1>2. PICK hd, nk \in Nat : hd = h * HeadDim /\ nk = n * KvHeads
  BY <1>1, Monotone
<1>3. hd + HeadDim <= Values /\ Values \in Nat \ {0} /\ HeadDim * KvHeads = Values
  <2>1. KvHeads * HeadDim \in Nat /\ hd + HeadDim <= KvHeads * HeadDim
    BY <1>1, <1>2, Monotone
  <2>2. HeadDim * KvHeads = KvHeads * HeadDim
    BY <1>1
  <2> QED
    BY <1>1, <1>2, <2>1, <2>2 DEF Values
<1>4. n * Values \in Nat /\ n * Values = nk * HeadDim
  BY <1>1, <1>2, <1>3, Monotone DEF Values
<1>5. (nk + h) * HeadDim = nk * HeadDim + hd
  BY <1>1, <1>2
<1>6. Index(n, h, d) = n * Values + (hd + d) /\ hd + d \in 0 .. Values - 1
  BY <1>1, <1>2, <1>3, <1>4, <1>5 DEF Index
<1>7. Index(n, h, d) \div Values = n
  <2>1. PICK v \in Nat \ {0} : v = Values
    BY <1>3
  <2>2. PICK r \in 0 .. v - 1 : r = hd + d
    BY <1>6, <2>1
  <2>3. (n * v + r) \div v = n
    BY ONLY v \in Nat \ {0}, n \in Nat, r \in 0 .. v - 1, Split
  <2>4. Index(n, h, d) = n * v + r
    BY <1>6, <2>1, <2>2
  <2> QED
    BY <2>1, <2>3, <2>4
<1>8. Index(n, h, d) \div HeadDim = nk + h /\ Index(n, h, d) % HeadDim = d
  BY <1>1, <1>2, Split DEF Index
<1>9. (nk + h) % KvHeads = h
  BY <1>1, <1>2, Split
<1> QED
  BY <1>1, <1>2, <1>3, <1>4, <1>6, <1>7, <1>8, <1>9

-----------------------------------------------------------------------------
(* Conversion writes the tokens it is given, and only behind those held. *)

Indices == Dataplane!PageIndices

\* The index of every value of a token is a page index, from the token's first on.
LEMMA IndexWithin ==
  ASSUME NEW n \in Nat, n < PageSize, NEW h \in 0 .. KvHeads - 1, NEW d \in 0 .. HeadDim - 1
  PROVE  Index(n, h, d) \in Indices
<1>1. /\ Values \in Nat \ {0} /\ n * Values \in Nat /\ h * HeadDim + d \in 0 .. Values - 1
      /\ Index(n, h, d) = n * Values + (h * HeadDim + d)
  BY IndexParts
<1>2. n * Values + Values <= PageSize * Values
  BY <1>1, SealConstants, Monotone
<1>3. PageSize * Values = PageSize * KvHeads * HeadDim
  BY PlaneConstants, SealConstants DEF Values
<1>4. PageSize * Values \in Nat
  BY <1>1, SealConstants, Monotone
<1>5. PICK last \in Nat : last = PageSize * Values /\ Indices = 0 .. last - 1
  BY <1>3, <1>4 DEF Indices, Dataplane!PageIndices
<1> QED
  BY <1>1, <1>2, <1>5

Fits(view, held) ==
  view \in Tensors /\ Dataplane!Validated(view) /\ held \in Nat /\ held + view.tokens <= PageSize
TokenOf(view, t) == t \in 0 .. view.tokens - 1
Place(h, d) == h \in 0 .. KvHeads - 1 /\ d \in 0 .. HeadDim - 1

\* What is held stays, and behind it is what the tensor holds.
LEMMA ConvertExact ==
  ASSUME NEW view, NEW stamp, NEW held, NEW buffer, NEW h, NEW d, Fits(view, held), Place(h, d)
  PROVE  /\ \A n \in Nat : n < held =>
              Dataplane!Convert(buffer, view, stamp, held)[Index(n, h, d)] = buffer[Index(n, h, d)]
         /\ \A t : TokenOf(view, t) =>
              Dataplane!Convert(buffer, view, stamp, held)[Index(held + t, h, d)]
                = [stamp |-> stamp, token |-> t, head |-> h, dim |-> d]
<1>0. /\ view \in Tensors /\ Dataplane!Validated(view) /\ held \in Nat /\ held + view.tokens <= PageSize
      /\ h \in 0 .. KvHeads - 1 /\ d \in 0 .. HeadDim - 1
  BY DEF Fits, Place
<1> USE <1>0
<1> DEFINE result == Dataplane!Convert(buffer, view, stamp, held)
<1>1. PICK first, size \in Nat : first = held * Values /\ size = view.tokens * Values
  BY IndexParts, Monotone DEF Tensors, Values
<1>2. first = held * KvHeads * HeadDim /\ size = view.tokens * KvHeads * HeadDim
  BY <1>1, PlaneConstants DEF Values, Tensors
<1>3. \A i \in Indices : result[i] = IF i - first \in 0 .. size - 1
        THEN Dataplane!Loaded(view, stamp, (i - first) \div (HeadDim * KvHeads),
                              ((i - first) \div HeadDim) % KvHeads, (i - first) % HeadDim)
        ELSE buffer[i]
  <2> DEFINE value(i, values) ==
               IF i - first \in 0 .. values - 1
               THEN Dataplane!Loaded(view, stamp, (i - first) \div (HeadDim * KvHeads),
                                     ((i - first) \div HeadDim) % KvHeads, (i - first) % HeadDim)
               ELSE buffer[i]
  <2>1. result = Dataplane!Converted(buffer, view, stamp, first)
    BY <1>2 DEF Dataplane!Convert
  <2>2. \A i \in Indices : result[i] = value(i, view.tokens * KvHeads * HeadDim)
    BY <2>1, Zenon DEF Dataplane!Converted, Indices
  <2> HIDE DEF value
  <2>3. \A i \in Indices : result[i] = value(i, size)
    BY <1>2, <2>2
  <2> QED
    BY <2>3, Zenon DEF value
<1> HIDE DEF result
<1>4. ASSUME NEW n \in Nat, n < held PROVE result[Index(n, h, d)] = buffer[Index(n, h, d)]
  <2>1. Index(n, h, d) \in Indices /\ Index(n, h, d) \in Nat
    <3>1. n < PageSize
      BY <1>4, SealConstants DEF Tensors
    <3> QED
      BY <1>4, <3>1, IndexWithin, IndexParts
  <2>2. Index(n, h, d) < first
    <3>1. n * Values + Values <= first
      BY <1>1, <1>4, IndexParts, Monotone
    <3> QED
      BY <1>1, <3>1, IndexParts
  <2> QED
    BY <1>1, <1>3, <2>1, <2>2
<1>5. ASSUME NEW t \in 0 .. view.tokens - 1
      PROVE  result[Index(held + t, h, d)] = [stamp |-> stamp, token |-> t, head |-> h, dim |-> d]
  <2>1. t \in Nat /\ held + t \in Nat /\ held + t < PageSize /\ t < view.tokens
    BY SealConstants DEF Tensors
  <2>2. Index(held + t, h, d) \in Indices
    BY <2>1, IndexWithin
  <2>3. Index(held + t, h, d) - first = Index(t, h, d)
    <3>1. PICK tv \in Nat : tv = t * Values
      BY <2>1, IndexParts
    <3>2. (held + t) * Values = first + tv
      BY <1>1, <2>1, <3>1, IndexParts
    <3>3. PICK o \in Nat : o = h * HeadDim + d
      BY <2>1, IndexParts
    <3>4. Index(t, h, d) = tv + o
      BY <2>1, <3>1, <3>3, IndexParts
    <3>5. Index(held + t, h, d) = (first + tv) + o
      BY <2>1, <3>2, <3>3, IndexParts
    <3> QED
      BY <3>4, <3>5
  <2>4. Index(t, h, d) \in 0 .. size - 1
    <3>1. PICK tv \in Nat : tv = t * Values
      BY <2>1, IndexParts
    <3>2. PICK o \in 0 .. Values - 1 : o = h * HeadDim + d
      BY <2>1, IndexParts
    <3>3. Index(t, h, d) = tv + o
      BY <2>1, <3>1, <3>2, IndexParts
    <3>4. Values \in Nat /\ tv + Values <= size
      BY <1>1, <2>1, <3>1, IndexParts, Monotone DEF Tensors
    <3> QED
      BY <3>2, <3>3, <3>4
  <2>5. result[Index(held + t, h, d)] = Dataplane!Loaded(view, stamp, t, h, d)
    <3>1. PICK j \in Indices : j = Index(held + t, h, d)
      BY <2>2
    <3>2. PICK k \in 0 .. size - 1 : k = Index(t, h, d)
      BY <2>4
    <3>3. j - first = k
      BY <2>3, <3>1, <3>2
    <3>4. k \div (HeadDim * KvHeads) = t /\ (k \div HeadDim) % KvHeads = h /\ k % HeadDim = d
      BY <2>1, <3>2, IndexParts
    <3>5. result[j] = Dataplane!Loaded(view, stamp, k \div (HeadDim * KvHeads), (k \div HeadDim) % KvHeads, k % HeadDim)
      BY <1>3, <3>3, Zenon
    <3> QED
      BY <3>1, <3>4, <3>5, Zenon
  <2> QED
    BY <2>5, LoadedExact
<1> QED
  BY <1>4, <1>5 DEF result, TokenOf

-----------------------------------------------------------------------------
(* A layer, and the appends accepted into it. *)

IsBuffer(b) == b = <<>> \/ DOMAIN b = Indices
Written(a, t, h, d) == [stamp |-> a.stamp, token |-> t, head |-> h, dim |-> d]

\* The appends are of tokens the layer holds, none has a later stamp than n, and
\* together they are as many as it counts.
Accounted(layer, taken, n) ==
  /\ IsFiniteSet(taken) /\ taken \subseteq [stamp : 1 .. n, begin : Nat, tokens : Nat \ {0}]
  /\ \A a \in taken : layer.begin <= a.begin /\ a.begin + a.tokens <= layer.begin + layer.count
  /\ layer.count = SumFunction([a \in taken |-> a.tokens])

\* Their values are where their positions put them.
Stored(b, begin, taken) ==
  \A a \in taken : \A t \in 0 .. a.tokens - 1, h \in 0 .. KvHeads - 1, d \in 0 .. HeadDim - 1 :
    b[Index(a.begin + t - begin, h, d)] = Written(a, t, h, d)

LayerTypes(layer) ==
  /\ layer = [begin |-> layer.begin, count |-> layer.count, k |-> layer.k, v |-> layer.v]
  /\ layer.begin \in Nat /\ layer.count \in Nat /\ layer.count <= PageSize
  /\ IsBuffer(layer.k) /\ IsBuffer(layer.v)
  /\ layer.count # 0 => layer.k # <<>> /\ layer.v # <<>> /\ layer.begin + PageSize < Word

Exact(layer, taken, n) ==
  /\ LayerTypes(layer) /\ Accounted(layer, taken, n)
  /\ Stored(layer.k, layer.begin, taken) /\ Stored(layer.v, layer.begin, taken)

Plane(ls, taken, n, bytes) ==
  /\ n \in Nat
  /\ ls = [l \in Layers |-> ls[l]] /\ taken = [l \in Layers |-> taken[l]]
  /\ \A l \in Layers : Exact(ls[l], taken[l], n)
  /\ bytes \in Nat /\ bytes <= Dataplane!Bytes(ls)

PlaneInv == Plane(layers, accepted, appends, activeBytes)

LEMMA NoneBeyond ==
  ASSUME NEW layer, NEW taken, NEW n, LayerTypes(layer), Accounted(layer, taken, n)
  PROVE  layer.count = 0 => taken = {}
<1>1. \A a \in taken : a.tokens \in Nat \ {0} /\ a.begin \in Nat
  BY DEF Accounted
<1> QED
  BY <1>1 DEF Accounted, LayerTypes

\* Below the word, the arithmetic of the checks is that of the numbers.
LEMMA NoWrap == ASSUME NEW x \in Nat, x < Word PROVE x % Word = x
<1>1. Word \in Nat /\ Word > 0
  BY PlaneConstants
<1>2. PICK q, r : q = x \div Word /\ r = x % Word
  OBVIOUS
<1>3. q \in Int /\ r \in 0 .. Word - 1 /\ x = Word * q + r
  BY <1>1, <1>2
<1>4. q <= 0
  <2>1. q >= 1 => Word * q >= Word
    BY <1>1, <1>3
  <2> QED
    BY <1>1, <1>3, <2>1
<1>5. q >= 0
  <2>1. q <= -1 => Word * q <= -Word
    BY <1>1, <1>3
  <2> QED
    BY <1>1, <1>3, <2>1
<1> QED
  BY <1>1, <1>2, <1>3, <1>4, <1>5

\* What an append finds when its checks accept it.
LEMMA Accepts ==
  ASSUME NEW layer, LayerTypes(layer), NEW begin \in Begins, NEW keys \in Tensors, NEW values \in Tensors,
         keys.tokens \in Lengths, Dataplane!Appendable(layer, begin, keys, values)
  PROVE  /\ Dataplane!Validated(keys) /\ Dataplane!Validated(values) /\ keys.tokens = values.tokens
         /\ layer.count + keys.tokens <= PageSize /\ layer.count + values.tokens <= PageSize
         /\ layer.count # 0 => begin = layer.begin + layer.count
         /\ begin \in Nat /\ begin + PageSize < Word
<1>1. /\ Dataplane!Validated(keys) /\ Dataplane!Validated(values) /\ keys.tokens = values.tokens
      /\ (layer.count + keys.tokens) % Word <= PageSize
      /\ layer.count # 0 => begin = (layer.begin + layer.count) % Word
  BY DEF Dataplane!Appendable
<1>2. begin \in Nat /\ begin + PageSize < Word /\ keys.tokens \in Nat /\ keys.tokens + PageSize < Word
  BY PlaneConstants, SealConstants
<1>3. /\ layer.count \in Nat /\ layer.begin \in Nat /\ layer.count <= PageSize /\ PageSize \in Nat /\ Word \in Nat
      /\ layer.count # 0 => layer.begin + PageSize < Word
  BY PlaneConstants, SealConstants DEF LayerTypes
<1>4. PICK held, size : held = layer.begin + layer.count /\ size = layer.count + keys.tokens
  OBVIOUS
<1>5. size \in Nat /\ size < Word /\ held \in Nat /\ (layer.count # 0 => held < Word)
  BY <1>2, <1>3, <1>4
<1>6. size % Word = size /\ (layer.count # 0 => held % Word = held)
  BY <1>5, NoWrap
<1> QED
  BY <1>1, <1>2, <1>4, <1>6

\* The property of a layer.
LEMMA ExactPage ==
  ASSUME PlaneInv
  PROVE  Dataplane!ActivePageExact
<1>1. ASSUME NEW l \in Layers
      PROVE  layers[l].count = Dataplane!SumFunction([a \in accepted[l] |-> a.tokens])
  BY SameSums DEF PlaneInv, Plane, Exact, Accounted
<1>2. ASSUME NEW l \in Layers, NEW a \in accepted[l], NEW t \in 0 .. a.tokens - 1,
             NEW h \in 0 .. KvHeads - 1, NEW d \in 0 .. HeadDim - 1
      PROVE  LET index == ((a.begin + t - layers[l].begin) * KvHeads + h) * HeadDim + d
             IN /\ index \in Dataplane!PageIndices
                /\ layers[l].k[index] = Written(a, t, h, d) /\ layers[l].v[index] = Written(a, t, h, d)
  <2>1. Exact(layers[l], accepted[l], appends)
    BY DEF PlaneInv, Plane
  <2>2. /\ a.begin \in Nat /\ a.tokens \in Nat /\ layers[l].begin \in Nat /\ layers[l].count \in Nat
        /\ layers[l].begin <= a.begin /\ a.begin + a.tokens <= layers[l].begin + layers[l].count
        /\ layers[l].count <= PageSize
    BY <2>1 DEF Exact, Accounted, LayerTypes
  <2>3. a.begin + t - layers[l].begin \in Nat /\ a.begin + t - layers[l].begin < PageSize
    BY <2>2, SealConstants
  <2>4. Index(a.begin + t - layers[l].begin, h, d) \in Indices
    BY <2>3, IndexWithin
  <2>5. /\ layers[l].k[Index(a.begin + t - layers[l].begin, h, d)] = Written(a, t, h, d)
        /\ layers[l].v[Index(a.begin + t - layers[l].begin, h, d)] = Written(a, t, h, d)
    BY <2>1 DEF Exact, Stored
  <2> QED
    BY <2>4, <2>5 DEF Index, Indices
<1>3. activeBytes <= Dataplane!Bytes(layers)
  BY DEF PlaneInv, Plane
<1> QED
  BY <1>1, <1>2, <1>3 DEF Dataplane!ActivePageExact, Written

-----------------------------------------------------------------------------
(* The steps of the dataplane. *)

LEMMA ZeroIndex == 0 \in Indices
<1>1. 0 \in Nat /\ 0 < PageSize /\ 0 \in 0 .. KvHeads - 1 /\ 0 \in 0 .. HeadDim - 1
  BY PlaneConstants, SealConstants
<1>2. Index(0, 0, 0) \in Indices
  BY <1>1, IndexWithin
<1> QED
  BY <1>2, PlaneConstants DEF Index

LEMMA BufferThere ==
  ASSUME NEW b, IsBuffer(b)
  PROVE  /\ DOMAIN Dataplane!Allocated(b) = Indices /\ Dataplane!Allocated(b) # <<>>
         /\ b # <<>> => Dataplane!Allocated(b) = b
<1>1. 0 \in Indices
  BY ZeroIndex
<1>2. DOMAIN Dataplane!Allocated(b) = Indices
  BY DEF Dataplane!Allocated, Indices, IsBuffer
<1> QED
  BY <1>1, <1>2 DEF Dataplane!Allocated

LEMMA ConvertedBuffer ==
  ASSUME NEW b, NEW view, NEW stamp, NEW held
  PROVE  DOMAIN Dataplane!Convert(b, view, stamp, held) = Indices
  BY DEF Dataplane!Convert, Dataplane!Converted, Indices

Start(layer, begin) == IF layer.count = 0 THEN begin ELSE layer.begin
Filled(b, view, stamp, held, written) ==
  IF written THEN Dataplane!Convert(Dataplane!Allocated(b), view, stamp, held) ELSE Dataplane!Allocated(b)

Record(b, c, x, y) == [begin |-> b, count |-> c, k |-> x, v |-> y]

LEMMA Fields ==
  ASSUME NEW b, NEW c, NEW x, NEW y, NEW new
  PROVE  /\ [Record(b, c, x, y) EXCEPT !.k = new] = Record(b, c, new, y)
         /\ [Record(b, c, x, y) EXCEPT !.v = new] = Record(b, c, x, new)
         /\ [Record(b, c, x, y) EXCEPT !.begin = new] = Record(new, c, x, y)
         /\ [Record(b, c, x, y) EXCEPT !.count = new] = Record(b, new, x, y)
         /\ Record(b, c, x, y).begin = b /\ Record(b, c, x, y).count = c
         /\ Record(b, c, x, y).k = x /\ Record(b, c, x, y).v = y
  BY DEF Record

LEMMA LaunchedIs ==
  ASSUME NEW layer, LayerTypes(layer), NEW begin, NEW keys, NEW values, NEW stamp, NEW ran
  PROVE  Dataplane!Launched(layer, begin, keys, values, stamp, ran) =
           [begin |-> Start(layer, begin), count |-> layer.count,
            k |-> Filled(layer.k, keys, stamp, layer.count, "k" \in ran),
            v |-> Filled(layer.v, values, stamp, layer.count, "v" \in ran)]
<1>1. PICK b, c, x, y, start, ax, ay, fx, fy :
        /\ b = layer.begin /\ c = layer.count /\ x = layer.k /\ y = layer.v
        /\ start = Start(layer, begin)
        /\ ax = Dataplane!Allocated(layer.k) /\ ay = Dataplane!Allocated(layer.v)
        /\ fx = Filled(layer.k, keys, stamp, layer.count, "k" \in ran)
        /\ fy = Filled(layer.v, values, stamp, layer.count, "v" \in ran)
  OBVIOUS
<1>2. layer = Record(b, c, x, y)
  BY <1>1 DEF LayerTypes, Record
<1>3. /\ start = IF c = 0 THEN begin ELSE b
      /\ fx = IF "k" \in ran THEN Dataplane!Convert(ax, keys, stamp, c) ELSE ax
      /\ fy = IF "v" \in ran THEN Dataplane!Convert(ay, values, stamp, c) ELSE ay
  BY <1>1 DEF Filled, Start
<1>4. [layer EXCEPT !.k = Dataplane!Allocated(@), !.v = Dataplane!Allocated(@), !.begin = IF layer.count = 0 THEN begin ELSE @]
        = Record(start, c, ax, ay)
  <2>1. [layer EXCEPT !.k = ax] = Record(b, c, ax, y)
    BY <1>2, Fields
  <2>2. [Record(b, c, ax, y) EXCEPT !.v = ay] = Record(b, c, ax, ay)
    BY Fields
  <2>3. [Record(b, c, ax, ay) EXCEPT !.begin = start] = Record(start, c, ax, ay)
    BY Fields
  <2>4. start = IF layer.count = 0 THEN begin ELSE layer.begin
    BY <1>1, <1>3
  <2> QED
    BY <1>1, <2>1, <2>2, <2>3, <2>4, Zenon
<1>5. [Record(start, c, ax, ay) EXCEPT !.k = IF "k" \in ran THEN Dataplane!Convert(@, keys, stamp, layer.count) ELSE @,
                                       !.v = IF "v" \in ran THEN Dataplane!Convert(@, values, stamp, layer.count) ELSE @]
        = Record(start, c, fx, fy)
  <2>1. [Record(start, c, ax, ay) EXCEPT !.k = fx] = Record(start, c, fx, ay)
    BY Fields
  <2>2. [Record(start, c, fx, ay) EXCEPT !.v = fy] = Record(start, c, fx, fy)
    BY Fields
  <2>3. Record(start, c, ax, ay).k = ax /\ Record(start, c, ax, ay).v = ay /\ Record(start, c, fx, ay).v = ay
    BY Fields
  <2>4. c = layer.count
    BY <1>1
  <2>5. [Record(start, c, ax, ay) EXCEPT
           !.k = IF "k" \in ran THEN Dataplane!Convert(@, keys, stamp, layer.count) ELSE @] = Record(start, c, fx, ay)
    BY <1>3, <2>1, <2>3, <2>4
  <2>6. [Record(start, c, fx, ay) EXCEPT
           !.v = IF "v" \in ran THEN Dataplane!Convert(@, values, stamp, layer.count) ELSE @] = Record(start, c, fx, fy)
    BY <1>3, <2>2, <2>3, <2>4
  <2> QED
    BY <2>5, <2>6, Zenon
<1> QED
  BY <1>1, <1>4, <1>5, Zenon DEF Dataplane!Launched, Record

LEMMA FilledBuffer ==
  ASSUME NEW b, IsBuffer(b), NEW view, NEW stamp, NEW held, NEW written
  PROVE  IsBuffer(Filled(b, view, stamp, held, written)) /\ Filled(b, view, stamp, held, written) # <<>>
<1>1. DOMAIN Filled(b, view, stamp, held, written) = Indices
  BY BufferThere, ConvertedBuffer DEF Filled
<1> QED
  BY <1>1, ZeroIndex DEF IsBuffer

\* Conversion behind the tokens held moves none of them.
LEMMA FilledKeeps ==
  ASSUME NEW layer, NEW taken, NEW n, LayerTypes(layer), Accounted(layer, taken, n), layer.count # 0,
         NEW b, IsBuffer(b), b # <<>>, Stored(b, layer.begin, taken),
         NEW view \in Tensors, Dataplane!Validated(view), layer.count + view.tokens <= PageSize,
         NEW stamp, NEW written
  PROVE  Stored(Filled(b, view, stamp, layer.count, written), layer.begin, taken)
<1> SUFFICES ASSUME NEW a \in taken, NEW t \in 0 .. a.tokens - 1, NEW h \in 0 .. KvHeads - 1, NEW d \in 0 .. HeadDim - 1
             PROVE  Filled(b, view, stamp, layer.count, written)[Index(a.begin + t - layer.begin, h, d)]
                      = Written(a, t, h, d)
  BY DEF Stored
<1>1. PICK m : m = a.begin + t - layer.begin
  OBVIOUS
<1>2. m \in Nat /\ m < layer.count /\ layer.count \in Nat
  <2>1. PICK ab, at, lb, lc \in Nat :
          /\ ab = a.begin /\ at = a.tokens /\ lb = layer.begin /\ lc = layer.count
          /\ lb <= ab /\ ab + at <= lb + lc
    BY DEF Accounted, LayerTypes
  <2>2. t \in Nat /\ t < at
    BY <2>1
  <2>4. ab \in Nat /\ at \in Nat /\ lb \in Nat /\ lc \in Nat /\ lb <= ab /\ ab + at <= lb + lc
    BY <2>1
  <2>3. ab + t - lb \in Nat /\ ab + t - lb < lc
    BY ONLY <2>2, <2>4
  <2> QED
    BY <1>1, <2>1, <2>3
<1>3. b[Index(m, h, d)] = Written(a, t, h, d)
  BY <1>1 DEF Stored
<1>4. Dataplane!Allocated(b) = b
  BY BufferThere
<1>5. Dataplane!Convert(b, view, stamp, layer.count)[Index(m, h, d)] = b[Index(m, h, d)]
  <2>1. PICK held \in Nat : held = layer.count
    BY <1>2
  <2>2. held + view.tokens <= PageSize
    BY <2>1
  <2>3. \A p \in Nat : p < held => Dataplane!Convert(b, view, stamp, held)[Index(p, h, d)] = b[Index(p, h, d)]
    <3>1. Fits(view, held) /\ Place(h, d)
      BY <2>2 DEF Fits, Place
    <3> QED
      BY ONLY <3>1, ConvertExact
  <2> QED
    BY <1>2, <2>1, <2>3
<1> QED
  BY <1>1, <1>3, <1>4, <1>5 DEF Filled

LEMMA LaunchKept ==
  ASSUME NEW layer, NEW taken, NEW n, Exact(layer, taken, n), NEW begin \in Begins,
         NEW keys \in Tensors, NEW values \in Tensors, keys.tokens \in Lengths,
         Dataplane!Appendable(layer, begin, keys, values),
         NEW stamp, NEW ran
  PROVE  Exact(Dataplane!Launched(layer, begin, keys, values, stamp, ran), taken, n)
<1>1. PICK x, y : /\ x = Filled(layer.k, keys, stamp, layer.count, "k" \in ran)
                  /\ y = Filled(layer.v, values, stamp, layer.count, "v" \in ran)
  OBVIOUS
<1>2. PICK new : /\ new = [begin |-> Start(layer, begin), count |-> layer.count, k |-> x, v |-> y]
                 /\ new = Dataplane!Launched(layer, begin, keys, values, stamp, ran)
  BY <1>1, LaunchedIs DEF Exact
<1>3. IsBuffer(x) /\ x # <<>> /\ IsBuffer(y) /\ y # <<>>
  BY <1>1, FilledBuffer DEF Exact, LayerTypes
<1>4. LayerTypes(new)
  <2>1. begin \in Nat
    BY PlaneConstants, SealConstants
  <2> QED
    BY <1>2, <1>3, <2>1 DEF Exact, LayerTypes, Start
<1>5. layer.count = 0 => taken = {}
  BY NoneBeyond DEF Exact
<1>6. Accounted(new, taken, n)
  <2>1. new.count = layer.count /\ (layer.count # 0 => new.begin = layer.begin)
    BY <1>2 DEF Start
  <2> QED
    BY <1>5, <2>1 DEF Exact, Accounted
<1>7. CASE layer.count = 0
  BY <1>2, <1>4, <1>5, <1>6, <1>7 DEF Exact, Stored
<1>8. CASE layer.count # 0
  <2>1. /\ Dataplane!Validated(keys) /\ Dataplane!Validated(values)
        /\ layer.count + keys.tokens <= PageSize /\ layer.count + values.tokens <= PageSize
    BY Accepts DEF Exact
  <2>2. Stored(x, layer.begin, taken) /\ Stored(y, layer.begin, taken)
    BY <1>1, <1>8, <2>1, FilledKeeps DEF Exact, LayerTypes
  <2>3. new.begin = layer.begin /\ new.k = x /\ new.v = y
    BY <1>2, <1>8 DEF Start
  <2> QED
    BY <1>2, <1>4, <1>6, <2>2, <2>3 DEF Exact
<1> QED
  BY <1>7, <1>8

\* One append's values are stored when each is where its position puts it.
LEMMA StoredOne ==
  ASSUME NEW b, NEW begin, NEW a,
         \A t \in 0 .. a.tokens - 1, h \in 0 .. KvHeads - 1, d \in 0 .. HeadDim - 1 :
           b[Index(a.begin + t - begin, h, d)] = Written(a, t, h, d)
  PROVE  Stored(b, begin, {a})
BY Zenon DEF Stored

\* The tokens of an accepted append are behind those held.
LEMMA FilledPuts ==
  ASSUME NEW layer, LayerTypes(layer), NEW begin \in Nat, layer.count # 0 => begin = layer.begin + layer.count,
         NEW b, NEW view \in Tensors, Dataplane!Validated(view), layer.count + view.tokens <= PageSize, NEW stamp
  PROVE  Stored(Filled(b, view, stamp, layer.count, TRUE), Start(layer, begin),
                {[stamp |-> stamp, begin |-> begin, tokens |-> view.tokens]})
<1> SUFFICES ASSUME NEW t \in 0 .. view.tokens - 1, NEW h \in 0 .. KvHeads - 1, NEW d \in 0 .. HeadDim - 1
             PROVE  Filled(b, view, stamp, layer.count, TRUE)[Index(begin + t - Start(layer, begin), h, d)]
                      = [stamp |-> stamp, token |-> t, head |-> h, dim |-> d]
  <2> DEFINE a == [stamp |-> stamp, begin |-> begin, tokens |-> view.tokens]
  <2>1. a.stamp = stamp /\ a.begin = begin /\ a.tokens = view.tokens
    OBVIOUS
  <2> HIDE DEF a
  <2>2. ASSUME NEW t \in 0 .. a.tokens - 1, NEW h \in 0 .. KvHeads - 1, NEW d \in 0 .. HeadDim - 1
        PROVE  Filled(b, view, stamp, layer.count, TRUE)[Index(a.begin + t - Start(layer, begin), h, d)]
                 = Written(a, t, h, d)
    BY <2>1 DEF Written
  <2>3. Stored(Filled(b, view, stamp, layer.count, TRUE), Start(layer, begin), {a})
    BY <2>2, StoredOne
  <2> QED
    BY <2>3 DEF a
<1>1. layer.count \in Nat /\ layer.begin \in Nat /\ t \in Nat
  BY DEF LayerTypes, Tensors
<1>2. begin + t - Start(layer, begin) = layer.count + t
  BY <1>1 DEF Start
<1>3. \A buffer : Dataplane!Convert(buffer, view, stamp, layer.count)[Index(layer.count + t, h, d)]
                    = [stamp |-> stamp, token |-> t, head |-> h, dim |-> d]
  <2>1. PICK held \in Nat : held = layer.count
    BY <1>1
  <2>2. held + view.tokens <= PageSize
    BY <2>1
  <2>3. ASSUME NEW buffer
        PROVE  Dataplane!Convert(buffer, view, stamp, held)[Index(held + t, h, d)]
                 = [stamp |-> stamp, token |-> t, head |-> h, dim |-> d]
    <3>1. Fits(view, held) /\ Place(h, d) /\ TokenOf(view, t)
      BY <2>2 DEF Fits, Place, TokenOf
    <3> QED
      BY ONLY <3>1, ConvertExact
  <2> QED
    BY <2>1, <2>3
<1> QED
  BY <1>2, <1>3 DEF Filled

LEMMA LaterExact ==
  ASSUME NEW layer, NEW taken, NEW n \in Nat, Exact(layer, taken, n)
  PROVE  Exact(layer, taken, n + 1)
<1>1. [stamp : 1 .. n, begin : Nat, tokens : Nat \ {0}] \subseteq [stamp : 1 .. n + 1, begin : Nat, tokens : Nat \ {0}]
  OBVIOUS
<1> QED
  BY <1>1 DEF Exact, Accounted

\* An append that returns 0: what was held, and what it was given behind it.
LEMMA AcceptKept ==
  ASSUME NEW layer, NEW taken, NEW n \in Nat, Exact(layer, taken, n), NEW begin \in Begins,
         NEW keys \in Tensors, NEW values \in Tensors, keys.tokens \in Lengths,
         Dataplane!Appendable(layer, begin, keys, values)
  PROVE  Exact([Dataplane!Launched(layer, begin, keys, values, n + 1, {"k", "v"}) EXCEPT !.count = @ + keys.tokens],
               taken \cup {[stamp |-> n + 1, begin |-> begin, tokens |-> keys.tokens]}, n + 1)
<1>1. PICK start, count, tokens, x, y, a :
        /\ start = Start(layer, begin) /\ count = layer.count /\ tokens = keys.tokens
        /\ x = Filled(layer.k, keys, n + 1, layer.count, TRUE)
        /\ y = Filled(layer.v, values, n + 1, layer.count, TRUE)
        /\ a = [stamp |-> n + 1, begin |-> begin, tokens |-> keys.tokens]
  OBVIOUS
<1>2. PICK mid : mid = Dataplane!Launched(layer, begin, keys, values, n + 1, {"k", "v"})
  OBVIOUS
<1>3. mid = Record(start, count, x, y)
  <2> DEFINE ran == {"k", "v"}
  <2>1. /\ Filled(layer.k, keys, n + 1, layer.count, "k" \in ran) = x
        /\ Filled(layer.v, values, n + 1, layer.count, "v" \in ran) = y
    BY <1>1 DEF Filled
  <2>2. Dataplane!Launched(layer, begin, keys, values, n + 1, ran) =
          Record(Start(layer, begin), layer.count, Filled(layer.k, keys, n + 1, layer.count, "k" \in ran),
                 Filled(layer.v, values, n + 1, layer.count, "v" \in ran))
    BY LaunchedIs, Zenon DEF Exact, Record
  <2> HIDE DEF ran
  <2>3. mid = Dataplane!Launched(layer, begin, keys, values, n + 1, ran)
    BY <1>2, Zenon DEF ran
  <2> QED
    BY <1>1, <2>1, <2>2, <2>3, Zenon
<1>4. Exact(mid, taken, n)
  BY <1>2, LaunchKept
<1>5. PICK new : new = Record(start, count + tokens, x, y)
  OBVIOUS
<1>6. [mid EXCEPT !.count = @ + keys.tokens] = new
  <2>1. mid.count = count
    BY <1>3, Fields
  <2>2. [mid EXCEPT !.count = count + tokens] = Record(start, count + tokens, x, y)
    BY <1>3, Fields
  <2> QED
    BY <1>1, <1>5, <2>1, <2>2
<1>7. /\ new.begin = start /\ new.count = count + tokens /\ new.k = x /\ new.v = y
      /\ mid.begin = start /\ mid.count = count /\ mid.k = x /\ mid.v = y
  BY <1>3, <1>5, Fields
<1>8. /\ tokens \in Nat \ {0} /\ count \in Nat /\ start \in Nat /\ layer.begin \in Nat
      /\ count + tokens <= PageSize /\ values.tokens = tokens
      /\ (count = 0 => start = begin) /\ (count # 0 => start = layer.begin /\ begin = start + count)
      /\ begin \in Nat /\ start + PageSize < Word
  <2>1. /\ keys.tokens = values.tokens /\ layer.count + keys.tokens <= PageSize
        /\ layer.count # 0 => begin = layer.begin + layer.count
        /\ begin \in Nat /\ begin + PageSize < Word
    BY Accepts DEF Exact
  <2> QED
    BY <1>1, <2>1 DEF Exact, LayerTypes, Tensors, Start
<1>9. LayerTypes(new)
  <2>1. IsBuffer(x) /\ x # <<>> /\ IsBuffer(y) /\ y # <<>>
    BY <1>1, FilledBuffer DEF Exact, LayerTypes
  <2>2. new = [begin |-> new.begin, count |-> new.count, k |-> new.k, v |-> new.v]
    BY <1>5 DEF Record
  <2>3. count + tokens \in Nat
    BY <1>8
  <2> QED
    BY <1>7, <1>8, <2>1, <2>2, <2>3 DEF LayerTypes
<1>10. a \notin taken /\ a.begin = begin /\ a.tokens = tokens /\ a.stamp = n + 1
  <2>1. \A e \in taken : e.stamp \in 1 .. n
    BY DEF Exact, Accounted
  <2> QED
    BY <1>1, <2>1
<1>11. Accounted(new, taken \cup {a}, n + 1)
  <2>1. Accounted(mid, taken, n + 1)
    BY <1>4, LaterExact DEF Exact
  <2>2. IsFiniteSet(taken \cup {a})
    BY <2>1, FS_AddElement DEF Accounted
  <2>3. a \in [stamp : 1 .. n + 1, begin : Nat, tokens : Nat \ {0}]
    BY <1>1, <1>8
  <2>4. ASSUME NEW e \in taken \cup {a} PROVE new.begin <= e.begin /\ e.begin + e.tokens <= new.begin + new.count
    <3>1. CASE e = a
      BY <1>7, <1>8, <1>10, <3>1
    <3>2. CASE e \in taken
      <4>1. start <= e.begin /\ e.begin + e.tokens <= start + count /\ e.begin \in Nat /\ e.tokens \in Nat
        BY <1>7, <2>1, <3>2 DEF Accounted
      <4> QED
        BY <1>7, <1>8, <4>1
    <3> QED
      BY <3>1, <3>2
  <2>5. SumFunction([e \in taken \cup {a} |-> e.tokens]) = count + tokens
    <3> DEFINE f == [e \in taken |-> e.tokens]
               g == [e \in taken \cup {a} |-> e.tokens]
    <3>1. /\ IsFiniteSet(DOMAIN f) /\ DOMAIN g = DOMAIN f \cup {a} /\ a \notin DOMAIN f
          /\ \A e \in DOMAIN f : g[e] = f[e] /\ f[e] \in Nat
          /\ g[a] = tokens /\ g[a] \in Nat
      BY <1>8, <1>10, <2>1 DEF Accounted
    <3>2. SumFunction(f) = count
      BY <1>7, <2>1 DEF Accounted
    <3> HIDE DEF f, g
    <3>3. SumFunction(g) = SumFunction(f) + g[a]
      BY <3>1, SumPut
    <3> QED
      BY <3>1, <3>2, <3>3 DEF g
  <2> QED
    BY <1>7, <2>1, <2>2, <2>3, <2>4, <2>5 DEF Accounted
<1>12. Stored(x, start, taken \cup {a}) /\ Stored(y, start, taken \cup {a})
  <2>1. Stored(x, start, taken) /\ Stored(y, start, taken)
    BY <1>4, <1>7 DEF Exact
  <2>2. Stored(x, start, {a}) /\ Stored(y, start, {a})
    <3>1. /\ Dataplane!Validated(keys) /\ Dataplane!Validated(values) /\ LayerTypes(layer)
          /\ layer.count + keys.tokens <= PageSize /\ layer.count + values.tokens <= PageSize
          /\ keys.tokens = values.tokens
          /\ (layer.count # 0 => begin = layer.begin + layer.count) /\ begin \in Nat
      BY Accepts DEF Exact
    <3> QED
      BY <1>1, <3>1, FilledPuts
  <2> QED
    BY <2>1, <2>2 DEF Stored
<1> QED
  BY <1>1, <1>2, <1>6, <1>7, <1>9, <1>11, <1>12 DEF Exact

-----------------------------------------------------------------------------
(* Bytes. *)

Sizes(ls) == [l \in Layers |-> Cardinality(DOMAIN ls[l].k) + Cardinality(DOMAIN ls[l].v)]

LEMMA SizeType ==
  ASSUME NEW b, IsBuffer(b)
  PROVE  Cardinality(DOMAIN b) \in Nat /\ Cardinality(DOMAIN b) <= Cardinality(DOMAIN Dataplane!Allocated(b))
<1>1. IsFiniteSet(Indices) /\ Cardinality(Indices) \in Nat /\ IsFiniteSet({}) /\ Cardinality({}) = 0
  <2>1. PageSize * KvHeads * HeadDim - 1 \in Int
    <3>1. PageSize * KvHeads \in Nat
      BY PlaneConstants, SealConstants, Monotone
    <3>2. (PageSize * KvHeads) * HeadDim \in Nat
      BY <3>1, PlaneConstants, Monotone
    <3> QED
      BY <3>2
  <2>2. IsFiniteSet(Indices)
    BY <2>1, FS_Interval DEF Indices, Dataplane!PageIndices
  <2> QED
    BY <2>2, FS_CardinalityType, FS_EmptySet
<1>2. DOMAIN b = {} \/ DOMAIN b = Indices
  BY DEF IsBuffer
<1> QED
  BY <1>1, <1>2, BufferThere

LEMMA BytesAre ==
  ASSUME NEW ls, \A l \in Layers : IsBuffer(ls[l].k) /\ IsBuffer(ls[l].v)
  PROVE  /\ Dataplane!Bytes(ls) = SumFunction(Sizes(ls)) /\ Dataplane!Bytes(ls) \in Nat
         /\ \A l \in Layers : Sizes(ls)[l] \in Nat
<1>1. \A l \in Layers : Sizes(ls)[l] \in Nat
  <2> SUFFICES ASSUME NEW l \in Layers PROVE Sizes(ls)[l] \in Nat
    OBVIOUS
  <2>1. Cardinality(DOMAIN ls[l].k) \in Nat /\ Cardinality(DOMAIN ls[l].v) \in Nat
    BY SizeType
  <2>2. Sizes(ls)[l] = Cardinality(DOMAIN ls[l].k) + Cardinality(DOMAIN ls[l].v)
    BY DEF Sizes
  <2> QED
    BY <2>1, <2>2
<1>2. Dataplane!Bytes(ls) = SumFunction(Sizes(ls))
  BY SameSums, SameSizes, Zenon DEF Dataplane!Bytes, Dataplane!Size, Sizes
<1>3. SumFunction(Sizes(ls)) \in Nat
  BY <1>1, SumType, PlaneConstants DEF SumFunction, Sizes
<1> QED
  BY <1>1, <1>2, <1>3

\* Buffers that are allocated and not released.
LEMMA BytesGrow ==
  ASSUME NEW ls, \A m \in Layers : IsBuffer(ls[m].k) /\ IsBuffer(ls[m].v),
         NEW new, NEW l \in Layers, \A m \in Layers \ {l} : new[m] = ls[m],
         IsBuffer(new[l].k), IsBuffer(new[l].v),
         Sizes(ls)[l] <= Sizes(new)[l]
  PROVE  Dataplane!Bytes(ls) <= Dataplane!Bytes(new)
<1>1. \A m \in Layers : IsBuffer(new[m].k) /\ IsBuffer(new[m].v)
  OBVIOUS
<1>2. PICK f, g : f = Sizes(ls) /\ g = Sizes(new)
  OBVIOUS
<1>3. /\ DOMAIN f = Layers /\ DOMAIN g = Layers /\ IsFiniteSet(DOMAIN f)
      /\ \A m \in Layers \ {l} : g[m] = f[m]
  BY <1>2, PlaneConstants DEF Sizes
<1>4. \A m \in Layers : f[m] \in Nat /\ g[m] \in Nat
  BY <1>1, <1>2, BytesAre
<1>5. SumFunction(g) = SumFunction(f) - f[l] + g[l] /\ SumFunction(f) \in Nat
  BY <1>3, <1>4, SumUpdate
<1> QED
  BY <1>1, <1>2, <1>4, <1>5, BytesAre

-----------------------------------------------------------------------------
(* The steps. *)

\* A step that leaves a layer exact and its buffers no smaller.
LEMMA PlaneStep ==
  ASSUME NEW ls, NEW taken, NEW n, NEW bytes, Plane(ls, taken, n, bytes), NEW l \in Layers,
         NEW layer, NEW set, Exact(layer, set, n + 1), NEW count \in Nat,
         count = bytes \/ count = Dataplane!Bytes([ls EXCEPT ![l] = layer]),
         /\ Cardinality(DOMAIN ls[l].k) <= Cardinality(DOMAIN layer.k)
         /\ Cardinality(DOMAIN ls[l].v) <= Cardinality(DOMAIN layer.v)
  PROVE  Plane([ls EXCEPT ![l] = layer], [taken EXCEPT ![l] = set], n + 1, count)
<1>1. PICK new, held : new = [ls EXCEPT ![l] = layer] /\ held = [taken EXCEPT ![l] = set]
  OBVIOUS
<1>2. /\ new = [m \in Layers |-> new[m]] /\ held = [m \in Layers |-> held[m]]
      /\ new[l] = layer /\ held[l] = set
      /\ \A m \in Layers \ {l} : new[m] = ls[m] /\ held[m] = taken[m]
  BY <1>1 DEF Plane
<1>3. n \in Nat /\ n + 1 \in Nat /\ bytes \in Nat /\ bytes <= Dataplane!Bytes(ls)
  <2>1. n \in Nat /\ bytes \in Nat /\ bytes <= Dataplane!Bytes(ls)
    BY Zenon DEF Plane
  <2> QED
    BY <2>1
<1>4. \A m \in Layers : Exact(new[m], held[m], n + 1)
  BY <1>2, <1>3, LaterExact DEF Plane
<1>5. /\ \A m \in Layers : IsBuffer(ls[m].k) /\ IsBuffer(ls[m].v)
      /\ \A m \in Layers : IsBuffer(new[m].k) /\ IsBuffer(new[m].v)
  BY <1>4 DEF Plane, Exact, LayerTypes
<1>6. Sizes(ls)[l] <= Sizes(new)[l]
  <2>1. PICK a, b, c, d \in Nat : /\ a = Cardinality(DOMAIN ls[l].k) /\ b = Cardinality(DOMAIN ls[l].v)
                                  /\ c = Cardinality(DOMAIN new[l].k) /\ d = Cardinality(DOMAIN new[l].v)
    BY <1>5, SizeType
  <2>2. Sizes(ls)[l] = a + b /\ Sizes(new)[l] = c + d
    BY <2>1 DEF Sizes
  <2> QED
    BY <1>2, <2>1, <2>2
<1>7. Dataplane!Bytes(ls) <= Dataplane!Bytes(new) /\ Dataplane!Bytes(ls) \in Nat /\ Dataplane!Bytes(new) \in Nat
  <2>1. \A m \in Layers \ {l} : new[m] = ls[m]
    BY <1>2
  <2> QED
    BY <1>5, <1>6, <2>1, BytesGrow, BytesAre
<1>8. count <= Dataplane!Bytes(new)
  BY <1>1, <1>3, <1>7
<1>9. Plane(new, held, n + 1, count)
  BY <1>2, <1>3, <1>4, <1>8 DEF Plane
<1> QED
  BY <1>1, <1>9

\* A layer keeps what it is when the buffer of K is allocated and nothing else is.
LEMMA AllocationKept ==
  ASSUME NEW layer, NEW taken, NEW n, Exact(layer, taken, n)
  PROVE  Exact([layer EXCEPT !.k = Dataplane!Allocated(layer.k)], taken, n)
<1>1. PICK b, c, x, y, ax : /\ b = layer.begin /\ c = layer.count /\ x = layer.k /\ y = layer.v
                            /\ ax = Dataplane!Allocated(layer.k)
  OBVIOUS
<1>2. layer = Record(b, c, x, y)
  BY <1>1 DEF Exact, LayerTypes, Record
<1>3. PICK new : new = Record(b, c, ax, y)
  OBVIOUS
<1>4. [layer EXCEPT !.k = Dataplane!Allocated(layer.k)] = new
  <2>1. [layer EXCEPT !.k = ax] = Record(b, c, ax, y)
    BY <1>2, Fields
  <2> QED
    BY <1>1, <1>3, <2>1
<1>5. new.begin = b /\ new.count = c /\ new.k = ax /\ new.v = y
  BY <1>3, Fields
<1>6. IsBuffer(ax) /\ ax # <<>> /\ (x # <<>> => ax = x)
  BY <1>1, BufferThere DEF Exact, LayerTypes, IsBuffer
<1>7. LayerTypes(new)
  <2>1. new = [begin |-> new.begin, count |-> new.count, k |-> new.k, v |-> new.v]
    BY <1>3, <1>5 DEF Record
  <2> QED
    BY <1>1, <1>5, <1>6, <2>1 DEF Exact, LayerTypes
<1>8. Accounted(new, taken, n)
  BY <1>1, <1>5 DEF Exact, Accounted
<1>9. Stored(ax, b, taken)
  <2>1. CASE x = <<>>
    <3>1. taken = {}
      BY <1>1, <2>1, NoneBeyond DEF Exact, LayerTypes
    <3> QED
      BY <3>1 DEF Stored
  <2>2. CASE x # <<>>
    BY <1>1, <1>6, <2>2 DEF Exact
  <2> QED
    BY <2>1, <2>2
<1> QED
  BY <1>1, <1>4, <1>5, <1>7, <1>8, <1>9 DEF Exact

\* Neither an allocation nor a kernel makes a buffer smaller.
LEMMA FilledSize ==
  ASSUME NEW b, IsBuffer(b), NEW view, NEW stamp, NEW held, NEW written
  PROVE  Cardinality(DOMAIN b) <= Cardinality(DOMAIN Filled(b, view, stamp, held, written))
<1>1. DOMAIN Filled(b, view, stamp, held, written) = DOMAIN Dataplane!Allocated(b)
  BY BufferThere, ConvertedBuffer DEF Filled
<1> QED
  BY <1>1, SizeType

LEMMA LaunchedShape ==
  ASSUME NEW layer, LayerTypes(layer), NEW begin, NEW keys, NEW values, NEW stamp, NEW ran
  PROVE  \E s, c, x, y : Dataplane!Launched(layer, begin, keys, values, stamp, ran) = Record(s, c, x, y)
<1>1. PICK s, c, x, y : /\ s = Start(layer, begin) /\ c = layer.count
                        /\ x = Filled(layer.k, keys, stamp, layer.count, "k" \in ran)
                        /\ y = Filled(layer.v, values, stamp, layer.count, "v" \in ran)
  OBVIOUS
<1>2. Dataplane!Launched(layer, begin, keys, values, stamp, ran) = Record(s, c, x, y)
  BY <1>1, LaunchedIs, Zenon DEF Record
<1> QED
  BY <1>2

LEMMA LaunchedSize ==
  ASSUME NEW layer, LayerTypes(layer), NEW begin, NEW keys, NEW values, NEW stamp, NEW ran
  PROVE  /\ Cardinality(DOMAIN layer.k) <= Cardinality(DOMAIN Dataplane!Launched(layer, begin, keys, values, stamp, ran).k)
         /\ Cardinality(DOMAIN layer.v) <= Cardinality(DOMAIN Dataplane!Launched(layer, begin, keys, values, stamp, ran).v)
<1>1. PICK new : new = Dataplane!Launched(layer, begin, keys, values, stamp, ran)
  OBVIOUS
<1>2. /\ new.k = Filled(layer.k, keys, stamp, layer.count, "k" \in ran)
      /\ new.v = Filled(layer.v, values, stamp, layer.count, "v" \in ran)
  BY <1>1, LaunchedIs
<1>3. IsBuffer(layer.k) /\ IsBuffer(layer.v)
  BY DEF LayerTypes
<1> QED
  BY <1>1, <1>2, <1>3, FilledSize

LEMMA AppendStep ==
  ASSUME PlaneInv, NEW l \in Layers, NEW begin \in Begins, NEW keys \in Tensors, NEW values \in Tensors,
         keys.tokens \in Lengths,
         Dataplane!AppendAsync(l, begin, keys, values)
  PROVE  PlaneInv'
<1>1. PICK layer, n, a, mid, new :
        /\ layer = layers[l] /\ n = appends
        /\ a = [stamp |-> n + 1, begin |-> begin, tokens |-> keys.tokens]
        /\ mid = Dataplane!Launched(layer, begin, keys, values, n + 1, {"k", "v"})
        /\ new = [mid EXCEPT !.count = @ + keys.tokens]
  OBVIOUS
<1>2. Exact(layer, accepted[l], n) /\ n \in Nat
  BY <1>1 DEF PlaneInv, Plane
<1>3. /\ Dataplane!Appendable(layer, begin, keys, values)
      /\ layers' = [layers EXCEPT ![l] = new] /\ accepted' = [accepted EXCEPT ![l] = accepted[l] \cup {a}]
      /\ appends' = n + 1 /\ activeBytes' = Dataplane!Bytes(layers')
  <2>1. /\ Dataplane!Appendable(layers[l], begin, keys, values)
        /\ layers' = [layers EXCEPT ![l] = [Dataplane!Launched(layers[l], begin, keys, values, appends + 1, {"k", "v"})
                                             EXCEPT !.count = @ + keys.tokens]]
        /\ accepted' = [accepted EXCEPT
                          ![l] = accepted[l] \cup {[stamp |-> appends + 1, begin |-> begin, tokens |-> keys.tokens]}]
        /\ appends' = appends + 1 /\ activeBytes' = Dataplane!Bytes(layers')
    <3>1. Dataplane!Appendable(layers[l], begin, keys, values)
      BY Zenon DEF Dataplane!AppendAsync
    <3>2. layers' = [layers EXCEPT ![l] = [Dataplane!Launched(layers[l], begin, keys, values, appends + 1, {"k", "v"})
                                             EXCEPT !.count = @ + keys.tokens]]
      BY DEF Dataplane!AppendAsync
    <3>3. accepted' = [accepted EXCEPT
                          ![l] = accepted[l] \cup {[stamp |-> appends + 1, begin |-> begin, tokens |-> keys.tokens]}]
      BY Zenon DEF Dataplane!AppendAsync
    <3>4. appends' = appends + 1 /\ activeBytes' = Dataplane!Bytes(layers')
      BY Zenon DEF Dataplane!AppendAsync
    <3> QED
      BY <3>1, <3>2, <3>3, <3>4, Zenon
  <2> QED
    BY <1>1, <2>1, Zenon
<1>4. Exact(new, accepted[l] \cup {a}, n + 1)
  BY <1>1, <1>2, <1>3, AcceptKept
<1>5. new.k = mid.k /\ new.v = mid.v
  <2>1. PICK s, c, x, y : mid = Record(s, c, x, y)
    <3>1. LayerTypes(layer)
      BY <1>2 DEF Exact
    <3> QED
      BY <1>1, <3>1, LaunchedShape
  <2>2. PICK t : t = mid.count + keys.tokens
    OBVIOUS
  <2>3. new = Record(s, t, x, y)
    <3>1. new = [mid EXCEPT !.count = t]
      BY <1>1, <2>2
    <3> QED
      BY <2>1, <3>1, Fields
  <2> QED
    BY <2>1, <2>3, Fields
<1>6. /\ Cardinality(DOMAIN layer.k) <= Cardinality(DOMAIN new.k)
      /\ Cardinality(DOMAIN layer.v) <= Cardinality(DOMAIN new.v)
  BY <1>1, <1>2, <1>5, LaunchedSize DEF Exact
<1>7. activeBytes' \in Nat
  <2>1. \A m \in Layers : IsBuffer(layers'[m].k) /\ IsBuffer(layers'[m].v)
    BY <1>3, <1>4 DEF PlaneInv, Plane, Exact, LayerTypes
  <2> QED
    BY <1>3, <2>1, BytesAre
<1> QED
  BY <1>1, <1>3, <1>4, <1>6, <1>7, PlaneStep DEF PlaneInv

LEMMA FailStep ==
  ASSUME PlaneInv, NEW l \in Layers, NEW begin \in Begins, NEW keys \in Tensors, NEW values \in Tensors,
         keys.tokens \in Lengths,
         Dataplane!AppendFails(l, begin, keys, values)
  PROVE  PlaneInv'
<1>1. PICK layer, n : layer = layers[l] /\ n = appends
  OBVIOUS
<1>2. Exact(layer, accepted[l], n) /\ n \in Nat /\ activeBytes \in Nat
  BY <1>1 DEF PlaneInv, Plane
<1>3. accepted = [accepted EXCEPT ![l] = accepted[l]] /\ layers = [layers EXCEPT ![l] = layer]
  BY <1>1 DEF PlaneInv, Plane
<1>4. /\ Dataplane!Appendable(layer, begin, keys, values)
      /\ appends' = n + 1 /\ activeBytes' = activeBytes /\ accepted' = accepted
      /\ \/ layers' = [layers EXCEPT ![l] = layer]
         \/ layers' = [layers EXCEPT ![l] = [layer EXCEPT !.k = Dataplane!Allocated(layer.k)]]
         \/ \E ran \in SUBSET {"k", "v"} :
              layers' = [layers EXCEPT ![l] = Dataplane!Launched(layer, begin, keys, values, n + 1, ran)]
  BY <1>1, <1>3, Zenon DEF Dataplane!AppendFails
<1>5. ASSUME NEW new, layers' = [layers EXCEPT ![l] = new], Exact(new, accepted[l], n + 1),
             Cardinality(DOMAIN layer.k) <= Cardinality(DOMAIN new.k),
             Cardinality(DOMAIN layer.v) <= Cardinality(DOMAIN new.v)
      PROVE  PlaneInv'
  <2>1. Plane([layers EXCEPT ![l] = new], [accepted EXCEPT ![l] = accepted[l]], n + 1, activeBytes)
    BY <1>1, <1>2, <1>5, PlaneStep DEF PlaneInv
  <2> QED
    BY <1>3, <1>4, <1>5, <2>1 DEF PlaneInv
<1>6. /\ Cardinality(DOMAIN layer.k) \in Nat /\ Cardinality(DOMAIN layer.v) \in Nat
      /\ Cardinality(DOMAIN layer.k) <= Cardinality(DOMAIN Dataplane!Allocated(layer.k))
  BY <1>2, SizeType DEF Exact, LayerTypes
<1>7. CASE layers' = [layers EXCEPT ![l] = layer]
  <2>1. Cardinality(DOMAIN layer.k) <= Cardinality(DOMAIN layer.k) /\ Cardinality(DOMAIN layer.v) <= Cardinality(DOMAIN layer.v)
    BY <1>6
  <2> QED
    BY <1>2, <1>5, <1>7, <2>1, LaterExact
<1>8. CASE layers' = [layers EXCEPT ![l] = [layer EXCEPT !.k = Dataplane!Allocated(layer.k)]]
  <2>1. PICK ax, new : ax = Dataplane!Allocated(layer.k) /\ new = [layer EXCEPT !.k = ax]
    OBVIOUS
  <2>2. new.k = ax /\ new.v = layer.v
    <3>1. PICK b, c, x, y : layer = Record(b, c, x, y)
      BY <1>2 DEF Exact, LayerTypes, Record
    <3>2. new = Record(b, c, ax, y)
      BY <2>1, <3>1, Fields
    <3> QED
      BY <3>1, <3>2, Fields
  <2>3. Exact(new, accepted[l], n + 1)
    BY <1>2, <2>1, AllocationKept, LaterExact
  <2>4. Cardinality(DOMAIN layer.k) <= Cardinality(DOMAIN new.k) /\ Cardinality(DOMAIN layer.v) <= Cardinality(DOMAIN new.v)
    BY <1>6, <2>1, <2>2
  <2>5. layers' = [layers EXCEPT ![l] = new]
    BY <1>8, <2>1
  <2> QED
    BY <1>5, <2>3, <2>4, <2>5
<1>9. CASE \E ran \in SUBSET {"k", "v"} :
             layers' = [layers EXCEPT ![l] = Dataplane!Launched(layer, begin, keys, values, n + 1, ran)]
  <2>1. PICK ran \in SUBSET {"k", "v"} :
          layers' = [layers EXCEPT ![l] = Dataplane!Launched(layer, begin, keys, values, n + 1, ran)]
    BY <1>9
  <2>2. PICK new : new = Dataplane!Launched(layer, begin, keys, values, n + 1, ran)
    OBVIOUS
  <2>3. Exact(new, accepted[l], n + 1)
    BY <1>2, <1>4, <2>2, LaunchKept, LaterExact
  <2>4. Cardinality(DOMAIN layer.k) <= Cardinality(DOMAIN new.k) /\ Cardinality(DOMAIN layer.v) <= Cardinality(DOMAIN new.v)
    BY <1>2, <2>2, LaunchedSize DEF Exact
  <2> QED
    BY <1>5, <2>1, <2>2, <2>3, <2>4
<1> QED
  BY <1>4, <1>7, <1>8, <1>9

\* A layer without tokens.
LEMMA EmptyExact == ASSUME NEW n \in Nat PROVE Exact(Dataplane!Empty, {}, n)
<1>1. PICK layer : layer = Dataplane!Empty
  OBVIOUS
<1>2. layer = Record(0, 0, <<>>, <<>>)
  BY <1>1 DEF Dataplane!Empty, Record
<1>3. layer.begin = 0 /\ layer.count = 0 /\ layer.k = <<>> /\ layer.v = <<>>
  BY <1>2, Fields
<1>4. LayerTypes(layer)
  <2>1. layer = [begin |-> layer.begin, count |-> layer.count, k |-> layer.k, v |-> layer.v]
    BY <1>2, <1>3 DEF Record
  <2> QED
    BY <1>3, <2>1, SealConstants DEF LayerTypes, IsBuffer
<1>5. Accounted(layer, {}, n)
  <2>1. SumFunction([a \in {} |-> a.tokens]) = 0
    BY SumOfNone DEF SumFunction
  <2> QED
    BY <1>3, <2>1, FS_EmptySet DEF Accounted
<1> QED
  BY <1>1, <1>4, <1>5 DEF Exact, Stored

LEMMA EmptyPlane ==
  ASSUME NEW n \in Nat
  PROVE  Plane([l \in Layers |-> Dataplane!Empty], [l \in Layers |-> {}], n, 0)
<1>1. PICK ls : ls = [l \in Layers |-> Dataplane!Empty]
  OBVIOUS
<1>2. \A l \in Layers : Exact(ls[l], {}, n)
  BY <1>1, EmptyExact
<1>3. Dataplane!Bytes(ls) \in Nat
  BY <1>2, BytesAre DEF Exact, LayerTypes
<1> QED
  BY <1>1, <1>2, <1>3 DEF Plane

\* The tensors of the steps are tensors.
LEMMA ViewsAre ==
  ASSUME NEW view \in Dataplane!Views
  PROVE  /\ view \in Tensors /\ view.tokens \in Lengths
         /\ [Dataplane!Plain EXCEPT !.tokens = view.tokens] \in Tensors
         /\ [Dataplane!Plain EXCEPT !.tokens = view.tokens].tokens = view.tokens
<1>1. /\ view \in [tokens : Lengths, element : Strides, head : Strides, token : Strides]
      /\ view.tokens \in Lengths /\ view.tokens \in Nat \ {0}
  BY PlaneConstants DEF Dataplane!Views
<1>2. view \in Tensors
  BY <1>1, PlaneConstants DEF Tensors
<1>3. HeadDim * 2 \in Nat /\ (KvHeads * HeadDim) * 2 \in Nat
  BY PlaneConstants, Monotone
<1>4. PICK width \in Nat : width = 2
  OBVIOUS
<1>5. PICK head, token \in Nat : head = HeadDim * 2 /\ token = KvHeads * HeadDim * 2
  BY <1>3
<1>6. Dataplane!Plain = [tokens |-> 1, element |-> width, head |-> head, token |-> token]
  BY <1>4, <1>5 DEF Dataplane!Plain, Dataplane!Width
<1>7. [Dataplane!Plain EXCEPT !.tokens = view.tokens]
        = [tokens |-> view.tokens, element |-> width, head |-> head, token |-> token]
  BY <1>6
<1> QED
  BY <1>1, <1>2, <1>4, <1>5, <1>7 DEF Tensors

LEMMA PlaneNext ==
  ASSUME PlaneInv, Dataplane!DataNext
  PROVE  PlaneInv'
<1>1. ASSUME NEW l \in Layers, NEW begin \in Begins, NEW view \in Dataplane!Views, NEW plain,
             plain = [Dataplane!Plain EXCEPT !.tokens = view.tokens],
             \/ Dataplane!AppendAsync(l, begin, view, plain) \/ Dataplane!AppendFails(l, begin, view, plain)
             \/ Dataplane!AppendAsync(l, begin, plain, view) \/ Dataplane!AppendFails(l, begin, plain, view)
      PROVE  PlaneInv'
  <2>1. view \in Tensors /\ plain \in Tensors /\ view.tokens \in Lengths /\ plain.tokens \in Lengths
    BY <1>1, ViewsAre
  <2> QED
    BY <1>1, <2>1, AppendStep, FailStep
<1>2. CASE Dataplane!Clear
  <2>1. /\ layers' = [l \in Layers |-> Dataplane!Empty] /\ accepted' = [l \in Layers |-> {}]
        /\ activeBytes' = 0 /\ appends' = appends
    BY <1>2 DEF Dataplane!Clear
  <2>2. appends \in Nat
    BY DEF PlaneInv, Plane
  <2> QED
    BY <2>1, <2>2, EmptyPlane DEF PlaneInv
<1>3. CASE Dataplane!SealFullPages \/ Dataplane!Attention
  BY <1>3 DEF Dataplane!SealFullPages, Dataplane!Attention, Dataplane!dataVars, PlaneInv
<1> QED
  BY <1>1, <1>2, <1>3, Zenon DEF Dataplane!DataNext

-----------------------------------------------------------------------------

DataplaneInv == engine = "dataplane" => PlaneInv

LEMMA DataplaneStarts ==
  ASSUME DeviceInit
  PROVE  DataplaneInv
  BY EmptyPlane DEF DeviceInit, Dataplane!DataInit, DataplaneInv, PlaneInv

LEMMA DataplaneKept ==
  ASSUME DataplaneInv, [DeviceNext]_deviceVars
  PROVE  DataplaneInv'
<1> SUFFICES ASSUME engine' = "dataplane" PROVE PlaneInv'
  BY DEF DataplaneInv
<1>1. CASE UNCHANGED deviceVars
  <2>1. /\ engine' = engine /\ layers' = layers /\ accepted' = accepted
        /\ appends' = appends /\ activeBytes' = activeBytes
    BY <1>1 DEF deviceVars, planeVars
  <2> QED
    BY <2>1 DEF DataplaneInv, PlaneInv
<1>2. CASE DeviceNext
  <2>1. engine = "dataplane" /\ Dataplane!DataNext
    BY <1>2 DEF DeviceNext
  <2> QED
    BY <2>1, PlaneNext DEF DataplaneInv
<1> QED
  BY <1>1, <1>2

\* The active page of a layer is the appends accepted into it, and the bytes it
\* counts are there, whatever the layers, the heads and their dimension, the size
\* of a page, the lengths and strides tensors come with and the positions they are
\* given, a page below what the unsigned arithmetic of the checks holds.
THEOREM AppendsHeld == DeviceSpec => []ActivePageExact
<1>1. DeviceSpec => []DataplaneInv
  BY DataplaneStarts, DataplaneKept, PTL DEF DeviceSpec
<1>2. DataplaneInv => ActivePageExact
  BY ExactPage DEF DataplaneInv, ActivePageExact
<1> QED
  BY <1>1, <1>2, PTL

-----------------------------------------------------------------------------
(* The compressed cache is one: its operators are the same for both clients, *)
(* and its sums are those the lemmas of sums speak of.                       *)

LEMMA CallbackSums ==
  /\ \A f, D : Callback!SumFunctionOnSet(f, D) = SumFunctionOnSet(f, D)
  /\ \A f : Callback!SumFunction(f) = SumFunction(f)
  BY DEF Callback!SumFunction, SumFunction, Callback!SumFunctionOnSet, SumFunctionOnSet,
         Callback!FoldFunctionOnSet, FoldFunctionOnSet, Callback!MapThenFoldSet, MapThenFoldSet

LEMMA BridgeSums ==
  /\ \A f, D : Bridge!SumFunctionOnSet(f, D) = SumFunctionOnSet(f, D)
  /\ \A f : Bridge!SumFunction(f) = SumFunction(f)
  BY DEF Bridge!SumFunction, SumFunction, Bridge!SumFunctionOnSet, SumFunctionOnSet,
         Bridge!FoldFunctionOnSet, FoldFunctionOnSet, Bridge!MapThenFoldSet, MapThenFoldSet

LEMMA SameCaches ==
  /\ Bridge!EmptyCache = Callback!EmptyCache
  /\ \A c, u : Bridge!SealFullPages(c, u) = Callback!SealFullPages(c, u)
  /\ \A c, s, b, t, u : Bridge!AppendHead(c, s, b, t, u) = Callback!AppendHead(c, s, b, t, u)
  /\ \A h : Bridge!HeldTokens(h) = Callback!HeldTokens(h)
<1>1. Bridge!Slots = Callback!Slots /\ Bridge!EmptyHead = Callback!EmptyHead
  BY DEF Bridge!Slots, Callback!Slots, Bridge!LayerRange, Callback!LayerRange, Bridge!Heads, Callback!Heads,
         Bridge!EmptyHead, Callback!EmptyHead
<1>2. Bridge!EmptyCache = Callback!EmptyCache
  BY <1>1 DEF Bridge!EmptyCache, Callback!EmptyCache
<1>3. \A h, n : Bridge!CutPages(h, n) = Callback!CutPages(h, n)
  BY DEF Bridge!CutPages, Callback!CutPages
<1>4. \A h : Bridge!FullPages(h) = Callback!FullPages(h)
  BY DEF Bridge!FullPages, Callback!FullPages
<1>5. \A c, S : Bridge!Pending(c, S) = Callback!Pending(c, S)
  BY <1>1, <1>4, CallbackSums, BridgeSums DEF Bridge!Pending, Callback!Pending
<1>6. \A s : Bridge!Earlier(s) = Callback!Earlier(s)
  BY <1>1 DEF Bridge!Earlier, Callback!Earlier
<1>7. \A c, s, u : Bridge!PagesCut(c, s, u) = Callback!PagesCut(c, s, u)
  <2>1. \A S : Bridge!Max(S) = Callback!Max(S) /\ Bridge!Min(S) = Callback!Min(S)
    BY DEF Bridge!Max, Callback!Max, Bridge!Min, Callback!Min
  <2> QED
    BY <1>4, <1>5, <1>6, <2>1 DEF Bridge!PagesCut, Callback!PagesCut
<1>8. \A c, u : Bridge!SealFullPages(c, u) = Callback!SealFullPages(c, u)
  BY <1>1, <1>3, <1>7, CallbackSums, BridgeSums DEF Bridge!SealFullPages, Callback!SealFullPages
<1>9. \A c, s, b, t : Bridge!Inserted(c, s, b, t) = Callback!Inserted(c, s, b, t)
  BY <1>1 DEF Bridge!Inserted, Callback!Inserted, Bridge!Grown, Callback!Grown
<1>10. \A h, b : Bridge!Contiguous(h, b) = Callback!Contiguous(h, b)
  BY DEF Bridge!Contiguous, Callback!Contiguous
<1>11. \A c, s, b, t, u : Bridge!AppendHead(c, s, b, t, u) = Callback!AppendHead(c, s, b, t, u)
  BY <1>1, <1>5, <1>8, <1>9, <1>10 DEF Bridge!AppendHead, Callback!AppendHead
<1>12. \A h : Bridge!HeldTokens(h) = Callback!HeldTokens(h)
  BY CallbackSums, BridgeSums DEF Bridge!HeldTokens, Callback!HeldTokens, Bridge!SealedTokens, Callback!SealedTokens
<1> QED
  BY <1>2, <1>8, <1>11, <1>12

-----------------------------------------------------------------------------
(* One head of the cache. *)

KvToken == [k : Nat, v : Nat]
KvPage  == [begin : Nat, toks : Seq(KvToken)]
KvHead  == [begin : Nat, active : Seq(KvToken), sealed : Seq(KvPage)]

SizesOf(sealed) == [i \in DOMAIN sealed |-> Len(sealed[i].toks)]

LEMMA SealedIs == \A h : Callback!SealedTokens(h) = SumFunction(SizesOf(h.sealed))
  BY CallbackSums DEF Callback!SealedTokens, SizesOf

LEMMA SealedType ==
  ASSUME NEW sealed \in Seq(KvPage)
  PROVE  SumFunction(SizesOf(sealed)) \in Nat
<1>1. DOMAIN SizesOf(sealed) = 1 .. Len(sealed) /\ IsFiniteSet(1 .. Len(sealed))
  BY FS_Interval DEF SizesOf
<1>2. \A i \in 1 .. Len(sealed) : SizesOf(sealed)[i] \in Nat
  BY <1>1 DEF SizesOf, KvPage
<1> QED
  BY <1>1, <1>2, SumType DEF SumFunction

LEMMA HeadCounts ==
  ASSUME NEW h \in KvHead
  PROVE  /\ h.begin \in Nat /\ h.active \in Seq(KvToken) /\ h.sealed \in Seq(KvPage) /\ Len(h.active) \in Nat
         /\ Callback!SealedTokens(h) \in Nat /\ Callback!HeldTokens(h) \in Nat
         /\ Callback!HeldTokens(h) = Callback!SealedTokens(h) + Len(h.active)
         /\ h = [begin |-> h.begin, active |-> h.active, sealed |-> h.sealed]
<1>1. /\ h.begin \in Nat /\ h.active \in Seq(KvToken) /\ h.sealed \in Seq(KvPage)
      /\ h = [begin |-> h.begin, active |-> h.active, sealed |-> h.sealed]
  BY DEF KvHead
<1>2. Len(h.active) \in Nat
  BY <1>1
<1>3. Callback!SealedTokens(h) \in Nat
  BY <1>1, SealedIs, SealedType
<1> QED
  BY <1>1, <1>2, <1>3 DEF Callback!HeldTokens

\* What pages of the same size add to the sum of the sizes.
LEMMA SizesGrow ==
  ASSUME NEW s \in Seq(KvPage), NEW q \in Seq(KvPage), NEW size \in Nat, \A i \in 1 .. Len(q) : Len(q[i].toks) = size
  PROVE  SumFunction(SizesOf(s \o q)) = SumFunction(SizesOf(s)) + Len(q) * size
<1>1. PICK m, n \in Nat : m = Len(s) /\ n = Len(q)
  OBVIOUS
<1> DEFINE f == SizesOf(s)
           g == SizesOf(s \o q)
           old == 1 .. m
           new == m + 1 .. m + n
<1>2. /\ s \o q \in Seq(KvPage) /\ Len(s \o q) = m + n
      /\ \A i \in old : (s \o q)[i] = s[i]
      /\ \A i \in new : (s \o q)[i] = q[i - m]
  BY <1>1
<1>3. /\ DOMAIN f = old /\ DOMAIN g = old \cup new
      /\ \A i \in old : g[i] = f[i]
      /\ \A i \in new : g[i] = size
  <2>1. DOMAIN f = 1 .. Len(s) /\ DOMAIN g = 1 .. Len(s \o q)
    BY <1>2 DEF SizesOf
  <2>2. DOMAIN f = old /\ DOMAIN g = old \cup new
    BY <1>1, <1>2, <2>1
  <2>3. \A i \in old : g[i] = f[i]
    BY <1>2, <2>2 DEF SizesOf
  <2>4. ASSUME NEW i \in new PROVE g[i] = size
    <3>1. i - m \in 1 .. Len(q) /\ (s \o q)[i] = q[i - m] /\ i \in DOMAIN (s \o q)
      BY <1>1, <1>2
    <3> QED
      BY <3>1 DEF SizesOf
  <2> QED
    BY <2>2, <2>3, <2>4
<1>4. /\ IsFiniteSet(old) /\ IsFiniteSet(new) /\ old \cap new = {}
      /\ Cardinality(new) = n
  BY FS_Interval
<1>5. \A i \in old \cup new : g[i] \in Nat
  <2>1. \A i \in old : f[i] \in Nat
    BY <1>1, <1>3 DEF SizesOf, KvPage
  <2> QED
    BY <1>3, <2>1
<1> HIDE DEF f, g, old, new
<1>6. SumFunctionOnSet(g, old \cup new) = SumFunctionOnSet(g, old) + SumFunctionOnSet(g, new)
  BY <1>4, <1>5, SumJoins
<1>7. SumFunctionOnSet(g, old) = SumFunctionOnSet(f, old)
  BY <1>3, <1>4, SumAgrees
<1>8. SumFunctionOnSet(g, new) = n * size
  BY <1>3, <1>4, SumConstant
<1>9. SumFunction(g) = SumFunction(f) + n * size
  BY <1>3, <1>6, <1>7, <1>8 DEF SumFunction
<1> QED
  BY <1>1, <1>9 DEF f, g

\* Full pages are what a division gives.
LEMMA FullPagesOf ==
  ASSUME NEW h \in KvHead, NEW p \in 0 .. Callback!FullPages(h)
  PROVE  /\ PageSize \in Nat \ {0} /\ Callback!FullPages(h) \in Nat
         /\ p * PageSize \in Nat /\ p * PageSize <= Len(h.active)
         /\ p = Callback!FullPages(h) => Len(h.active) - p * PageSize < PageSize
<1>1. PICK n \in Nat, size \in Nat \ {0} : n = Len(h.active) /\ size = PageSize
  BY HeadCounts, SealConstants
<1>2. n \div size \in Nat /\ (n \div size) * size <= n /\ n < (n \div size) * size + size
  OBVIOUS
<1>3. PICK f \in Nat : f = Callback!FullPages(h) /\ f * size <= n /\ n < f * size + size
  BY <1>1, <1>2 DEF Callback!FullPages
<1>4. p \in Nat /\ p <= f
  BY <1>3
<1>5. p * size \in Nat /\ f * size \in Nat /\ p * size <= f * size
  BY <1>4, Monotone
<1>6. PICK a, b \in Nat : a = p * size /\ b = f * size /\ a <= b /\ b <= n /\ n < b + size
  BY <1>3, <1>5
<1>7. p = f => a = b
  BY <1>6
<1>8. a <= n /\ (p = f => n - a < size)
  BY <1>6, <1>7
<1>9. p * PageSize = a /\ PageSize = size /\ Len(h.active) = n /\ Callback!FullPages(h) = f
  BY <1>1, <1>3, <1>6
<1> QED
  BY <1>8, <1>9

\* What cutting p of them off a head leaves, and puts among its sealed pages.
NewPages(h, p) == [i \in 1 .. p |-> [begin |-> h.begin + (i - 1) * PageSize,
                                     toks  |-> SubSeq(h.active, (i - 1) * PageSize + 1, i * PageSize)]]

LEMMA NewPagesAre ==
  ASSUME NEW h \in KvHead, NEW p \in 0 .. Callback!FullPages(h)
  PROVE  /\ NewPages(h, p) \in Seq(KvPage) /\ Len(NewPages(h, p)) = p
         /\ \A i \in 1 .. p : /\ NewPages(h, p)[i].begin = h.begin + (i - 1) * PageSize
                              /\ Len(NewPages(h, p)[i].toks) = PageSize
<1>1. p \in Nat /\ PageSize \in Nat \ {0} /\ p * PageSize \in Nat /\ p * PageSize <= Len(h.active)
  BY FullPagesOf
<1>2. h.begin \in Nat /\ h.active \in Seq(KvToken) /\ Len(h.active) \in Nat
  BY HeadCounts
<1>3. ASSUME NEW i \in 1 .. p
      PROVE  /\ NewPages(h, p)[i] \in KvPage
             /\ NewPages(h, p)[i].begin = h.begin + (i - 1) * PageSize
             /\ Len(NewPages(h, p)[i].toks) = PageSize
  <2>1. PICK a, b \in Nat : a = (i - 1) * PageSize /\ b = i * PageSize
    BY <1>1, Monotone
  <2>2. b = a + PageSize /\ b <= p * PageSize
    <3>1. (i - 1) * PageSize + PageSize = i * PageSize
      BY <1>1
    <3>2. i \in Nat /\ i <= p
      BY <1>1
    <3>3. i * PageSize <= p * PageSize
      BY <1>1, <3>2, Monotone
    <3> QED
      BY <2>1, <3>1, <3>3
  <2>3. a + 1 \in 1 .. Len(h.active) + 1 /\ b \in 0 .. Len(h.active)
    BY <1>1, <1>2, <2>1, <2>2
  <2>4. SubSeq(h.active, a + 1, b) \in Seq(KvToken) /\ Len(SubSeq(h.active, a + 1, b)) = PageSize
    BY <1>1, <1>2, <2>1, <2>2, <2>3
  <2>5. h.begin + a \in Nat
    BY <1>2
  <2>6. NewPages(h, p)[i] = [begin |-> h.begin + a, toks |-> SubSeq(h.active, a + 1, b)]
    BY <2>1 DEF NewPages
  <2> QED
    BY <2>1, <2>4, <2>5, <2>6 DEF KvPage
<1>4. NewPages(h, p) \in [1 .. p -> KvPage]
  BY <1>3 DEF NewPages
<1> QED
  BY <1>1, <1>3, <1>4

LEMMA CutHead ==
  ASSUME NEW h \in KvHead, NEW p \in 0 .. Callback!FullPages(h), NEW g, g = Callback!CutPages(h, p)
  PROVE  /\ g \in KvHead
         /\ g.begin = h.begin + p * PageSize /\ Len(g.active) = Len(h.active) - p * PageSize
         /\ g.sealed = h.sealed \o NewPages(h, p)
         /\ Callback!SealedTokens(g) = Callback!SealedTokens(h) + p * PageSize
         /\ Callback!HeldTokens(g) = Callback!HeldTokens(h)
<1>1. p \in Nat /\ PageSize \in Nat \ {0} /\ p * PageSize \in Nat /\ p * PageSize <= Len(h.active)
  BY FullPagesOf
<1>2. h.begin \in Nat /\ h.active \in Seq(KvToken) /\ h.sealed \in Seq(KvPage) /\ Len(h.active) \in Nat
  BY HeadCounts
<1>3. PICK a \in Nat : a = p * PageSize
  BY <1>1
<1>4. g = [begin |-> h.begin + a, active |-> SubSeq(h.active, a + 1, Len(h.active)), sealed |-> h.sealed \o NewPages(h, p)]
  BY <1>3 DEF Callback!CutPages, NewPages
<1>5. /\ SubSeq(h.active, a + 1, Len(h.active)) \in Seq(KvToken)
      /\ Len(SubSeq(h.active, a + 1, Len(h.active))) = Len(h.active) - a
  <2>1. PICK n \in Nat : n = Len(h.active) /\ a <= n
    BY <1>1, <1>2, <1>3
  <2>2. a + 1 \in 1 .. n + 1 /\ n \in 0 .. n
    BY <2>1
  <2> QED
    BY <1>2, <2>1, <2>2
<1>6. h.sealed \o NewPages(h, p) \in Seq(KvPage)
  BY <1>2, NewPagesAre
<1>7. h.begin + a \in Nat
  BY <1>2
<1>8. g \in KvHead
  BY <1>4, <1>5, <1>6, <1>7 DEF KvHead
<1>9. g.begin = h.begin + a /\ Len(g.active) = Len(h.active) - a /\ g.sealed = h.sealed \o NewPages(h, p)
  BY <1>4, <1>5
<1>10. SumFunction(SizesOf(h.sealed \o NewPages(h, p))) = SumFunction(SizesOf(h.sealed)) + p * PageSize
  <2>1. PICK q \in Seq(KvPage) : q = NewPages(h, p)
    BY NewPagesAre
  <2>2. Len(q) = p /\ \A i \in 1 .. Len(q) : Len(q[i].toks) = PageSize
    BY <2>1, NewPagesAre
  <2>3. SumFunction(SizesOf(h.sealed \o q)) = SumFunction(SizesOf(h.sealed)) + Len(q) * PageSize
    BY <1>1, <1>2, <2>2, SizesGrow
  <2> QED
    BY <2>1, <2>2, <2>3
<1>11. Callback!SealedTokens(g) = Callback!SealedTokens(h) + a
  BY <1>3, <1>9, <1>10, SealedIs
<1>12. Callback!HeldTokens(g) = Callback!HeldTokens(h)
  <2>1. PICK m, n \in Nat : m = Callback!SealedTokens(h) /\ n = Len(h.active)
    BY <1>2, HeadCounts
  <2>2. Callback!HeldTokens(g) = (m + a) + (n - a)
    BY <1>9, <1>11, <2>1 DEF Callback!HeldTokens
  <2> QED
    BY <2>1, <2>2 DEF Callback!HeldTokens
<1> QED
  BY <1>3, <1>8, <1>9, <1>11, <1>12

-----------------------------------------------------------------------------
(* The cache: sealing. *)

KvSlots  == (0 .. NLayers - 1) \X (0 .. NHeads - 1)
KvCaches == [heads : [KvSlots -> KvHead], appended : Nat, sealed : Nat]

HeldIn(c) == [s \in KvSlots |-> Callback!HeldTokens(c.heads[s])]
SealedIn(c) == [s \in KvSlots |-> Callback!SealedTokens(c.heads[s])]
Counted(c) == c.appended = SumFunction(HeldIn(c)) /\ c.sealed = SumFunction(SealedIn(c))

LEMMA KvSlotsAre ==
  /\ Callback!Slots = KvSlots /\ Bridge!Slots = KvSlots /\ IsFiniteSet(KvSlots)
  /\ Callback!LayerRange = 0 .. NLayers - 1 /\ Callback!Heads = 0 .. NHeads - 1
  /\ Bridge!LayerRange = 0 .. NLayers - 1 /\ Bridge!Heads = 0 .. NHeads - 1
<1>1. IsFiniteSet(0 .. NLayers - 1) /\ IsFiniteSet(0 .. NHeads - 1)
  <2>1. NLayers - 1 \in Int /\ NHeads - 1 \in Int
    BY CacheConstants
  <2> QED
    BY <2>1, FS_Interval
<1>2. IsFiniteSet(KvSlots)
  BY <1>1, FS_Product DEF KvSlots
<1> QED
  BY <1>2 DEF KvSlots, Callback!Slots, Bridge!Slots, Callback!LayerRange, Bridge!LayerRange, Callback!Heads, Bridge!Heads

LEMMA CacheFields ==
  ASSUME NEW c \in KvCaches
  PROVE  /\ c.heads \in [KvSlots -> KvHead] /\ c.appended \in Nat /\ c.sealed \in Nat
         /\ \A s \in KvSlots : c.heads[s] \in KvHead
  BY DEF KvCaches

\* Max({0, Min({full, left})})
LEMMA Clamped ==
  ASSUME NEW full \in Nat, NEW left \in Int
  PROVE  /\ Callback!Max({0, Callback!Min({full, left})}) \in 0 .. full
         /\ left >= full => Callback!Max({0, Callback!Min({full, left})}) = full
<1>1. PICK m \in Int : m = Callback!Min({full, left}) /\ m \in {full, left} /\ m <= full /\ m <= left
  BY DEF Callback!Min
<1>2. Callback!Max({0, m}) \in {0, m} /\ Callback!Max({0, m}) >= 0 /\ Callback!Max({0, m}) >= m
  BY DEF Callback!Max
<1> QED
  BY <1>1, <1>2

\* The pages cut off a head are among its full ones, and all of them when there
\* are uploads enough for every slot.
LEMMA CutsOfFull ==
  ASSUME NEW c \in KvCaches, NEW u \in Nat, NEW s \in KvSlots
  PROVE  /\ Callback!PagesCut(c, s, u) \in 0 .. Callback!FullPages(c.heads[s])
         /\ u >= Callback!Pending(c, Callback!Slots) => Callback!PagesCut(c, s, u) = Callback!FullPages(c.heads[s])
         /\ Callback!Pending(c, Callback!Slots) \in Nat
<1> DEFINE full == [t \in KvSlots |-> Callback!FullPages(c.heads[t])]
<1>1. \A t \in KvSlots : full[t] \in Nat
  <2> SUFFICES ASSUME NEW t \in KvSlots PROVE Callback!FullPages(c.heads[t]) \in Nat
    OBVIOUS
  <2>1. c.heads[t] \in KvHead
    BY CacheFields
  <2>2. PICK n \in Nat, size \in Nat \ {0} : n = Len(c.heads[t].active) /\ size = PageSize
    BY <2>1, HeadCounts, SealConstants
  <2>3. n \div size \in Nat
    OBVIOUS
  <2> QED
    BY <2>2, <2>3 DEF Callback!FullPages
<1>2. \A S : Callback!Pending(c, S) = SumFunctionOnSet(full, S)
  BY CallbackSums, KvSlotsAre DEF Callback!Pending
<1>3. full[s] = Callback!FullPages(c.heads[s])
  OBVIOUS
<1> HIDE DEF full
<1>4. PICK e : e = Callback!Earlier(s) /\ e \subseteq KvSlots /\ s \notin e
  <2>1. Callback!Earlier(s) \subseteq KvSlots
    BY KvSlotsAre DEF Callback!Earlier
  <2>2. s \notin Callback!Earlier(s)
    <3>1. s[1] \in Nat /\ s[2] \in Nat
      BY CacheConstants DEF KvSlots
    <3> QED
      BY <3>1 DEF Callback!Earlier
  <2> QED
    BY <2>1, <2>2
<1>5. PICK before, all \in Nat : before = SumFunctionOnSet(full, e) /\ all = SumFunctionOnSet(full, KvSlots)
  BY <1>1, <1>4, KvSlotsAre, SumPart
<1>6. before + full[s] <= all
  <2>1. IsFiniteSet(e \cup {s}) /\ e \cup {s} \subseteq KvSlots /\ (e \cup {s}) \ {s} = e
    BY <1>4, KvSlotsAre, FS_Subset
  <2>2. SumFunctionOnSet(full, e \cup {s}) <= all
    BY <1>1, <1>5, <2>1, KvSlotsAre, SumPart
  <2>3. PICK both : both = e \cup {s}
    OBVIOUS
  <2>4. SumFunctionOnSet(full, both) = full[s] + SumFunctionOnSet(full, both \ {s})
    <3>1. IsFiniteSet(both) /\ s \in both /\ \A y \in both : full[y] \in Nat
      BY <1>1, <2>1, <2>3
    <3> QED
      BY <3>1, SumTakes
  <2> QED
    BY <1>1, <1>5, <2>1, <2>2, <2>3, <2>4
<1>7. PICK left \in Int : left = u - before
  OBVIOUS
<1>8. Callback!PagesCut(c, s, u) = Callback!Max({0, Callback!Min({full[s], left})})
  BY <1>2, <1>3, <1>4, <1>5, <1>7 DEF Callback!PagesCut
<1>9. Callback!Pending(c, Callback!Slots) = all
  BY <1>2, <1>5, KvSlotsAre
<1>10. u >= all => left >= full[s]
  BY <1>1, <1>6, <1>7
<1> QED
  BY <1>1, <1>3, <1>8, <1>9, <1>10, Clamped

\* Sealing moves tokens behind the pages and loses none.
Resealed(c, u, d) ==
  /\ d \in KvCaches /\ (Counted(c) => Counted(d))
  /\ \A s \in KvSlots : /\ \E p \in 0 .. Callback!FullPages(c.heads[s]) : d.heads[s] = Callback!CutPages(c.heads[s], p)
                        /\ Callback!HeldTokens(d.heads[s]) = Callback!HeldTokens(c.heads[s])
                        /\ u >= Callback!Pending(c, Callback!Slots) => Len(d.heads[s].active) < PageSize

LEMMA SealKeeps ==
  ASSUME NEW c \in KvCaches, NEW u \in Nat, NEW d, d = Callback!SealFullPages(c, u)
  PROVE  Resealed(c, u, d)
<1> DEFINE cut == [s \in KvSlots |-> Callback!PagesCut(c, s, u)]
<1>1. /\ d.heads = [s \in KvSlots |-> Callback!CutPages(c.heads[s], cut[s])]
      /\ d.appended = c.appended /\ d.sealed = c.sealed + PageSize * SumFunction(cut)
      /\ d = [heads |-> d.heads, appended |-> d.appended, sealed |-> d.sealed]
  BY CallbackSums, KvSlotsAre DEF Callback!SealFullPages
<1>2. \A s \in KvSlots : cut[s] = Callback!PagesCut(c, s, u)
  OBVIOUS
<1>3. DOMAIN cut = KvSlots
  OBVIOUS
<1> HIDE DEF cut
<1>4. ASSUME NEW s \in KvSlots
      PROVE  /\ d.heads[s] \in KvHead /\ cut[s] \in 0 .. Callback!FullPages(c.heads[s])
             /\ d.heads[s] = Callback!CutPages(c.heads[s], cut[s])
             /\ Callback!HeldTokens(d.heads[s]) = Callback!HeldTokens(c.heads[s])
             /\ Callback!SealedTokens(d.heads[s]) = Callback!SealedTokens(c.heads[s]) + cut[s] * PageSize
             /\ u >= Callback!Pending(c, Callback!Slots) => Len(d.heads[s].active) < PageSize
  <2>1. c.heads[s] \in KvHead
    BY CacheFields
  <2>2. /\ cut[s] \in 0 .. Callback!FullPages(c.heads[s])
        /\ u >= Callback!Pending(c, Callback!Slots) => cut[s] = Callback!FullPages(c.heads[s])
    BY <1>2, CutsOfFull
  <2>3. d.heads[s] = Callback!CutPages(c.heads[s], cut[s])
    BY <1>1
  <2>4. /\ d.heads[s] \in KvHead
        /\ Len(d.heads[s].active) = Len(c.heads[s].active) - cut[s] * PageSize
        /\ Callback!SealedTokens(d.heads[s]) = Callback!SealedTokens(c.heads[s]) + cut[s] * PageSize
        /\ Callback!HeldTokens(d.heads[s]) = Callback!HeldTokens(c.heads[s])
    BY <2>1, <2>2, <2>3, CutHead
  <2>5. cut[s] = Callback!FullPages(c.heads[s]) => Len(c.heads[s].active) - cut[s] * PageSize < PageSize
    BY <2>1, <2>2, FullPagesOf
  <2> QED
    BY <2>2, <2>3, <2>4, <2>5
<1>5. \A s \in KvSlots : cut[s] \in Nat
  BY <1>2, <1>4
<1>6. SumFunction(cut) \in Nat
  BY <1>3, <1>5, KvSlotsAre, SumType DEF SumFunction
<1>7. PICK more \in Nat : more = PageSize * SumFunction(cut)
  BY <1>6, SealConstants, Monotone
<1>8. d \in KvCaches
  <2>1. d.heads \in [KvSlots -> KvHead]
    BY <1>1, <1>4
  <2>2. d.appended \in Nat /\ d.sealed \in Nat
    BY <1>1, <1>7, CacheFields
  <2> QED
    BY <1>1, <2>1, <2>2 DEF KvCaches
<1>9. ASSUME Counted(c) PROVE Counted(d)
  <2>1. HeldIn(d) = HeldIn(c)
    BY <1>4 DEF HeldIn
  <2>2. SumFunction(SealedIn(d)) = SumFunction(SealedIn(c)) + PageSize * SumFunction(cut)
    <3>1. PICK f, g : f = SealedIn(c) /\ g = SealedIn(d)
      OBVIOUS
    <3>2. DOMAIN f = KvSlots /\ DOMAIN g = KvSlots /\ PageSize \in Nat
      BY <3>1, SealConstants DEF SealedIn
    <3>3. ASSUME NEW s \in KvSlots
          PROVE  f[s] \in Nat /\ cut[s] \in Nat /\ g[s] = f[s] + PageSize * cut[s]
      <4>1. f[s] = Callback!SealedTokens(c.heads[s]) /\ g[s] = Callback!SealedTokens(d.heads[s])
        BY <3>1 DEF SealedIn
      <4>2. Callback!SealedTokens(c.heads[s]) \in Nat
        BY CacheFields, HeadCounts
      <4>3. cut[s] * PageSize = PageSize * cut[s]
        BY <1>5, <3>2
      <4> QED
        BY <1>4, <1>5, <4>1, <4>2, <4>3
    <3>4. SumFunctionOnSet(g, KvSlots) = SumFunctionOnSet(f, KvSlots) + PageSize * SumFunctionOnSet(cut, KvSlots)
      <4>1. PICK k \in Nat : k = PageSize
        BY <3>2
      <4>2. \A s \in KvSlots : f[s] \in Nat /\ cut[s] \in Nat /\ g[s] = f[s] + k * cut[s]
        BY <3>3, <4>1
      <4>3. IsFiniteSet(KvSlots)
        BY KvSlotsAre
      <4>4. SumFunctionOnSet(g, KvSlots) = SumFunctionOnSet(f, KvSlots) + k * SumFunctionOnSet(cut, KvSlots)
        BY ONLY <4>2, <4>3, SumLinear
      <4> QED
        BY <4>1, <4>4
    <3> QED
      BY <1>3, <3>1, <3>2, <3>4 DEF SumFunction
  <2> QED
    BY <1>1, <1>9, <2>1, <2>2 DEF Counted
<1> QED
  BY <1>4, <1>8, <1>9 DEF Resealed

-----------------------------------------------------------------------------
(* A head whose pages are whole and follow one another up to its tail. *)

Regular(h, n) ==
  /\ h.begin = Len(h.sealed) * PageSize /\ h.begin + Len(h.active) = n
  /\ \A i \in 1 .. Len(h.sealed) : h.sealed[i].begin = (i - 1) * PageSize /\ Len(h.sealed[i].toks) = PageSize

LEMMA CutRegular ==
  ASSUME NEW h \in KvHead, NEW p \in 0 .. Callback!FullPages(h), NEW g, g = Callback!CutPages(h, p),
         NEW n, Regular(h, n)
  PROVE  Regular(g, n)
<1>1. /\ g \in KvHead /\ g.begin = h.begin + p * PageSize /\ Len(g.active) = Len(h.active) - p * PageSize
      /\ g.sealed = h.sealed \o NewPages(h, p)
  BY CutHead
<1>2. /\ p \in Nat /\ PageSize \in Nat \ {0} /\ p * PageSize \in Nat
      /\ h.begin \in Nat /\ h.sealed \in Seq(KvPage) /\ Len(h.active) \in Nat
  BY FullPagesOf, HeadCounts
<1>3. PICK m \in Nat, q \in Seq(KvPage) : m = Len(h.sealed) /\ q = NewPages(h, p)
  BY <1>2, NewPagesAre
<1>4. Len(q) = p /\ \A i \in 1 .. p : q[i].begin = h.begin + (i - 1) * PageSize /\ Len(q[i].toks) = PageSize
  BY <1>3, NewPagesAre
<1>5. /\ Len(g.sealed) = m + p
      /\ \A i \in 1 .. m : g.sealed[i] = h.sealed[i]
      /\ \A i \in m + 1 .. m + p : g.sealed[i] = q[i - m]
  <2>1. PICK old \in Seq(KvPage) : old = h.sealed
    BY <1>2
  <2>2. g.sealed = old \o q /\ m = Len(old) /\ p = Len(q)
    BY <1>1, <1>3, <1>4, <2>1
  <2>3. /\ Len(old \o q) = m + p
        /\ \A i \in 1 .. m : (old \o q)[i] = old[i]
        /\ \A i \in m + 1 .. m + p : (old \o q)[i] = q[i - m]
    BY ONLY <2>2, old \in Seq(KvPage), q \in Seq(KvPage)
  <2> QED
    BY <2>1, <2>2, <2>3
<1>6. h.begin = m * PageSize /\ h.begin + Len(h.active) = n
  BY <1>3 DEF Regular
<1>7. g.begin = Len(g.sealed) * PageSize
  <2>1. (m + p) * PageSize = m * PageSize + p * PageSize
    BY <1>2
  <2> QED
    BY <1>1, <1>5, <1>6, <2>1
<1>8. g.begin + Len(g.active) = n
  <2>1. PICK a, b, k \in Nat : a = p * PageSize /\ b = h.begin /\ k = Len(h.active)
    BY <1>2
  <2>2. g.begin = b + a /\ Len(g.active) = k - a /\ b + k = n
    BY <1>1, <1>6, <2>1
  <2> QED
    BY <2>1, <2>2
<1>9. ASSUME NEW i \in 1 .. Len(g.sealed)
      PROVE  g.sealed[i].begin = (i - 1) * PageSize /\ Len(g.sealed[i].toks) = PageSize
  <2>1. CASE i <= m
    <3>1. i \in 1 .. m
      BY <1>2, <1>5, <2>1
    <3> QED
      BY <1>3, <1>5, <3>1 DEF Regular
  <2>2. CASE ~ (i <= m)
    <3>1. i \in m + 1 .. m + p /\ i - m \in 1 .. p
      BY <1>2, <1>5, <2>2
    <3>2. PICK j \in 1 .. p : j = i - m
      BY <3>1
    <3>3. g.sealed[i] = q[j]
      BY <1>5, <3>1, <3>2
    <3>4. (i - 1) * PageSize = m * PageSize + (j - 1) * PageSize
      <4>1. PICK a \in Nat : a = j - 1 /\ i - 1 = m + a
        BY <1>2, <3>1, <3>2
      <4>2. (m + a) * PageSize = m * PageSize + a * PageSize
        BY <1>2
      <4> QED
        BY <4>1, <4>2
    <3> QED
      BY <1>4, <1>6, <3>3, <3>4
  <2> QED
    BY <2>1, <2>2
<1> QED
  BY <1>7, <1>8, <1>9 DEF Regular

-----------------------------------------------------------------------------
(* The cache: appending to one head. *)

LEMMA GrowHead ==
  ASSUME NEW h \in KvHead, NEW begin \in Nat, NEW toks \in Seq(KvToken), NEW g, g = Callback!Grown(h, begin, toks)
  PROVE  /\ g \in KvHead /\ g.sealed = h.sealed /\ Len(g.active) = Len(h.active) + Len(toks)
         /\ g.begin = IF h.active = <<>> THEN begin ELSE h.begin
         /\ Callback!SealedTokens(g) = Callback!SealedTokens(h)
         /\ Callback!HeldTokens(g) = Callback!HeldTokens(h) + Len(toks)
<1>1. /\ h.begin \in Nat /\ h.active \in Seq(KvToken) /\ h.sealed \in Seq(KvPage) /\ Len(h.active) \in Nat
      /\ Callback!SealedTokens(h) \in Nat /\ Callback!HeldTokens(h) = Callback!SealedTokens(h) + Len(h.active)
  BY HeadCounts
<1>2. PICK b \in Nat : b = IF h.active = <<>> THEN begin ELSE h.begin
  BY <1>1
<1>3. g = [begin |-> b, active |-> h.active \o toks, sealed |-> h.sealed]
  BY <1>2 DEF Callback!Grown
<1>4. h.active \o toks \in Seq(KvToken) /\ Len(h.active \o toks) = Len(h.active) + Len(toks) /\ Len(toks) \in Nat
  BY <1>1
<1>5. g \in KvHead
  BY <1>1, <1>3, <1>4 DEF KvHead
<1>6. g.begin = b /\ g.sealed = h.sealed /\ Len(g.active) = Len(h.active) + Len(toks)
  BY <1>3, <1>4
<1>7. Callback!SealedTokens(g) = Callback!SealedTokens(h)
  BY <1>6, SealedIs
<1>8. Callback!HeldTokens(g) = Callback!HeldTokens(h) + Len(toks)
  <2>1. Callback!HeldTokens(g) = Callback!SealedTokens(g) + Len(g.active)
    BY <1>5, HeadCounts
  <2> QED
    BY <1>1, <1>4, <1>6, <1>7, <2>1
<1> QED
  BY <1>2, <1>5, <1>6, <1>7, <1>8

\* An append at the end of a regular head is contiguous, and leaves it regular.
LEMMA GrowRegular ==
  ASSUME NEW h \in KvHead, NEW n \in Nat, Regular(h, n), NEW toks \in Seq(KvToken)
  PROVE  Callback!Contiguous(h, n) /\ Regular(Callback!Grown(h, n, toks), n + Len(toks))
<1>1. PICK g : g = Callback!Grown(h, n, toks)
  OBVIOUS
<1>2. /\ g.sealed = h.sealed /\ Len(g.active) = Len(h.active) + Len(toks)
      /\ g.begin = IF h.active = <<>> THEN n ELSE h.begin
  BY <1>1, GrowHead
<1>3. h.begin \in Nat /\ Len(h.active) \in Nat /\ h.active \in Seq(KvToken) /\ h.begin + Len(h.active) = n /\ Len(toks) \in Nat
  BY HeadCounts DEF Regular
<1>4. h.active = <<>> => h.begin = n
  BY <1>3
<1>5. g.begin = h.begin
  BY <1>2, <1>4
<1>6. g.begin + Len(g.active) = n + Len(toks)
  <2>1. PICK b, k, more \in Nat : b = h.begin /\ k = Len(h.active) /\ more = Len(toks)
    BY <1>3
  <2>2. g.begin = b /\ Len(g.active) = k + more /\ b + k = n
    BY <1>2, <1>3, <1>5, <2>1
  <2> QED
    BY <2>1, <2>2
<1>7. Regular(g, n + Len(toks))
  BY <1>2, <1>5, <1>6 DEF Regular
<1> QED
  BY <1>1, <1>3, <1>7 DEF Callback!Contiguous

GrewBy(c, s, begin, toks, d) ==
  /\ d \in KvCaches /\ (Counted(c) => Counted(d))
  /\ d.heads[s] = Callback!Grown(c.heads[s], begin, toks)
  /\ Callback!HeldTokens(d.heads[s]) = Callback!HeldTokens(c.heads[s]) + Len(toks)
  /\ \A t \in KvSlots \ {s} : d.heads[t] = c.heads[t]

LEMMA InsertKeeps ==
  ASSUME NEW c \in KvCaches, NEW s \in KvSlots, NEW begin \in Nat, NEW toks \in Seq(KvToken),
         NEW d, d = Callback!Inserted(c, s, begin, toks)
  PROVE  GrewBy(c, s, begin, toks, d)
<1>1. /\ d.heads = [c.heads EXCEPT ![s] = Callback!Grown(c.heads[s], begin, toks)]
      /\ d.appended = c.appended + Len(toks) /\ d.sealed = c.sealed
      /\ d = [heads |-> d.heads, appended |-> d.appended, sealed |-> d.sealed]
  BY DEF Callback!Inserted
<1>2. /\ c.heads \in [KvSlots -> KvHead] /\ c.appended \in Nat /\ c.sealed \in Nat /\ c.heads[s] \in KvHead
      /\ Len(toks) \in Nat
  BY CacheFields
<1>3. /\ d.heads[s] = Callback!Grown(c.heads[s], begin, toks)
      /\ \A t \in KvSlots \ {s} : d.heads[t] = c.heads[t]
  BY <1>1, <1>2
<1>4. /\ d.heads[s] \in KvHead
      /\ Callback!SealedTokens(d.heads[s]) = Callback!SealedTokens(c.heads[s])
      /\ Callback!HeldTokens(d.heads[s]) = Callback!HeldTokens(c.heads[s]) + Len(toks)
  BY <1>2, <1>3, GrowHead
<1>5. d.heads \in [KvSlots -> KvHead]
  BY <1>1, <1>2, <1>3, <1>4
<1>6. d \in KvCaches
  <2>1. d.appended \in Nat /\ d.sealed \in Nat
    BY <1>1, <1>2
  <2> QED
    BY <1>1, <1>5, <2>1 DEF KvCaches
<1>7. ASSUME Counted(c) PROVE Counted(d)
  <2>1. SealedIn(d) = SealedIn(c)
    BY <1>3, <1>4 DEF SealedIn
  <2>2. SumFunction(HeldIn(d)) = SumFunction(HeldIn(c)) + Len(toks)
    <3>1. PICK f, g : f = HeldIn(c) /\ g = HeldIn(d)
      OBVIOUS
    <3>2. DOMAIN f = KvSlots /\ DOMAIN g = KvSlots /\ IsFiniteSet(DOMAIN f)
      BY <3>1, KvSlotsAre DEF HeldIn
    <3>3. \A t \in KvSlots : f[t] = Callback!HeldTokens(c.heads[t]) /\ g[t] = Callback!HeldTokens(d.heads[t])
      BY <3>1 DEF HeldIn
    <3>4. \A t \in KvSlots : f[t] \in Nat
      BY <3>3, CacheFields, HeadCounts
    <3>5. (\A t \in KvSlots \ {s} : g[t] = f[t]) /\ g[s] = f[s] + Len(toks)
      BY <1>3, <1>4, <3>3
    <3>6. /\ SumFunction(g) = SumFunction(f) - f[s] + g[s]
          /\ SumFunction(f) \in Nat /\ f[s] \in Nat /\ g[s] \in Nat
      <4>1. g[s] \in Nat /\ f[s] \in Nat
        BY <1>2, <3>4, <3>5
      <4> QED
        BY <3>2, <3>4, <3>5, <4>1, SumUpdate
    <3> QED
      BY <1>2, <3>1, <3>5, <3>6
  <2> QED
    BY <1>1, <1>7, <2>1, <2>2 DEF Counted
<1> QED
  BY <1>3, <1>4, <1>6, <1>7 DEF GrewBy

\* What an append to one head does to it, and to the others.
Appended(c, s, begin, more, r) ==
  /\ r.cache \in KvCaches /\ r.ok \in BOOLEAN /\ (Counted(c) => Counted(r.cache))
  /\ \A t \in KvSlots \ {s} : Callback!HeldTokens(r.cache.heads[t]) = Callback!HeldTokens(c.heads[t])
  /\ Callback!Contiguous(c.heads[s], begin) =>
       Callback!HeldTokens(r.cache.heads[s]) = Callback!HeldTokens(c.heads[s]) + more
  /\ ~ Callback!Contiguous(c.heads[s], begin) => r.cache = c /\ ~ r.ok
  /\ r.ok => \A t \in KvSlots : Len(r.cache.heads[t].active) < PageSize
  /\ \A t \in KvSlots \ {s}, n \in Nat : Regular(c.heads[t], n) => Regular(r.cache.heads[t], n)
  /\ Regular(c.heads[s], begin) => Regular(r.cache.heads[s], begin + more)

LEMMA AppendKeeps ==
  ASSUME NEW c \in KvCaches, NEW s \in KvSlots, NEW begin \in Nat, NEW toks \in Seq(KvToken), NEW u \in Nat,
         NEW r, r = Callback!AppendHead(c, s, begin, toks, u)
  PROVE  Appended(c, s, begin, Len(toks), r)
<1>1. PICK d : d = Callback!Inserted(c, s, begin, toks)
  OBVIOUS
<1>2. /\ d \in KvCaches /\ (Counted(c) => Counted(d))
      /\ d.heads[s] = Callback!Grown(c.heads[s], begin, toks)
      /\ Callback!HeldTokens(d.heads[s]) = Callback!HeldTokens(c.heads[s]) + Len(toks)
      /\ \A t \in KvSlots \ {s} : d.heads[t] = c.heads[t]
  <2>1. GrewBy(c, s, begin, toks, d)
    BY <1>1, InsertKeeps
  <2> QED
    BY <2>1 DEF GrewBy
<1>3. c.heads[s] \in KvHead /\ Len(toks) \in Nat /\ begin + Len(toks) \in Nat
  BY CacheFields
<1>4. Regular(c.heads[s], begin) =>
        /\ Callback!Contiguous(c.heads[s], begin)
        /\ Regular(d.heads[s], begin + Len(toks))
  BY <1>2, <1>3, GrowRegular
<1>5. CASE ~ Callback!Contiguous(c.heads[s], begin)
  <2>1. r = [cache |-> c, ok |-> FALSE]
    BY <1>5 DEF Callback!AppendHead
  <2>2. r.cache = c /\ r.ok = FALSE
    BY <2>1
  <2> QED
    BY <1>4, <1>5, <2>2 DEF Appended
<1>6. CASE Callback!Contiguous(c.heads[s], begin)
  <2>1. PICK e : e = Callback!SealFullPages(d, u)
    OBVIOUS
  <2>2. PICK enough : enough = (u >= Callback!Pending(d, Callback!Slots))
    OBVIOUS
  <2>3. r.cache = e /\ r.ok \in BOOLEAN /\ (r.ok => u >= Callback!Pending(d, Callback!Slots))
    <3>1. r = [cache |-> e, ok |-> enough]
      BY <1>1, <1>6, <2>1, <2>2 DEF Callback!AppendHead
    <3>2. r.cache = e /\ r.ok = enough
      BY <3>1
    <3>3. PICK p \in Nat : p = Callback!Pending(d, Callback!Slots)
      BY <1>2, CutsOfFull
    <3>4. enough = (u >= p)
      BY <2>2, <3>3
    <3>5. enough \in BOOLEAN
      BY ONLY <3>4, u \in Nat, p \in Nat
    <3>6. enough => u >= p
      BY ONLY <3>4, u \in Nat, p \in Nat
    <3> QED
      BY <3>2, <3>3, <3>5, <3>6
  <2>4. /\ e \in KvCaches /\ (Counted(d) => Counted(e))
        /\ \A t \in KvSlots : /\ \E p \in 0 .. Callback!FullPages(d.heads[t]) : e.heads[t] = Callback!CutPages(d.heads[t], p)
                              /\ Callback!HeldTokens(e.heads[t]) = Callback!HeldTokens(d.heads[t])
                              /\ u >= Callback!Pending(d, Callback!Slots) => Len(e.heads[t].active) < PageSize
    <3>1. Resealed(d, u, e)
      BY <1>2, <2>1, SealKeeps
    <3> QED
      BY <3>1 DEF Resealed
  <2>5. ASSUME NEW t \in KvSlots, NEW n \in Nat, Regular(d.heads[t], n) PROVE Regular(e.heads[t], n)
    <3>1. PICK p \in 0 .. Callback!FullPages(d.heads[t]) : e.heads[t] = Callback!CutPages(d.heads[t], p)
      BY <2>4
    <3>2. d.heads[t] \in KvHead
      BY <1>2, CacheFields
    <3> QED
      BY <2>5, <3>1, <3>2, CutRegular
  <2>6. \A t \in KvSlots \ {s}, n \in Nat : Regular(c.heads[t], n) => Regular(e.heads[t], n)
    BY <1>2, <2>5
  <2>7. Regular(c.heads[s], begin) => Regular(e.heads[s], begin + Len(toks))
    BY <1>3, <1>4, <2>5
  <2>8. \A t \in KvSlots \ {s} : Callback!HeldTokens(e.heads[t]) = Callback!HeldTokens(c.heads[t])
    BY <1>2, <2>4
  <2>9. Callback!HeldTokens(e.heads[s]) = Callback!HeldTokens(c.heads[s]) + Len(toks)
    BY <1>2, <2>4
  <2>10. r.ok => \A t \in KvSlots : Len(e.heads[t].active) < PageSize
    BY <2>3, <2>4
  <2> QED
    BY <1>2, <1>6, <2>3, <2>4, <2>6, <2>7, <2>8, <2>9, <2>10 DEF Appended
<1> QED
  BY <1>5, <1>6

-----------------------------------------------------------------------------
(* The heads of a layer, one after the other. *)

\* f is the recursion of HeadsAppended over the first m heads.
Heads1(f, base, l, begin, toks, up, m) ==
  f = [n \in 0 .. m |->
         IF n = 0 THEN [cache |-> base, errors |-> 0]
         ELSE Callback!Tried(f[n - 1], Callback!AppendHead(f[n - 1].cache, <<l, n - 1>>, begin, toks, up[n - 1]))]

LEMMA Heads1Exists ==
  ASSUME NEW base, NEW l, NEW begin, NEW toks, NEW up, NEW m \in Nat
  PROVE  \E f : Heads1(f, base, l, begin, toks, up, m)
<1> DEFINE bad == {k \in Nat : ~ \E f : Heads1(f, base, l, begin, toks, up, k)}
<1> SUFFICES ASSUME bad # {} PROVE FALSE
  OBVIOUS
<1>1. PICK k \in bad : \A n \in bad : k <= n
  BY LeastExists
<1> HIDE DEF bad
<1>2. k \in Nat /\ ~ \E f : Heads1(f, base, l, begin, toks, up, k)
  BY DEF bad
<1>3. CASE k = 0
  <2> DEFINE f == [n \in 0 .. 0 |-> [cache |-> base, errors |-> 0]]
  <2>1. Heads1(f, base, l, begin, toks, up, 0)
    BY DEF Heads1
  <2> QED
    BY <1>2, <1>3, <2>1
<1>4. CASE k # 0
  <2>1. k - 1 \in Nat /\ k - 1 \notin bad
    BY <1>1, <1>2, <1>4
  <2>2. PICK g : Heads1(g, base, l, begin, toks, up, k - 1)
    BY <2>1 DEF bad
  <2> DEFINE step(e, n) == Callback!Tried(e, Callback!AppendHead(e.cache, <<l, n>>, begin, toks, up[n]))
             f == [n \in 0 .. k |-> IF n = 0 THEN [cache |-> base, errors |-> 0] ELSE step(g[n - 1], n - 1)]
  <2>3. \A n \in 0 .. k - 1 : g[n] = IF n = 0 THEN [cache |-> base, errors |-> 0] ELSE step(g[n - 1], n - 1)
    BY <2>2, Zenon DEF Heads1
  <2> HIDE DEF step
  <2>4. \A n \in 0 .. k - 1 : f[n] = g[n]
    <3>1. \A n \in 0 .. k - 1 : n \in 0 .. k
      BY <1>2
    <3> QED
      BY <2>3, <3>1, Zenon
  <2>5. f = [n \in 0 .. k |-> IF n = 0 THEN [cache |-> base, errors |-> 0] ELSE step(f[n - 1], n - 1)]
    <3>1. ASSUME NEW n \in 0 .. k, n # 0 PROVE step(g[n - 1], n - 1) = step(f[n - 1], n - 1)
      <4>1. n - 1 \in 0 .. k - 1
        BY <1>2, <3>1
      <4> QED
        BY <2>4, <4>1
    <3> QED
      BY <3>1
  <2> HIDE DEF f
  <2>6. Heads1(f, base, l, begin, toks, up, k)
    BY <2>5, Zenon DEF Heads1, step
  <2> QED
    BY <1>2, <2>6
<1> QED
  BY <1>3, <1>4

\* So the heads are appended to in order.
InOrder(f, base, l, begin, toks, up) ==
  /\ Callback!HeadsAppended(base, l, begin, toks, up) = f[NHeads]
  /\ f[0] = [cache |-> base, errors |-> 0]
  /\ \A n \in 1 .. NHeads :
       f[n] = Callback!Tried(f[n - 1], Callback!AppendHead(f[n - 1].cache, <<l, n - 1>>, begin, toks, up[n - 1]))

LEMMA Heads1Steps ==
  ASSUME NEW base, NEW l, NEW begin, NEW toks, NEW up
  PROVE  \E f : InOrder(f, base, l, begin, toks, up)
<1>1. \E f : Heads1(f, base, l, begin, toks, up, NHeads)
  BY CacheConstants, Heads1Exists
<1>2. PICK f : f = CHOOSE g : Heads1(g, base, l, begin, toks, up, NHeads)
  OBVIOUS
<1>3. Heads1(f, base, l, begin, toks, up, NHeads)
  BY <1>1, <1>2
<1>4. Callback!HeadsAppended(base, l, begin, toks, up) = f[NHeads]
  BY <1>2 DEF Callback!HeadsAppended, Heads1
<1>5. NHeads \in Nat \ {0}
  BY CacheConstants
<1>6. \A n \in 0 .. NHeads :
        f[n] = IF n = 0 THEN [cache |-> base, errors |-> 0]
               ELSE Callback!Tried(f[n - 1], Callback!AppendHead(f[n - 1].cache, <<l, n - 1>>, begin, toks, up[n - 1]))
  BY <1>3, Zenon DEF Heads1
<1>7. 0 \in 0 .. NHeads /\ \A n \in 1 .. NHeads : n \in 0 .. NHeads /\ n # 0
  BY <1>5
<1>8. f[0] = [cache |-> base, errors |-> 0]
  BY <1>6, <1>7, Zenon
<1>9. \A n \in 1 .. NHeads :
        f[n] = Callback!Tried(f[n - 1], Callback!AppendHead(f[n - 1].cache, <<l, n - 1>>, begin, toks, up[n - 1]))
  BY <1>6, <1>7, Zenon
<1> QED
  BY <1>4, <1>8, <1>9 DEF InOrder

\* What holds after the first m heads of a layer, for the callback's result e.
Along(e, base, l, begin, more, m) ==
  /\ e.cache \in KvCaches /\ e.errors \in Nat /\ (Counted(base) => Counted(e.cache))
  /\ \A h \in 0 .. NHeads - 1 : Regular(e.cache.heads[<<l, h>>], IF h < m THEN begin + more ELSE begin)
  /\ \A t \in KvSlots, n \in Nat : t[1] # l /\ Regular(base.heads[t], n) => Regular(e.cache.heads[t], n)
  /\ m # 0 /\ e.errors = 0 => \A t \in KvSlots : Len(e.cache.heads[t].active) < PageSize

LEMMA AlongStep ==
  ASSUME NEW base, NEW l \in 0 .. NLayers - 1, NEW begin \in Nat, NEW toks \in Seq(KvToken), NEW u \in Nat,
         NEW m \in 0 .. NHeads - 1, NEW e, Along(e, base, l, begin, Len(toks), m), NEW r,
         r = Callback!AppendHead(e.cache, <<l, m>>, begin, toks, u)
  PROVE  Along(Callback!Tried(e, r), base, l, begin, Len(toks), m + 1)
<1>1. e.cache \in KvCaches /\ e.errors \in Nat /\ <<l, m>> \in KvSlots /\ m \in Nat /\ begin + Len(toks) \in Nat
  BY CacheConstants DEF Along, KvSlots
<1>2. PICK c \in KvCaches, s \in KvSlots : c = e.cache /\ s = <<l, m>>
  BY <1>1
<1>3. r = Callback!AppendHead(c, s, begin, toks, u)
  BY <1>2
<1>4. /\ r.cache \in KvCaches /\ (Counted(c) => Counted(r.cache))
      /\ r.ok => \A t \in KvSlots : Len(r.cache.heads[t].active) < PageSize
      /\ \A t \in KvSlots \ {s}, n \in Nat : Regular(c.heads[t], n) => Regular(r.cache.heads[t], n)
      /\ Regular(c.heads[s], begin) => Regular(r.cache.heads[s], begin + Len(toks))
  <2>1. Appended(c, s, begin, Len(toks), r)
    BY <1>3, AppendKeeps
  <2> QED
    BY <2>1 DEF Appended
<1>5. PICK i \in Nat : i = IF r.ok THEN 0 ELSE 1
  OBVIOUS
<1>6. PICK new : new = Callback!Tried(e, r) /\ new.cache = r.cache /\ new.errors = e.errors + i
  <2>1. Callback!Tried(e, r) = [cache |-> r.cache, errors |-> e.errors + i]
    BY ONLY <1>5 DEF Callback!Tried
  <2>2. PICK new : new = Callback!Tried(e, r)
    OBVIOUS
  <2>3. new = [cache |-> r.cache, errors |-> e.errors + i]
    BY <2>1, <2>2
  <2> QED
    BY <2>2, <2>3
<1>7. new.errors \in Nat /\ (new.errors = 0 => r.ok)
  BY <1>1, <1>5, <1>6
<1>8. Counted(base) => Counted(new.cache)
  BY <1>2, <1>4, <1>6 DEF Along
<1>9. ASSUME NEW h \in 0 .. NHeads - 1
      PROVE  Regular(new.cache.heads[<<l, h>>], IF h < m + 1 THEN begin + Len(toks) ELSE begin)
  <2>1. <<l, h>> \in KvSlots /\ Regular(c.heads[<<l, h>>], IF h < m THEN begin + Len(toks) ELSE begin)
    BY <1>2 DEF Along, KvSlots
  <2>2. CASE h = m
    BY <1>1, <1>2, <1>4, <1>6, <2>1, <2>2
  <2>3. CASE h # m
    <3>1. <<l, h>> \in KvSlots \ {s}
      BY <1>2, <2>1, <2>3
    <3>2. PICK n \in Nat : n = IF h < m THEN begin + Len(toks) ELSE begin
      BY <1>1
    <3>3. Regular(new.cache.heads[<<l, h>>], n)
      BY <1>4, <1>6, <2>1, <3>1, <3>2
    <3>4. (h < m) <=> (h < m + 1)
      BY <1>1, <2>3
    <3> QED
      BY <3>2, <3>3, <3>4
  <2> QED
    BY <2>2, <2>3
<1>10. ASSUME NEW t \in KvSlots, NEW n \in Nat, t[1] # l, Regular(base.heads[t], n)
       PROVE  Regular(new.cache.heads[t], n)
  <2>1. Regular(c.heads[t], n) /\ t \in KvSlots \ {s}
    BY <1>2, <1>10 DEF Along
  <2> QED
    BY <1>4, <1>6, <2>1
<1> QED
  BY <1>4, <1>6, <1>7, <1>8, <1>9, <1>10 DEF Along

\* Appending to every head of a layer, each of which ends at begin.
LEMMA LayerKeeps ==
  ASSUME NEW base \in KvCaches, NEW l \in 0 .. NLayers - 1, NEW begin \in Nat, NEW toks \in Seq(KvToken),
         NEW up \in [0 .. NHeads - 1 -> Nat], \A h \in 0 .. NHeads - 1 : Regular(base.heads[<<l, h>>], begin)
  PROVE  Along(Callback!HeadsAppended(base, l, begin, toks, up), base, l, begin, Len(toks), NHeads)
<1>0. PICK f : InOrder(f, base, l, begin, toks, up)
  BY Heads1Steps
<1>1. /\ Callback!HeadsAppended(base, l, begin, toks, up) = f[NHeads]
      /\ f[0] = [cache |-> base, errors |-> 0]
      /\ \A n \in 1 .. NHeads :
           f[n] = Callback!Tried(f[n - 1], Callback!AppendHead(f[n - 1].cache, <<l, n - 1>>, begin, toks, up[n - 1]))
  BY <1>0 DEF InOrder
<1> DEFINE bad == {m \in 0 .. NHeads : ~ Along(f[m], base, l, begin, Len(toks), m)}
<1>2. NHeads \in Nat
  BY CacheConstants
<1>3. ASSUME bad # {} PROVE FALSE
  <2>1. bad \subseteq Nat
    BY <1>2
  <2>2. PICK m \in bad : \A n \in bad : m <= n
    BY <1>3, <2>1, LeastExists
  <2>3. m \in 0 .. NHeads /\ ~ Along(f[m], base, l, begin, Len(toks), m)
    BY <2>2
  <2>4. Along(f[0], base, l, begin, Len(toks), 0)
    <3>1. f[0].cache = base /\ f[0].errors = 0
      BY <1>1
    <3>2. \A h \in 0 .. NHeads - 1 : ~ (h < 0)
      BY <1>2
    <3> QED
      BY <3>1, <3>2 DEF Along
  <2>5. m # 0
    BY <2>3, <2>4
  <2>6. PICK k \in 0 .. NHeads - 1 : m = k + 1
    <3>1. m - 1 \in 0 .. NHeads - 1 /\ m = (m - 1) + 1
      BY <1>2, <2>3, <2>5
    <3> QED
      BY <3>1
  <2>7. k \in 0 .. NHeads /\ k < m /\ k + 1 \in 1 .. NHeads /\ (k + 1) - 1 = k
    BY <1>2, <2>3, <2>6
  <2>8. k \notin bad
    BY <1>2, <2>1, <2>2, <2>7
  <2>9. Along(f[k], base, l, begin, Len(toks), k)
    BY <2>7, <2>8
  <2>10. f[k + 1] = Callback!Tried(f[k], Callback!AppendHead(f[k].cache, <<l, k>>, begin, toks, up[k]))
    BY <1>1, <2>7
  <2>11. Along(f[k + 1], base, l, begin, Len(toks), k + 1)
    BY <2>9, <2>10, AlongStep
  <2> QED
    BY <2>3, <2>6, <2>11
<1>4. NHeads \in 0 .. NHeads
  BY <1>2
<1> QED
  BY <1>1, <1>3, <1>4

-----------------------------------------------------------------------------
(* The callback. *)

PassType == [layer : 0 .. NLayers - 1, size : Nat, seen : SUBSET {"q", "k", "v"}]
PendType == [k : Seq(Nat), v : Seq(Nat)]

CallbackInv ==
  /\ cache \in KvCaches /\ Counted(cache) /\ errors \in Nat
  /\ tok \in [0 .. NLayers - 1 -> Nat]
  /\ \A l \in 0 .. NLayers - 1, h \in 0 .. NHeads - 1 : Regular(cache.heads[<<l, h>>], tok[l])
  /\ real \in Seq(Nat) /\ made \in Nat
  /\ pend \in [0 .. NLayers - 1 -> PendType]
  /\ pass = Callback!NoPass \/ (pass \in PassType /\ pass.size <= Len(real))

LEMMA EmptyIsRegular ==
  /\ Callback!EmptyCache \in KvCaches /\ Counted(Callback!EmptyCache)
  /\ \A s \in KvSlots : Regular(Callback!EmptyCache.heads[s], 0) /\ Callback!HeldTokens(Callback!EmptyCache.heads[s]) = 0
<1>1. PICK h, c : h = Callback!EmptyHead /\ c = Callback!EmptyCache
  OBVIOUS
<1>2. h = [begin |-> 0, active |-> <<>>, sealed |-> <<>>]
  BY <1>1 DEF Callback!EmptyHead
<1>3. c = [heads |-> [s \in KvSlots |-> h], appended |-> 0, sealed |-> 0]
  BY <1>1, KvSlotsAre DEF Callback!EmptyCache
<1>4. h \in KvHead /\ h.begin = 0 /\ Len(h.active) = 0 /\ Len(h.sealed) = 0 /\ DOMAIN h.sealed = {}
  BY <1>2 DEF KvHead
<1>5. c \in KvCaches
  BY <1>3, <1>4 DEF KvCaches
<1>6. c.appended = 0 /\ c.sealed = 0 /\ \A s \in KvSlots : c.heads[s] = h
  BY <1>3
<1>7. Callback!SealedTokens(h) = 0
  <2>1. DOMAIN SizesOf(h.sealed) = {}
    BY <1>4 DEF SizesOf
  <2> QED
    BY <2>1, SealedIs, SumOfNone DEF SumFunction
<1>8. Callback!HeldTokens(h) = 0
  BY <1>4, <1>7, HeadCounts
<1>9. Regular(h, 0)
  <2>1. 0 * PageSize = 0
    BY SealConstants
  <2> QED
    BY <1>4, <2>1 DEF Regular
<1>10. Counted(c)
  <2>1. ASSUME NEW f, DOMAIN f = KvSlots, \A s \in KvSlots : f[s] = 0
        PROVE  SumFunction(f) = 0
    <3>1. SumFunctionOnSet(f, KvSlots) = Cardinality(KvSlots) * 0 /\ Cardinality(KvSlots) \in Nat
      BY <2>1, KvSlotsAre, SumConstant
    <3> QED
      BY <2>1, <3>1 DEF SumFunction
  <2>2. \A s \in KvSlots : HeldIn(c)[s] = 0 /\ SealedIn(c)[s] = 0
    BY <1>6, <1>7, <1>8 DEF HeldIn, SealedIn
  <2>3. DOMAIN HeldIn(c) = KvSlots /\ DOMAIN SealedIn(c) = KvSlots
    BY DEF HeldIn, SealedIn
  <2>4. SumFunction(HeldIn(c)) = 0 /\ SumFunction(SealedIn(c)) = 0
    BY <2>1, <2>2, <2>3
  <2> QED
    BY <1>6, <2>4 DEF Counted
<1> QED
  BY <1>1, <1>5, <1>6, <1>8, <1>9, <1>10

LEMMA CallbackStart == Callback!CallbackInit => CallbackInv
<1> SUFFICES ASSUME Callback!CallbackInit PROVE CallbackInv
  OBVIOUS
<1>1. /\ cache = Callback!EmptyCache /\ real = <<>> /\ made = 0 /\ pass = Callback!NoPass /\ errors = 0
      /\ pend = [l \in 0 .. NLayers - 1 |-> [k |-> <<>>, v |-> <<>>]] /\ tok = [l \in 0 .. NLayers - 1 |-> 0]
  BY KvSlotsAre DEF Callback!CallbackInit, Callback!Clean
<1>2. \A l \in 0 .. NLayers - 1, h \in 0 .. NHeads - 1 : Regular(cache.heads[<<l, h>>], tok[l])
  <2>1. \A l \in 0 .. NLayers - 1, h \in 0 .. NHeads - 1 : <<l, h>> \in KvSlots /\ tok[l] = 0
    BY <1>1 DEF KvSlots
  <2> QED
    BY <1>1, <2>1, EmptyIsRegular
<1>3. pend \in [0 .. NLayers - 1 -> PendType] /\ tok \in [0 .. NLayers - 1 -> Nat] /\ real \in Seq(Nat)
  BY <1>1 DEF PendType
<1> QED
  BY <1>1, <1>2, <1>3, EmptyIsRegular DEF CallbackInv

\* The tokens of the pass in progress.
LEMMA PassTokensType ==
  ASSUME CallbackInv, pass # Callback!NoPass
  PROVE  /\ pass \in PassType /\ pass.layer \in 0 .. NLayers - 1
         /\ Callback!PassTokens \in Seq(Nat) /\ Len(Callback!PassTokens) = pass.size
<1>1. pass \in PassType /\ pass.size <= Len(real) /\ real \in Seq(Nat)
  BY DEF CallbackInv
<1>2. PICK m, n \in Nat : m = Len(real) /\ n = pass.size /\ n <= m
  BY <1>1 DEF PassType
<1>3. Callback!PassTokens = SubSeq(real, m - n + 1, m)
  BY <1>2 DEF Callback!PassTokens
<1>4. m - n + 1 \in 1 .. m + 1 /\ m \in 0 .. m
  BY <1>2
<1>5. SubSeq(real, m - n + 1, m) \in Seq(Nat) /\ Len(SubSeq(real, m - n + 1, m)) = n
  BY <1>1, <1>2, <1>4
<1> QED
  BY <1>1, <1>2, <1>3, <1>5 DEF PassType

\* The append of a layer, whatever fault it meets.
LEMMA AppendLayerKeeps ==
  ASSUME CallbackInv, NEW l \in 0 .. NLayers - 1, NEW toks \in Seq(KvToken), NEW fault \in Callback!UploadFaults,
         Callback!AppendLayer(l, toks, fault)
  PROVE  /\ cache' \in KvCaches /\ Counted(cache') /\ errors' \in Nat /\ tok' \in [0 .. NLayers - 1 -> Nat]
         /\ \A i \in 0 .. NLayers - 1, h \in 0 .. NHeads - 1 : Regular(cache'.heads[<<i, h>>], tok'[i])
         /\ errors' = errors => \A t \in KvSlots : Len(cache'.heads[t].active) < PageSize
<1> DEFINE fresh == Len(toks) > 1 /\ l = 0
<1>1. PICK base : base = IF fresh THEN Callback!EmptyCache ELSE cache
  OBVIOUS
<1>2. PICK begin : begin = IF fresh THEN 0 ELSE tok[l]
  OBVIOUS
<1>3. PICK up : up = [h \in 0 .. NHeads - 1 |-> IF h = fault.head THEN fault.uploads
                                               ELSE Callback!Pending(base, Callback!Slots) + NHeads * Len(toks)]
  OBVIOUS
<1>4. PICK done : done = Callback!HeadsAppended(base, l, begin, toks, up)
  OBVIOUS
<1>5. /\ cache' = done.cache /\ errors' = errors + done.errors
      /\ tok' = [i \in 0 .. NLayers - 1 |-> IF i = l THEN begin + Len(toks) ELSE IF fresh THEN 0 ELSE tok[i]]
  BY <1>1, <1>2, <1>3, <1>4, KvSlotsAre, Zenon DEF Callback!AppendLayer
<1>6. base \in KvCaches /\ Counted(base) /\ begin \in Nat
  BY <1>1, <1>2, EmptyIsRegular DEF CallbackInv
<1>7. ASSUME NEW i \in 0 .. NLayers - 1, NEW h \in 0 .. NHeads - 1
      PROVE  <<i, h>> \in KvSlots /\ Regular(base.heads[<<i, h>>], IF fresh THEN 0 ELSE tok[i])
  <2>1. <<i, h>> \in KvSlots
    BY DEF KvSlots
  <2> QED
    BY <1>1, <2>1, EmptyIsRegular DEF CallbackInv
<1>8. up \in [0 .. NHeads - 1 -> Nat]
  <2>1. <<0, 0>> \in KvSlots
    BY CacheConstants DEF KvSlots
  <2>2. Callback!Pending(base, Callback!Slots) \in Nat
    BY <1>6, <2>1, CutsOfFull
  <2>3. NHeads * Len(toks) \in Nat
    BY CacheConstants
  <2>4. fault.uploads \in Nat
    <3>1. fault = Callback!NoFault \/ fault \in [head : Callback!Heads, uploads : Succeeding]
      BY DEF Callback!UploadFaults
    <3>2. Succeeding \subseteq Nat
      BY CacheConstants
    <3>3. CASE fault = Callback!NoFault
      BY <3>3 DEF Callback!NoFault
    <3>4. CASE fault \in [head : Callback!Heads, uploads : Succeeding]
      <4>1. fault.uploads \in Succeeding
        BY <3>4
      <4> QED
        BY <3>2, <4>1
    <3> QED
      BY <3>1, <3>3, <3>4
  <2> QED
    BY <1>3, <2>2, <2>3, <2>4
<1>9. Along(done, base, l, begin, Len(toks), NHeads)
  <2>1. \A h \in 0 .. NHeads - 1 : Regular(base.heads[<<l, h>>], begin)
    BY <1>2, <1>7
  <2> QED
    BY <1>4, <1>6, <1>8, <2>1, LayerKeeps
<1>10. /\ done.cache \in KvCaches /\ done.errors \in Nat /\ Counted(done.cache)
       /\ \A h \in 0 .. NHeads - 1 : Regular(done.cache.heads[<<l, h>>], begin + Len(toks))
       /\ \A t \in KvSlots, n \in Nat : t[1] # l /\ Regular(base.heads[t], n) => Regular(done.cache.heads[t], n)
       /\ done.errors = 0 => \A t \in KvSlots : Len(done.cache.heads[t].active) < PageSize
  <2>1. NHeads # 0 /\ \A h \in 0 .. NHeads - 1 : h < NHeads
    BY CacheConstants
  <2> QED
    BY <1>6, <1>9, <2>1 DEF Along
<1>11. tok' \in [0 .. NLayers - 1 -> Nat]
  BY <1>5, <1>6 DEF CallbackInv
<1>12. ASSUME NEW i \in 0 .. NLayers - 1, NEW h \in 0 .. NHeads - 1
       PROVE  Regular(cache'.heads[<<i, h>>], tok'[i])
  <2>1. CASE i = l
    BY <1>5, <1>10, <2>1
  <2>2. CASE i # l
    <3>1. PICK n \in Nat : n = IF fresh THEN 0 ELSE tok[i]
      BY DEF CallbackInv
    <3>2. tok'[i] = n
      BY <1>5, <2>2, <3>1
    <3>3. PICK t \in KvSlots : t = <<i, h>> /\ t[1] # l
      BY <1>7, <2>2
    <3>4. Regular(base.heads[t], n)
      BY <1>7, <3>1, <3>3
    <3> QED
      BY <1>5, <1>10, <3>2, <3>3, <3>4
  <2> QED
    BY <2>1, <2>2
<1>13. errors \in Nat
  BY DEF CallbackInv
<1> QED
  BY <1>5, <1>10, <1>11, <1>12, <1>13

\* A new pass.
LEMMA StartKeeps ==
  ASSUME CallbackInv, NEW n \in 1 .. MaxBatch, Callback!StartPass(n)
  PROVE  real' \in Seq(Nat) /\ made' \in Nat /\ pass' \in PassType /\ pass'.size <= Len(real')
<1>1. n \in Nat \ {0} /\ made \in Nat /\ real \in Seq(Nat)
  BY CacheConstants DEF CallbackInv
<1>2. PICK fresh : fresh = [i \in 1 .. n |-> made + i]
  OBVIOUS
<1>3. fresh \in Seq(Nat) /\ Len(fresh) = n
  <2>1. fresh \in [1 .. n -> Nat]
    BY <1>1, <1>2
  <2> QED
    BY <1>1, <1>2, <2>1
<1>4. real \o fresh \in Seq(Nat) /\ Len(real \o fresh) = Len(real) + n
  BY <1>1, <1>3
<1>5. real' = IF n > 1 THEN fresh ELSE real \o fresh
  BY <1>2 DEF Callback!StartPass
<1>6. made' = made + n /\ pass' = [layer |-> 0, size |-> n, seen |-> {}]
  BY DEF Callback!StartPass
<1>7. real' \in Seq(Nat) /\ n <= Len(real')
  BY <1>1, <1>3, <1>4, <1>5
<1>8. pass' \in PassType /\ pass'.size = n
  BY <1>1, <1>6, CacheConstants DEF PassType
<1> QED
  BY <1>1, <1>6, <1>7, <1>8

LEMMA FiredKeeps ==
  ASSUME CallbackInv, NEW kind \in {"q", "k", "v"}, Callback!Fired(kind)
  PROVE  pass # Callback!NoPass /\ pass' \in PassType /\ pass'.size = pass.size
<1>1. pass # Callback!NoPass /\ pass' = [pass EXCEPT !.seen = @ \cup {kind}]
  BY DEF Callback!Fired
<1>2. pass \in PassType
  BY <1>1, PassTokensType
<1>3. pass'.size = pass.size /\ pass' \in PassType
  BY <1>1, <1>2 DEF PassType
<1> QED
  BY <1>1, <1>3

LEMMA PairType ==
  ASSUME NEW ks \in Seq(Nat), NEW vs \in Seq(Nat), Len(ks) = Len(vs)
  PROVE  Callback!Pair(ks, vs) \in Seq(KvToken)
<1>1. PICK n \in Nat : n = Len(ks) /\ n = Len(vs)
  OBVIOUS
<1>2. \A i \in 1 .. n : ks[i] \in Nat /\ vs[i] \in Nat
  BY <1>1
<1>3. \A i \in 1 .. n : [k |-> ks[i], v |-> vs[i]] \in KvToken
  BY <1>2 DEF KvToken
<1>4. Callback!Pair(ks, vs) = [i \in 1 .. n |-> [k |-> ks[i], v |-> vs[i]]]
  BY <1>1 DEF Callback!Pair
<1> QED
  BY <1>3, <1>4

\* What a key or a value tensor does: nothing to the cache, or the append of a layer.
LEMMA TensorKeeps ==
  ASSUME CallbackInv, NEW kind \in Callback!Kinds, NEW fault \in Callback!UploadFaults, Callback!KvTensor(kind, fault)
  PROVE  /\ pend' \in [0 .. NLayers - 1 -> PendType] /\ Callback!Fired(kind) /\ real' = real /\ made' = made
         /\ \/ cache' = cache /\ errors' = errors /\ tok' = tok
            \/ \E l \in 0 .. NLayers - 1, toks \in Seq(KvToken) : Callback!AppendLayer(l, toks, fault)
<1>1. kind \in {"k", "v"} /\ Callback!Fired(kind) /\ real' = real /\ made' = made
  BY DEF Callback!KvTensor
<1>2. pass # Callback!NoPass
  BY <1>1 DEF Callback!Fired
<1>3. PICK l \in 0 .. NLayers - 1 : l = pass.layer
  BY <1>2, PassTokensType
<1>4. PICK both : both = [pend[l] EXCEPT ![kind] = Callback!PassTokens]
  OBVIOUS
<1>5. PICK pair : pair = Callback!Pair(both.k, both.v)
  OBVIOUS
<1>6. /\ pend \in [0 .. NLayers - 1 -> PendType] /\ pend[l] \in PendType
      /\ Callback!PassTokens \in Seq(Nat)
  BY <1>2, PassTokensType DEF CallbackInv
<1>7. both \in PendType
  BY <1>1, <1>4, <1>6 DEF PendType
<1>8. PICK ks, vs \in Seq(Nat) : ks = both.k /\ vs = both.v
  BY <1>7 DEF PendType
<1>9. CASE ks # <<>> /\ vs # <<>> /\ Len(ks) = Len(vs)
  <2>1. Callback!AppendLayer(l, pair, fault) /\ pend' = [pend EXCEPT ![l] = Callback!Clean[l]]
    BY <1>3, <1>4, <1>5, <1>8, <1>9, Zenon DEF Callback!KvTensor
  <2>2. pair \in Seq(KvToken)
    BY <1>5, <1>8, <1>9, PairType
  <2>3. Callback!Clean[l] \in PendType
    <3>1. Callback!Clean[l] = [k |-> <<>>, v |-> <<>>]
      BY KvSlotsAre DEF Callback!Clean
    <3> QED
      BY <3>1 DEF PendType
  <2>4. pend' \in [0 .. NLayers - 1 -> PendType]
    BY <1>6, <2>1, <2>3
  <2> QED
    BY <1>1, <2>1, <2>2, <2>4
<1>10. CASE ~ (ks # <<>> /\ vs # <<>> /\ Len(ks) = Len(vs))
  <2>1. pend' = [pend EXCEPT ![l] = both] /\ UNCHANGED <<cache, errors, tok, kvFaults>>
    BY <1>3, <1>4, <1>8, <1>10, Zenon DEF Callback!KvTensor
  <2>2. pend' \in [0 .. NLayers - 1 -> PendType]
    BY <1>6, <1>7, <2>1
  <2> QED
    BY <1>1, <2>1, <2>2
<1> QED
  BY <1>9, <1>10

LEMMA CallbackStep ==
  ASSUME CallbackInv, Callback!CallbackNext
  PROVE  CallbackInv' /\ (cache' # cache /\ errors' = errors => \A t \in KvSlots : Len(cache'.heads[t].active) < PageSize)
<1>1. ASSUME UNCHANGED <<cache, errors, tok>>
      PROVE  /\ cache' \in KvCaches /\ Counted(cache') /\ errors' \in Nat /\ tok' \in [0 .. NLayers - 1 -> Nat]
             /\ \A i \in 0 .. NLayers - 1, h \in 0 .. NHeads - 1 : Regular(cache'.heads[<<i, h>>], tok'[i])
  BY <1>1 DEF CallbackInv
<1>2. ASSUME NEW n \in 1 .. MaxBatch, Callback!StartPass(n) PROVE CallbackInv' /\ cache' = cache
  <2>1. UNCHANGED <<cache, errors, tok>> /\ pend' = pend
    BY <1>2 DEF Callback!StartPass
  <2> QED
    BY <1>1, <1>2, <2>1, StartKeeps DEF CallbackInv
<1>3. ASSUME NEW kind \in Callback!Kinds, NEW fault \in Callback!UploadFaults, Callback!KvTensor(kind, fault)
      PROVE  CallbackInv' /\ (cache' # cache /\ errors' = errors => \A t \in KvSlots : Len(cache'.heads[t].active) < PageSize)
  <2>1. /\ pend' \in [0 .. NLayers - 1 -> PendType] /\ Callback!Fired(kind) /\ real' = real /\ made' = made
        /\ \/ cache' = cache /\ errors' = errors /\ tok' = tok
           \/ \E l \in 0 .. NLayers - 1, toks \in Seq(KvToken) : Callback!AppendLayer(l, toks, fault)
    BY <1>3, TensorKeeps
  <2>2. pass' \in PassType /\ pass'.size <= Len(real') /\ real' \in Seq(Nat) /\ made' \in Nat
    <3>1. pass # Callback!NoPass /\ pass' \in PassType /\ pass'.size = pass.size
      BY <2>1, FiredKeeps DEF Callback!Kinds
    <3> QED
      BY <2>1, <3>1 DEF CallbackInv
  <2>3. CASE cache' = cache /\ errors' = errors /\ tok' = tok
    BY <1>1, <2>1, <2>2, <2>3 DEF CallbackInv
  <2>4. CASE \E l \in 0 .. NLayers - 1, toks \in Seq(KvToken) : Callback!AppendLayer(l, toks, fault)
    <3>1. PICK l \in 0 .. NLayers - 1, toks \in Seq(KvToken) : Callback!AppendLayer(l, toks, fault)
      BY <2>4
    <3>2. /\ cache' \in KvCaches /\ Counted(cache') /\ errors' \in Nat /\ tok' \in [0 .. NLayers - 1 -> Nat]
          /\ \A i \in 0 .. NLayers - 1, h \in 0 .. NHeads - 1 : Regular(cache'.heads[<<i, h>>], tok'[i])
          /\ errors' = errors => \A t \in KvSlots : Len(cache'.heads[t].active) < PageSize
      BY <3>1, AppendLayerKeeps
    <3> QED
      BY <2>1, <2>2, <3>2 DEF CallbackInv
  <2> QED
    BY <2>1, <2>3, <2>4
<1>4. ASSUME NEW kind \in {"q", "k", "v"}, Callback!Fired(kind), UNCHANGED <<cache, errors, tok, pend, real, made>>
      PROVE  CallbackInv'
  <2>1. pass # Callback!NoPass /\ pass' \in PassType /\ pass'.size = pass.size
    BY <1>4, FiredKeeps
  <2> QED
    BY <1>1, <1>4, <2>1 DEF CallbackInv
<1>5. ASSUME NEW fails \in BOOLEAN, Callback!KqvOut(fails) PROVE CallbackInv' /\ cache' = cache
  <2>1. /\ UNCHANGED <<cache, errors, tok, pend, real, made>> /\ pass # Callback!NoPass
        /\ pass' = IF pass.layer + 1 < NLayers THEN [pass EXCEPT !.layer = pass.layer + 1, !.seen = {}] ELSE Callback!NoPass
    BY <1>5, Zenon DEF Callback!KqvOut
  <2>2. pass \in PassType /\ pass.layer \in 0 .. NLayers - 1 /\ pass.size <= Len(real)
    BY <2>1, PassTokensType DEF CallbackInv
  <2>3. pass' = Callback!NoPass \/ (pass' \in PassType /\ pass'.size = pass.size)
    <3>1. pass.layer + 1 < NLayers => pass.layer + 1 \in 0 .. NLayers - 1
      BY <2>2, CacheConstants
    <3> QED
      BY <2>1, <2>2, <3>1 DEF PassType
  <2> QED
    BY <1>1, <2>1, <2>2, <2>3 DEF CallbackInv
<1>6. CASE Callback!QueryTensor
  BY <1>4, <1>6 DEF Callback!QueryTensor
<1>7. ASSUME NEW kind \in Callback!Kinds, Callback!RejectTensor(kind) PROVE CallbackInv' /\ cache' = cache
  BY <1>4, <1>7 DEF Callback!RejectTensor, Callback!Kinds
<1>8. Callback!QueryTensor => cache' = cache
  BY DEF Callback!QueryTensor
<1> QED
  BY <1>2, <1>3, <1>5, <1>6, <1>7, <1>8, Zenon DEF Callback!CallbackNext

-----------------------------------------------------------------------------
(* The positions of a regular head. *)

CountedTo(n) == [j \in 1 .. n |-> j - 1]
From(n, more) == [j \in 1 .. more |-> n + j - 1]

LEMMA CountedJoins ==
  ASSUME NEW n \in Nat, NEW more \in Nat
  PROVE  CountedTo(n) \o From(n, more) = CountedTo(n + more)
<1>1. PICK a, b : a = CountedTo(n) /\ b = From(n, more)
  OBVIOUS
<1>2. a = [j \in 1 .. n |-> j - 1] /\ b = [j \in 1 .. more |-> n + j - 1]
  BY <1>1 DEF CountedTo, From
<1>3. a \in Seq(Int) /\ b \in Seq(Int) /\ Len(a) = n /\ Len(b) = more
  BY <1>2
<1>4. PICK c : c = a \o b /\ c \in Seq(Int) /\ Len(c) = n + more
  <2>1. a \o b \in Seq(Int) /\ Len(a \o b) = n + more
    BY ONLY <1>3
  <2> QED
    BY <2>1
<1>5. ASSUME NEW j \in 1 .. n + more PROVE c[j] = j - 1
  <2>1. CASE j <= n
    BY <1>2, <1>3, <1>4, <2>1
  <2>2. CASE ~ (j <= n)
    <3>1. c[j] = b[j - n] /\ j - n \in 1 .. more
      BY <1>3, <1>4, <2>2
    <3> QED
      BY <1>2, <3>1
  <2> QED
    BY <2>1, <2>2
<1>6. PICK d : d = CountedTo(n + more)
  OBVIOUS
<1>7. d = [j \in 1 .. n + more |-> j - 1]
  BY <1>6 DEF CountedTo
<1>8. d \in Seq(Int) /\ Len(d) = n + more
  BY <1>7
<1>9. \A j \in 1 .. Len(c) : c[j] = d[j]
  BY <1>4, <1>5, <1>7
<1>10. c = d
  BY <1>4, <1>8, <1>9, SeqEqual
<1> QED
  BY <1>1, <1>4, <1>6, <1>10

\* What follows one another, put together.
Gathers(all, seqs, m) ==
  /\ seqs = [i \in 1 .. m |-> seqs[i]] /\ all = [i \in 1 .. m |-> all[i]]
  /\ 1 \in 1 .. m => all[1] = seqs[1]
  /\ \A i \in 1 .. m : i # 1 => all[i] = all[i - 1] \o seqs[i]

LEMMA FlattenSteps ==
  ASSUME NEW m \in Nat, NEW seqs, NEW all, Gathers(all, seqs, m)
  PROVE  Callback!FlattenSeq(seqs) = IF m = 0 THEN <<>> ELSE all[m]
<1> DEFINE recurs(f) == f = [i \in 1 .. m |-> IF i = 1 THEN seqs[i] ELSE f[i - 1] \o seqs[i]]
<1>0. /\ seqs = [i \in 1 .. m |-> seqs[i]] /\ all = [i \in 1 .. m |-> all[i]]
      /\ 1 \in 1 .. m => all[1] = seqs[1]
      /\ \A i \in 1 .. m : i # 1 => all[i] = all[i - 1] \o seqs[i]
  BY Zenon DEF Gathers
<1>1. recurs(all)
  <2>1. \A i \in 1 .. m : all[i] = IF i = 1 THEN seqs[i] ELSE all[i - 1] \o seqs[i]
    BY <1>0, Zenon
  <2> QED
    BY <1>0, <2>1, Zenon
<1>2. PICK f : f = CHOOSE g : recurs(g)
  OBVIOUS
<1>3. recurs(f)
  BY <1>1, <1>2
<1>4. \A i \in 1 .. m : f[i] = IF i = 1 THEN seqs[i] ELSE f[i - 1] \o seqs[i]
  BY <1>3, Zenon
<1>5. Len(seqs) = m
  BY <1>0
<1>6. Callback!FlattenSeq(seqs) = IF m = 0 THEN seqs ELSE f[m]
  BY <1>2, <1>5 DEF Callback!FlattenSeq
<1> HIDE DEF recurs
<1> DEFINE bad == {i \in 1 .. m : f[i] # all[i]}
<1>7. ASSUME bad # {} PROVE FALSE
  <2>1. bad \subseteq Nat
    OBVIOUS
  <2>2. PICK i \in bad : \A n \in bad : i <= n
    BY <1>7, <2>1, LeastExists
  <2>3. i \in 1 .. m /\ f[i] # all[i]
    BY <2>2
  <2>4. i # 1
    BY <1>0, <1>4, <2>3
  <2>5. i - 1 \in 1 .. m /\ i - 1 < i
    BY <2>3, <2>4
  <2>6. i - 1 \notin bad
    BY <2>1, <2>2, <2>5
  <2>7. f[i - 1] = all[i - 1]
    BY <2>5, <2>6
  <2>8. f[i] = f[i - 1] \o seqs[i]
    BY <1>4, <2>3, <2>4, Zenon
  <2>9. all[i] = all[i - 1] \o seqs[i]
    BY <1>0, <2>3, <2>4, Zenon
  <2> QED
    BY <2>3, <2>7, <2>8, <2>9, Zenon
<1>8. CASE m = 0
  <2>1. seqs = <<>>
    BY <1>0, <1>8
  <2> QED
    BY <1>6, <1>8, <2>1
<1>9. CASE m # 0
  <2>1. m \in 1 .. m
    BY <1>9
  <2> QED
    BY <1>6, <1>7, <1>9, <2>1
<1> QED
  BY <1>8, <1>9

\* Pages of the same size that follow one another have the positions up to their end.
LEMMA FlattenPages ==
  ASSUME NEW m \in Nat, NEW size \in Nat \ {0}
  PROVE  Callback!FlattenSeq([i \in 1 .. m |-> From((i - 1) * size, size)]) = CountedTo(m * size)
<1>1. PICK seqs : seqs = [i \in 1 .. m |-> From((i - 1) * size, size)]
  OBVIOUS
<1>2. PICK all : all = [i \in 1 .. m |-> CountedTo(i * size)]
  OBVIOUS
<1>3. seqs = [i \in 1 .. m |-> seqs[i]] /\ all = [i \in 1 .. m |-> all[i]]
  BY <1>1, <1>2
<1>4. 1 \in 1 .. m => all[1] = seqs[1]
  <2>1. 1 * size = size /\ (1 - 1) * size = 0
    OBVIOUS
  <2>2. CountedTo(size) = From(0, size)
    BY DEF CountedTo, From
  <2> QED
    BY <1>1, <1>2, <2>1, <2>2
<1>5. ASSUME NEW i \in 1 .. m, i # 1 PROVE all[i] = all[i - 1] \o seqs[i]
  <2>1. PICK a \in Nat : a = i - 1 /\ a \in 1 .. m
    BY <1>5
  <2>2. a * size \in Nat /\ (a + 1) * size = a * size + size /\ i = a + 1
    BY <2>1, Monotone
  <2>3. CountedTo(a * size + size) = CountedTo(a * size) \o From(a * size, size)
    BY <2>2, CountedJoins
  <2>4. seqs[i] = From(a * size, size) /\ all[i] = CountedTo(i * size) /\ all[a] = CountedTo(a * size)
    BY <1>1, <1>2, <2>1
  <2> QED
    BY <2>1, <2>2, <2>3, <2>4
<1>6. Gathers(all, seqs, m)
  BY <1>3, <1>4, <1>5, Zenon DEF Gathers
<1>7. Callback!FlattenSeq(seqs) = IF m = 0 THEN <<>> ELSE all[m]
  BY <1>6, FlattenSteps
<1>8. m = 0 => CountedTo(m * size) = <<>>
  <2>1. 0 * size = 0 /\ CountedTo(0) = <<>>
    BY DEF CountedTo
  <2> QED
    BY <2>1
<1>9. m # 0 => all[m] = CountedTo(m * size)
  <2>1. m # 0 => m \in 1 .. m
    OBVIOUS
  <2> QED
    BY <1>2, <2>1
<1> QED
  BY <1>1, <1>7, <1>8, <1>9

LEMMA RegularPositions ==
  ASSUME NEW h \in KvHead, NEW n \in Nat, Regular(h, n)
  PROVE  Callback!Positions(h) = CountedTo(n)
<1>1. PICK m, more \in Nat, size \in Nat \ {0} : m = Len(h.sealed) /\ more = Len(h.active) /\ size = PageSize
  <2>1. Len(h.active) \in Nat /\ h.sealed \in Seq(KvPage)
    BY HeadCounts
  <2>2. Len(h.sealed) \in Nat
    BY <2>1
  <2> QED
    BY <2>1, <2>2, SealConstants
<1>2. /\ h.begin = m * size /\ h.begin \in Nat /\ h.begin + more = n
      /\ \A i \in 1 .. m : h.sealed[i].begin = (i - 1) * size /\ Len(h.sealed[i].toks) = size
  BY <1>1, HeadCounts DEF Regular
<1>3. PICK cuts : cuts = [i \in 1 .. Len(h.sealed) |-> [j \in 1 .. Len(h.sealed[i].toks) |-> h.sealed[i].begin + j - 1]]
  OBVIOUS
<1>4. cuts = [i \in 1 .. m |-> From((i - 1) * size, size)]
  BY <1>1, <1>2, <1>3 DEF From
<1>5. Callback!FlattenSeq(cuts) = CountedTo(m * size)
  BY <1>4, FlattenPages
<1>6. Callback!Positions(h) = Callback!FlattenSeq(cuts) \o [j \in 1 .. more |-> h.begin + j - 1]
  BY <1>1, <1>3 DEF Callback!Positions
<1>7. [j \in 1 .. more |-> h.begin + j - 1] = From(h.begin, more)
  BY DEF From
<1>8. CountedTo(h.begin) \o From(h.begin, more) = CountedTo(n)
  BY <1>2, CountedJoins
<1> QED
  BY <1>2, <1>5, <1>6, <1>7, <1>8

LEMMA CallbackExact ==
  ASSUME CallbackInv
  PROVE  Callback!HeadsComplete /\ Callback!StatsExact
<1>1. cache \in KvCaches /\ Counted(cache) /\ tok \in [0 .. NLayers - 1 -> Nat]
  BY DEF CallbackInv
<1>2. ASSUME NEW l \in 0 .. NLayers - 1, NEW h \in 0 .. NHeads - 1
      PROVE  Callback!Positions(cache.heads[<<l, h>>]) = [i \in 1 .. tok[l] |-> i - 1]
  <2>1. <<l, h>> \in KvSlots /\ tok[l] \in Nat /\ Regular(cache.heads[<<l, h>>], tok[l])
    BY DEF CallbackInv, KvSlots
  <2>2. cache.heads[<<l, h>>] \in KvHead
    BY <1>1, <2>1, CacheFields
  <2> QED
    BY <2>1, <2>2, RegularPositions DEF CountedTo
<1>3. Callback!HeadsComplete
  BY <1>2, KvSlotsAre DEF Callback!HeadsComplete
<1> QED
  BY <1>1, <1>3, KvSlotsAre, CallbackSums DEF Callback!StatsExact, Counted, HeldIn, SealedIn

-----------------------------------------------------------------------------
(* The bridge: the heads of a layer up to the first that fails. *)

Heads2(f, base, l, begin, toks, up, m) ==
  f = [n \in 0 .. m |->
         IF n = 0 THEN [cache |-> base, ok |-> TRUE]
         ELSE IF Bridge!Stopped(f[n - 1]) THEN f[n - 1]
         ELSE Bridge!AppendHead(f[n - 1].cache, <<l, n - 1>>, begin, toks, up[n - 1])]

LEMMA Heads2Exists ==
  ASSUME NEW base, NEW l, NEW begin, NEW toks, NEW up, NEW m \in Nat
  PROVE  \E f : Heads2(f, base, l, begin, toks, up, m)
<1> DEFINE bad == {k \in Nat : ~ \E f : Heads2(f, base, l, begin, toks, up, k)}
<1> SUFFICES ASSUME bad # {} PROVE FALSE
  OBVIOUS
<1>1. PICK k \in bad : \A n \in bad : k <= n
  BY LeastExists
<1> HIDE DEF bad
<1>2. k \in Nat /\ ~ \E f : Heads2(f, base, l, begin, toks, up, k)
  BY DEF bad
<1>3. CASE k = 0
  <2> DEFINE f == [n \in 0 .. 0 |-> [cache |-> base, ok |-> TRUE]]
  <2>1. Heads2(f, base, l, begin, toks, up, 0)
    BY DEF Heads2
  <2> QED
    BY <1>2, <1>3, <2>1
<1>4. CASE k # 0
  <2>1. k - 1 \in Nat /\ k - 1 \notin bad
    BY <1>1, <1>2, <1>4
  <2>2. PICK g : Heads2(g, base, l, begin, toks, up, k - 1)
    BY <2>1 DEF bad
  <2> DEFINE step(e, n) == IF Bridge!Stopped(e) THEN e ELSE Bridge!AppendHead(e.cache, <<l, n>>, begin, toks, up[n])
             f == [n \in 0 .. k |-> IF n = 0 THEN [cache |-> base, ok |-> TRUE] ELSE step(g[n - 1], n - 1)]
  <2>3. \A n \in 0 .. k - 1 : g[n] = IF n = 0 THEN [cache |-> base, ok |-> TRUE] ELSE step(g[n - 1], n - 1)
    BY <2>2, Zenon DEF Heads2
  <2> HIDE DEF step
  <2>4. \A n \in 0 .. k - 1 : f[n] = g[n]
    <3>1. \A n \in 0 .. k - 1 : n \in 0 .. k
      BY <1>2
    <3> QED
      BY <2>3, <3>1, Zenon
  <2>5. f = [n \in 0 .. k |-> IF n = 0 THEN [cache |-> base, ok |-> TRUE] ELSE step(f[n - 1], n - 1)]
    <3>1. ASSUME NEW n \in 0 .. k, n # 0 PROVE step(g[n - 1], n - 1) = step(f[n - 1], n - 1)
      <4>1. n - 1 \in 0 .. k - 1
        BY <1>2, <3>1
      <4> QED
        BY <2>4, <4>1
    <3> QED
      BY <3>1
  <2> HIDE DEF f
  <2>6. Heads2(f, base, l, begin, toks, up, k)
    BY <2>5, Zenon DEF Heads2, step
  <2> QED
    BY <1>2, <2>6
<1> QED
  BY <1>3, <1>4

InTurn(f, base, l, begin, toks, up) ==
  /\ Bridge!LayerAppended(base, l, begin, toks, up) = f[NHeads]
  /\ f[0] = [cache |-> base, ok |-> TRUE]
  /\ \A n \in 1 .. NHeads :
       f[n] = IF Bridge!Stopped(f[n - 1]) THEN f[n - 1]
              ELSE Callback!AppendHead(f[n - 1].cache, <<l, n - 1>>, begin, toks, up[n - 1])

LEMMA Heads2Steps ==
  ASSUME NEW base, NEW l, NEW begin, NEW toks, NEW up
  PROVE  \E f : InTurn(f, base, l, begin, toks, up)
<1>1. \E f : Heads2(f, base, l, begin, toks, up, NHeads)
  BY CacheConstants, Heads2Exists
<1>2. PICK f : f = CHOOSE g : Heads2(g, base, l, begin, toks, up, NHeads)
  OBVIOUS
<1>3. Heads2(f, base, l, begin, toks, up, NHeads)
  BY <1>1, <1>2
<1>4. Bridge!LayerAppended(base, l, begin, toks, up) = f[NHeads]
  BY <1>2 DEF Bridge!LayerAppended, Heads2
<1>5. NHeads \in Nat \ {0}
  BY CacheConstants
<1>6. \A n \in 0 .. NHeads :
        f[n] = IF n = 0 THEN [cache |-> base, ok |-> TRUE]
               ELSE IF Bridge!Stopped(f[n - 1]) THEN f[n - 1]
               ELSE Bridge!AppendHead(f[n - 1].cache, <<l, n - 1>>, begin, toks, up[n - 1])
  BY <1>3, Zenon DEF Heads2
<1>7. 0 \in 0 .. NHeads /\ \A n \in 1 .. NHeads : n \in 0 .. NHeads /\ n # 0
  BY <1>5
<1>8. f[0] = [cache |-> base, ok |-> TRUE]
  BY <1>6, <1>7, Zenon
<1>9. \A n \in 1 .. NHeads :
        f[n] = IF Bridge!Stopped(f[n - 1]) THEN f[n - 1]
               ELSE Callback!AppendHead(f[n - 1].cache, <<l, n - 1>>, begin, toks, up[n - 1])
  BY <1>6, <1>7, SameCaches, Zenon
<1> QED
  BY <1>4, <1>8, <1>9 DEF InTurn

\* After the first m heads: those up to one of them hold more, the others what they held.
Reached(e, base, l, more, m) ==
  /\ e.cache \in KvCaches /\ e.ok \in BOOLEAN /\ (Counted(base) => Counted(e.cache))
  /\ \A t \in KvSlots : t[1] # l => Callback!HeldTokens(e.cache.heads[t]) = Callback!HeldTokens(base.heads[t])
  /\ \E k \in 0 .. m :
       /\ e.ok => k = m
       /\ \A h \in 0 .. NHeads - 1 :
            Callback!HeldTokens(e.cache.heads[<<l, h>>])
              = Callback!HeldTokens(base.heads[<<l, h>>]) + IF h < k THEN more ELSE 0

LEMMA ReachedStep ==
  ASSUME NEW base \in KvCaches, NEW l \in 0 .. NLayers - 1, NEW begin \in Nat, NEW toks \in Seq(KvToken), NEW u \in Nat,
         NEW m \in 0 .. NHeads - 1, NEW e, Reached(e, base, l, Len(toks), m), NEW r,
         r = IF Bridge!Stopped(e) THEN e ELSE Callback!AppendHead(e.cache, <<l, m>>, begin, toks, u)
  PROVE  Reached(r, base, l, Len(toks), m + 1)
<1>1. e.cache \in KvCaches /\ e.ok \in BOOLEAN /\ <<l, m>> \in KvSlots /\ m \in Nat /\ Len(toks) \in Nat
  BY CacheConstants DEF Reached, KvSlots
<1>2. PICK k \in 0 .. m :
       /\ e.ok => k = m
       /\ \A h \in 0 .. NHeads - 1 :
            Callback!HeldTokens(e.cache.heads[<<l, h>>])
              = Callback!HeldTokens(base.heads[<<l, h>>]) + IF h < k THEN Len(toks) ELSE 0
  BY DEF Reached
<1>3. k \in 0 .. m + 1 /\ k \in Nat
  BY <1>1
<1>4. CASE ~ e.ok
  <2>1. r = e
    BY <1>4 DEF Bridge!Stopped
  <2> QED
    BY <1>2, <1>3, <1>4, <2>1 DEF Reached
<1>5. CASE e.ok
  <2>1. k = m /\ r = Callback!AppendHead(e.cache, <<l, m>>, begin, toks, u)
    BY <1>2, <1>5 DEF Bridge!Stopped
  <2>2. PICK c \in KvCaches, s \in KvSlots : c = e.cache /\ s = <<l, m>>
    BY <1>1
  <2>3. /\ r.cache \in KvCaches /\ r.ok \in BOOLEAN /\ (Counted(c) => Counted(r.cache))
        /\ \A t \in KvSlots \ {s} : Callback!HeldTokens(r.cache.heads[t]) = Callback!HeldTokens(c.heads[t])
        /\ Callback!Contiguous(c.heads[s], begin) =>
             Callback!HeldTokens(r.cache.heads[s]) = Callback!HeldTokens(c.heads[s]) + Len(toks)
        /\ ~ Callback!Contiguous(c.heads[s], begin) => r.cache = c /\ ~ r.ok
    <3>1. Appended(c, s, begin, Len(toks), r)
      BY <2>1, <2>2, AppendKeeps
    <3> QED
      BY <3>1 DEF Appended
  <2>4. Counted(base) => Counted(r.cache)
    BY <2>2, <2>3 DEF Reached
  <2>5. ASSUME NEW t \in KvSlots, t[1] # l
        PROVE  Callback!HeldTokens(r.cache.heads[t]) = Callback!HeldTokens(base.heads[t])
    <3>1. t \in KvSlots \ {s} /\ Callback!HeldTokens(c.heads[t]) = Callback!HeldTokens(base.heads[t])
      BY <2>2, <2>5 DEF Reached
    <3> QED
      BY <2>3, <3>1
  <2>6. CASE ~ Callback!Contiguous(c.heads[s], begin)
    <3>1. r.cache = e.cache /\ ~ r.ok
      BY <2>2, <2>3, <2>6
    <3>2. \E i \in 0 .. m + 1 :
            /\ r.ok => i = m + 1
            /\ \A h \in 0 .. NHeads - 1 :
                 Callback!HeldTokens(r.cache.heads[<<l, h>>])
                   = Callback!HeldTokens(base.heads[<<l, h>>]) + IF h < i THEN Len(toks) ELSE 0
      BY <1>2, <1>3, <3>1, Zenon
    <3> QED
      BY <2>3, <2>4, <2>5, <3>2, Zenon DEF Reached
  <2>7. CASE Callback!Contiguous(c.heads[s], begin)
    <3>1. ASSUME NEW h \in 0 .. NHeads - 1
          PROVE  Callback!HeldTokens(r.cache.heads[<<l, h>>])
                   = Callback!HeldTokens(base.heads[<<l, h>>]) + IF h < m + 1 THEN Len(toks) ELSE 0
      <4>1. <<l, h>> \in KvSlots /\ h \in Nat
        <5>1. <<l, h>> \in KvSlots
          BY DEF KvSlots
        <5> QED
          BY ONLY <5>1, h \in 0 .. NHeads - 1
      <4>2. PICK a \in Nat : a = Callback!HeldTokens(base.heads[<<l, h>>])
        BY <4>1, CacheFields, HeadCounts
      <4>3. Callback!HeldTokens(c.heads[<<l, h>>]) = a + IF h < m THEN Len(toks) ELSE 0
        BY <1>2, <2>1, <2>2, <4>2
      <4>4. CASE h = m
        <5>1. Callback!HeldTokens(r.cache.heads[<<l, h>>]) = Callback!HeldTokens(c.heads[<<l, h>>]) + Len(toks)
          BY <2>2, <2>3, <2>7, <4>4
        <5>2. ~ (h < m) /\ h < m + 1
          BY <1>1, <4>4
        <5> QED
          BY <1>1, <4>2, <4>3, <5>1, <5>2
      <4>5. CASE h # m
        <5>1. <<l, h>> \in KvSlots \ {s}
          BY <2>2, <4>1, <4>5
        <5>2. Callback!HeldTokens(r.cache.heads[<<l, h>>]) = Callback!HeldTokens(c.heads[<<l, h>>])
          BY <2>3, <5>1
        <5>3. (h < m) <=> (h < m + 1)
          BY <1>1, <4>1, <4>5
        <5> QED
          BY <4>2, <4>3, <5>2, <5>3
      <4> QED
        BY <4>4, <4>5
    <3>2. m + 1 \in 0 .. m + 1
      BY <1>1
    <3> QED
      BY <2>3, <2>4, <2>5, <3>1, <3>2 DEF Reached
  <2> QED
    BY <2>6, <2>7
<1> QED
  BY <1>1, <1>4, <1>5

LEMMA LayerReaches ==
  ASSUME NEW base \in KvCaches, NEW l \in 0 .. NLayers - 1, NEW begin \in Nat, NEW toks \in Seq(KvToken),
         NEW up \in [0 .. NHeads - 1 -> Nat]
  PROVE  Reached(Bridge!LayerAppended(base, l, begin, toks, up), base, l, Len(toks), NHeads)
<1>0. PICK f : InTurn(f, base, l, begin, toks, up)
  BY Heads2Steps
<1>1. /\ Bridge!LayerAppended(base, l, begin, toks, up) = f[NHeads]
      /\ f[0] = [cache |-> base, ok |-> TRUE]
      /\ \A n \in 1 .. NHeads :
           f[n] = IF Bridge!Stopped(f[n - 1]) THEN f[n - 1]
                  ELSE Callback!AppendHead(f[n - 1].cache, <<l, n - 1>>, begin, toks, up[n - 1])
  BY <1>0 DEF InTurn
<1> DEFINE bad == {m \in 0 .. NHeads : ~ Reached(f[m], base, l, Len(toks), m)}
<1>2. NHeads \in Nat
  BY CacheConstants
<1>3. ASSUME bad # {} PROVE FALSE
  <2>1. bad \subseteq Nat
    BY <1>2
  <2>2. PICK m \in bad : \A n \in bad : m <= n
    BY <1>3, <2>1, LeastExists
  <2>3. m \in 0 .. NHeads /\ ~ Reached(f[m], base, l, Len(toks), m)
    BY <2>2
  <2>4. Reached(f[0], base, l, Len(toks), 0)
    <3>1. f[0].cache = base /\ f[0].ok = TRUE
      BY <1>1
    <3>2. ASSUME NEW h \in 0 .. NHeads - 1
          PROVE  Callback!HeldTokens(base.heads[<<l, h>>])
                   = Callback!HeldTokens(base.heads[<<l, h>>]) + IF h < 0 THEN Len(toks) ELSE 0
      <4>1. <<l, h>> \in KvSlots /\ ~ (h < 0)
        BY <1>2 DEF KvSlots
      <4>2. Callback!HeldTokens(base.heads[<<l, h>>]) \in Nat
        BY <4>1, CacheFields, HeadCounts
      <4> QED
        BY <4>1, <4>2
    <3>3. 0 \in 0 .. 0
      OBVIOUS
    <3> QED
      BY <3>1, <3>2, <3>3 DEF Reached
  <2>5. m # 0
    BY <2>3, <2>4
  <2>6. PICK k \in 0 .. NHeads - 1 : m = k + 1
    <3>1. m - 1 \in 0 .. NHeads - 1 /\ m = (m - 1) + 1
      BY <1>2, <2>3, <2>5
    <3> QED
      BY <3>1
  <2>7. k \in 0 .. NHeads /\ k < m /\ k + 1 \in 1 .. NHeads /\ (k + 1) - 1 = k
    BY <1>2, <2>3, <2>6
  <2>8. k \notin bad
    BY <1>2, <2>1, <2>2, <2>7
  <2>9. Reached(f[k], base, l, Len(toks), k)
    BY <2>7, <2>8
  <2>10. f[k + 1] = IF Bridge!Stopped(f[k]) THEN f[k]
                    ELSE Callback!AppendHead(f[k].cache, <<l, k>>, begin, toks, up[k])
    BY <1>1, <2>7
  <2>11. Reached(f[k + 1], base, l, Len(toks), k + 1)
    BY <2>9, <2>10, ReachedStep
  <2> QED
    BY <2>3, <2>6, <2>11
<1>4. NHeads \in 0 .. NHeads
  BY <1>2
<1> QED
  BY <1>1, <1>3, <1>4

-----------------------------------------------------------------------------
(* The bridge: what every head holds, and what is reported. *)

LEMMA TailHead ==
  ASSUME NEW h \in KvHead, NEW g, g = Bridge!TailCut(h)
  PROVE  /\ g \in KvHead /\ Callback!HeldTokens(g) = Callback!HeldTokens(h)
         /\ Callback!SealedTokens(g) = Callback!SealedTokens(h) + Len(h.active)
<1>1. h.begin \in Nat /\ h.active \in Seq(KvToken) /\ h.sealed \in Seq(KvPage) /\ Len(h.active) \in Nat
  BY HeadCounts
<1>2. PICK page \in KvPage : page = [begin |-> h.begin, toks |-> h.active]
  BY <1>1 DEF KvPage
<1>3. PICK q : q = <<page>> /\ q \in Seq(KvPage) /\ Len(q) = 1 /\ q[1] = page
  <2>1. Len(<<page>>) = 1 /\ <<page>>[1] = page
    OBVIOUS
  <2>2. <<page>> \in Seq(KvPage)
    BY <2>1
  <2> QED
    BY ONLY <2>1, <2>2
<1>4. g = [begin |-> 0, active |-> <<>>, sealed |-> Append(h.sealed, page)]
  BY <1>2, Zenon DEF Bridge!TailCut, Bridge!EmptyHead
<1>5. Append(h.sealed, page) = h.sealed \o q
  BY <1>1, <1>3, AppendIsConcat
<1>6. h.sealed \o q \in Seq(KvPage) /\ Len(q) = 1 /\ Len(q[1].toks) = Len(h.active)
  BY <1>1, <1>2, <1>3
<1>7. g \in KvHead /\ g.sealed = h.sealed \o q /\ Len(g.active) = 0
  BY <1>4, <1>5, <1>6 DEF KvHead
<1>8. SumFunction(SizesOf(h.sealed \o q)) = SumFunction(SizesOf(h.sealed)) + Len(h.active)
  <2>1. \A i \in 1 .. Len(q) : Len(q[i].toks) = Len(h.active)
    BY <1>6
  <2>2. SumFunction(SizesOf(h.sealed \o q)) = SumFunction(SizesOf(h.sealed)) + Len(q) * Len(h.active)
    BY <1>1, <1>3, <2>1, SizesGrow
  <2>3. Len(q) * Len(h.active) = Len(h.active)
    BY <1>1, <1>6
  <2> QED
    BY <2>2, <2>3
<1>9. Callback!SealedTokens(g) = Callback!SealedTokens(h) + Len(h.active)
  BY <1>7, <1>8, SealedIs
<1>10. Callback!HeldTokens(g) = Callback!HeldTokens(h)
  <2>1. /\ Callback!HeldTokens(g) = Callback!SealedTokens(g) + Len(g.active)
        /\ Callback!HeldTokens(h) = Callback!SealedTokens(h) + Len(h.active)
    BY <1>7, HeadCounts
  <2>2. Callback!SealedTokens(g) \in Nat
    BY <1>7, HeadCounts
  <2> QED
    BY <1>7, <1>9, <2>1, <2>2
<1> QED
  BY <1>7, <1>9, <1>10

\* Flushing, too, moves tokens behind pages and loses none.
LEMMA FlushKeeps ==
  ASSUME NEW c \in KvCaches, NEW u, NEW d, d = Bridge!FlushTails(c, u)
  PROVE  /\ d \in KvCaches /\ (Counted(c) => Counted(d))
         /\ \A s \in KvSlots : Callback!HeldTokens(d.heads[s]) = Callback!HeldTokens(c.heads[s])
<1> DEFINE tails == {s \in KvSlots : c.heads[s].active # <<>>}
<1>1. PICK done : done = {s \in tails : Bridge!Cardinality(tails \cap Bridge!Earlier(s)) < u}
  OBVIOUS
<1>2. PICK long : long = [s \in KvSlots |-> Len(c.heads[s].active)]
  OBVIOUS
<1>3. d = [ heads    |-> [s \in KvSlots |-> IF s \in done THEN Bridge!TailCut(c.heads[s]) ELSE c.heads[s]],
            appended |-> c.appended,
            sealed   |-> c.sealed + SumFunctionOnSet(long, done) ]
  BY <1>1, <1>2, KvSlotsAre, BridgeSums DEF Bridge!FlushTails
<1>4. done \subseteq KvSlots
  BY <1>1
<1>5. /\ d.heads = [s \in KvSlots |-> IF s \in done THEN Bridge!TailCut(c.heads[s]) ELSE c.heads[s]]
      /\ d.appended = c.appended /\ d.sealed = c.sealed + SumFunctionOnSet(long, done)
      /\ d = [heads |-> d.heads, appended |-> d.appended, sealed |-> d.sealed]
  BY <1>3
<1>6. ASSUME NEW s \in KvSlots
      PROVE  /\ d.heads[s] \in KvHead /\ Callback!HeldTokens(d.heads[s]) = Callback!HeldTokens(c.heads[s])
             /\ Callback!SealedTokens(c.heads[s]) \in Nat /\ long[s] \in Nat
             /\ Callback!SealedTokens(d.heads[s])
                  = Callback!SealedTokens(c.heads[s]) + IF s \in done THEN long[s] ELSE 0
  <2>1. c.heads[s] \in KvHead
    BY CacheFields
  <2>2. long[s] = Len(c.heads[s].active) /\ long[s] \in Nat /\ Callback!SealedTokens(c.heads[s]) \in Nat
    BY <1>2, <2>1, HeadCounts
  <2>3. CASE s \in done
    <3>1. d.heads[s] = Bridge!TailCut(c.heads[s])
      BY <1>5, <2>3
    <3> QED
      BY <2>1, <2>2, <2>3, <3>1, TailHead
  <2>4. CASE s \notin done
    <3>1. d.heads[s] = c.heads[s]
      BY <1>5, <2>4
    <3> QED
      BY <2>1, <2>2, <2>4, <3>1
  <2> QED
    BY <2>3, <2>4
<1>7. SumFunctionOnSet(long, done) \in Nat
  BY <1>4, <1>6, KvSlotsAre, SumPart
<1>8. d \in KvCaches
  <2>1. d.heads \in [KvSlots -> KvHead]
    BY <1>5, <1>6
  <2>2. d.appended \in Nat /\ d.sealed \in Nat
    BY <1>5, <1>7, CacheFields
  <2> QED
    BY <1>5, <2>1, <2>2 DEF KvCaches
<1>9. ASSUME Counted(c) PROVE Counted(d)
  <2>1. HeldIn(d) = HeldIn(c)
    BY <1>6 DEF HeldIn
  <2>2. PICK f, g : f = SealedIn(c) /\ g = SealedIn(d)
    OBVIOUS
  <2>3. /\ DOMAIN f = KvSlots /\ DOMAIN g = KvSlots
        /\ \A s \in KvSlots : f[s] = Callback!SealedTokens(c.heads[s]) /\ g[s] = Callback!SealedTokens(d.heads[s])
    BY <2>2 DEF SealedIn
  <2>4. \A s \in KvSlots : f[s] \in Nat /\ long[s] \in Nat /\ g[s] = f[s] + IF s \in done THEN long[s] ELSE 0
    BY <1>6, <2>3
  <2>5. PICK rest : rest = KvSlots \ done
    OBVIOUS
  <2>6. /\ KvSlots = done \cup rest /\ done \cap rest = {}
        /\ IsFiniteSet(done) /\ IsFiniteSet(rest) /\ rest \subseteq KvSlots
    BY <1>4, <2>5, KvSlotsAre, FS_Subset
  <2>7. (\A s \in done : g[s] = f[s] + long[s]) /\ (\A s \in rest : g[s] = f[s])
    BY <1>4, <2>4, <2>5
  <2>8. SumFunctionOnSet(g, done) = SumFunctionOnSet(f, done) + SumFunctionOnSet(long, done)
    <3>1. \A s \in done : f[s] \in Nat /\ long[s] \in Nat /\ g[s] = f[s] + 1 * long[s]
      BY <1>4, <2>4, <2>7
    <3>2. SumFunctionOnSet(g, done) = SumFunctionOnSet(f, done) + 1 * SumFunctionOnSet(long, done)
      BY ONLY <2>6, <3>1, SumLinear
    <3> QED
      BY <1>7, <3>2
  <2>9. SumFunctionOnSet(g, rest) = SumFunctionOnSet(f, rest)
    BY <2>6, <2>7, SumAgrees
  <2>10. \A s \in KvSlots : f[s] \in Nat /\ g[s] \in Nat
    BY <1>6, <1>8, <2>3, <2>4, CacheFields, HeadCounts
  <2>11. /\ SumFunctionOnSet(f, KvSlots) = SumFunctionOnSet(f, done) + SumFunctionOnSet(f, rest)
         /\ SumFunctionOnSet(g, KvSlots) = SumFunctionOnSet(g, done) + SumFunctionOnSet(g, rest)
         /\ SumFunctionOnSet(f, done) \in Nat /\ SumFunctionOnSet(f, rest) \in Nat
    <3>1. \A s \in done \cup rest : f[s] \in Nat /\ g[s] \in Nat
      BY <2>6, <2>10
    <3> QED
      BY <2>6, <3>1, SumJoins
  <2>12. SumFunctionOnSet(g, KvSlots) = SumFunctionOnSet(f, KvSlots) + SumFunctionOnSet(long, done)
    BY ONLY <1>7, <2>8, <2>9, <2>11
  <2>13. SumFunction(SealedIn(d)) = SumFunction(SealedIn(c)) + SumFunctionOnSet(long, done)
    BY <2>2, <2>3, <2>12 DEF SumFunction
  <2> QED
    BY <1>5, <1>9, <2>1, <2>13 DEF Counted
<1> QED
  BY <1>6, <1>8, <1>9

\* No head holds less than is reported, nor more than the head before it.
Stepped(c, counts) ==
  \A l \in 0 .. NLayers - 1, h \in 0 .. NHeads - 1 :
    /\ Callback!HeldTokens(c.heads[<<l, h>>]) >= counts[l]
    /\ h > 0 => Callback!HeldTokens(c.heads[<<l, h>>]) <= Callback!HeldTokens(c.heads[<<l, h - 1>>])

BridgeInv ==
  /\ cache \in KvCaches /\ Counted(cache) /\ made \in Nat
  /\ reported \in [0 .. NLayers - 1 -> Nat] /\ Stepped(cache, reported)

LEMMA SameHeld ==
  ASSUME NEW c, NEW d, NEW counts, Stepped(c, counts),
         \A s \in KvSlots : Callback!HeldTokens(d.heads[s]) = Callback!HeldTokens(c.heads[s])
  PROVE  Stepped(d, counts)
<1> SUFFICES ASSUME NEW l \in 0 .. NLayers - 1, NEW h \in 0 .. NHeads - 1
             PROVE  /\ Callback!HeldTokens(d.heads[<<l, h>>]) >= counts[l]
                    /\ h > 0 => Callback!HeldTokens(d.heads[<<l, h>>]) <= Callback!HeldTokens(d.heads[<<l, h - 1>>])
  BY DEF Stepped
<1>1. <<l, h>> \in KvSlots /\ (h > 0 => <<l, h - 1>> \in KvSlots)
  BY CacheConstants DEF KvSlots
<1> QED
  BY <1>1 DEF Stepped

LEMMA EmptyBridge ==
  ASSUME NEW c, c = Bridge!EmptyCache, NEW counts, counts = [l \in 0 .. NLayers - 1 |-> 0]
  PROVE  /\ c \in KvCaches /\ Counted(c) /\ Stepped(c, counts) /\ counts \in [0 .. NLayers - 1 -> Nat]
<1>1. c \in KvCaches /\ Counted(c) /\ \A s \in KvSlots : Callback!HeldTokens(c.heads[s]) = 0
  BY SameCaches, EmptyIsRegular
<1>2. ASSUME NEW l \in 0 .. NLayers - 1, NEW h \in 0 .. NHeads - 1
      PROVE  /\ Callback!HeldTokens(c.heads[<<l, h>>]) >= counts[l]
             /\ h > 0 => Callback!HeldTokens(c.heads[<<l, h>>]) <= Callback!HeldTokens(c.heads[<<l, h - 1>>])
  <2>1. <<l, h>> \in KvSlots /\ (h > 0 => <<l, h - 1>> \in KvSlots)
    BY CacheConstants DEF KvSlots
  <2> QED
    BY <1>1, <2>1
<1> QED
  BY <1>1, <1>2 DEF Stepped

LEMMA HandedType ==
  ASSUME NEW n \in Nat, NEW m \in Nat
  PROVE  /\ [i \in 1 .. n |-> [k |-> m + i, v |-> m + i]] \in Seq(KvToken)
         /\ Len([i \in 1 .. n |-> [k |-> m + i, v |-> m + i]]) = n
<1>1. \A i \in 1 .. n : [k |-> m + i, v |-> m + i] \in KvToken
  BY DEF KvToken
<1> QED
  BY <1>1

LEMMA UnfailingType ==
  ASSUME cache \in KvCaches
  PROVE  Bridge!Unfailing \in Nat
<1>1. <<0, 0>> \in KvSlots
  BY CacheConstants DEF KvSlots
<1>2. Callback!Pending(cache, Callback!Slots) \in Nat
  BY <1>1, CutsOfFull
<1>3. Bridge!Pending(cache, Bridge!Slots) = Callback!Pending(cache, Callback!Slots)
  BY KvSlotsAre, CallbackSums, BridgeSums DEF Bridge!Pending, Callback!Pending, Bridge!FullPages, Callback!FullPages
<1>4. NHeads * MaxBatch \in Nat
  BY CacheConstants
<1> QED
  BY <1>2, <1>3, <1>4 DEF Bridge!Unfailing

\* The append of a layer, up to the first head that fails.
LEMMA BridgeAppends ==
  ASSUME BridgeInv, NEW l \in 0 .. NLayers - 1, NEW n \in 1 .. MaxBatch, NEW begin \in Nat, NEW failing, NEW u \in Nat,
         Bridge!BridgeAppend(l, begin, n, failing, u)
  PROVE  BridgeInv'
<1>1. PICK toks : toks = [i \in 1 .. n |-> [k |-> made + i, v |-> made + i]]
  OBVIOUS
<1>2. toks \in Seq(KvToken) /\ Len(toks) = n /\ n \in Nat /\ made \in Nat
  <2>1. n \in Nat /\ made \in Nat
    BY CacheConstants DEF BridgeInv
  <2> QED
    BY <1>1, <2>1, HandedType
<1>3. PICK up : up = [h \in 0 .. NHeads - 1 |-> IF h = failing THEN u ELSE Bridge!Unfailing]
  OBVIOUS
<1>4. PICK done : done = Bridge!LayerAppended(cache, l, begin, toks, up)
  OBVIOUS
<1>5. /\ cache' = done.cache /\ made' = made + n
      /\ reported' = [reported EXCEPT ![l] = reported[l] + (IF done.ok THEN n ELSE 0)]
  BY <1>1, <1>3, <1>4, KvSlotsAre, Zenon DEF Bridge!BridgeAppend
<1>6. cache \in KvCaches /\ Counted(cache) /\ reported \in [0 .. NLayers - 1 -> Nat] /\ Stepped(cache, reported)
  BY DEF BridgeInv
<1>7. Bridge!Unfailing \in Nat
  BY <1>6, UnfailingType
<1>8. up \in [0 .. NHeads - 1 -> Nat]
  BY <1>3, <1>7
<1>9. Reached(done, cache, l, n, NHeads)
  BY <1>2, <1>4, <1>6, <1>8, LayerReaches
<1>10. PICK k \in 0 .. NHeads :
         /\ done.ok => k = NHeads
         /\ \A h \in 0 .. NHeads - 1 :
              Callback!HeldTokens(done.cache.heads[<<l, h>>])
                = Callback!HeldTokens(cache.heads[<<l, h>>]) + IF h < k THEN n ELSE 0
  BY <1>9 DEF Reached
<1>11. /\ done.cache \in KvCaches /\ done.ok \in BOOLEAN /\ Counted(done.cache)
       /\ \A t \in KvSlots : t[1] # l => Callback!HeldTokens(done.cache.heads[t]) = Callback!HeldTokens(cache.heads[t])
  BY <1>6, <1>9 DEF Reached
<1>12. PICK more \in Nat : more = IF done.ok THEN n ELSE 0
  BY <1>2
<1>13. reported' = [reported EXCEPT ![l] = reported[l] + more] /\ reported' \in [0 .. NLayers - 1 -> Nat]
  BY <1>5, <1>6, <1>12
<1>14. ASSUME NEW i \in 0 .. NLayers - 1, NEW h \in 0 .. NHeads - 1
       PROVE  /\ Callback!HeldTokens(done.cache.heads[<<i, h>>]) >= reported'[i]
              /\ h > 0 => Callback!HeldTokens(done.cache.heads[<<i, h>>]) <= Callback!HeldTokens(done.cache.heads[<<i, h - 1>>])
  <2>1. <<i, h>> \in KvSlots /\ h \in Nat /\ (h > 0 => h - 1 \in 0 .. NHeads - 1 /\ <<i, h - 1>> \in KvSlots)
    BY CacheConstants DEF KvSlots
  <2>2. PICK a, r \in Nat : a = Callback!HeldTokens(cache.heads[<<i, h>>]) /\ r = reported[i] /\ a >= r
    <3>1. Callback!HeldTokens(cache.heads[<<i, h>>]) \in Nat
      BY <1>6, <2>1, CacheFields, HeadCounts
    <3> QED
      BY <1>6, <3>1 DEF Stepped
  <2>3. CASE i # l
    <3>1. reported'[i] = r /\ Callback!HeldTokens(done.cache.heads[<<i, h>>]) = a
      BY <1>6, <1>11, <1>13, <2>1, <2>2, <2>3
    <3>2. h > 0 => Callback!HeldTokens(done.cache.heads[<<i, h - 1>>]) = Callback!HeldTokens(cache.heads[<<i, h - 1>>])
      <4>1. ASSUME NEW t \in KvSlots, t[1] # l
            PROVE  Callback!HeldTokens(done.cache.heads[t]) = Callback!HeldTokens(cache.heads[t])
        BY <1>11, <4>1
      <4>2. h > 0 => <<i, h - 1>> \in KvSlots /\ <<i, h - 1>>[1] # l
        BY <2>1, <2>3
      <4> QED
        BY <4>1, <4>2
    <3>3. h > 0 => a <= Callback!HeldTokens(cache.heads[<<i, h - 1>>])
      BY <1>6, <2>2 DEF Stepped
    <3> QED
      BY <2>2, <3>1, <3>2, <3>3
  <2>4. CASE i = l
    <3>1. reported'[i] = r + more
      BY <1>6, <1>13, <2>2, <2>4
    <3>2. Callback!HeldTokens(done.cache.heads[<<i, h>>]) = a + IF h < k THEN n ELSE 0
      BY <1>10, <2>2, <2>4
    <3>3. done.ok => h < k
      BY <1>10, <2>1, CacheConstants
    <3>4. Callback!HeldTokens(done.cache.heads[<<i, h>>]) >= reported'[i]
      BY <1>2, <1>12, <2>2, <3>1, <3>2, <3>3
    <3>5. ASSUME h > 0
          PROVE  Callback!HeldTokens(done.cache.heads[<<i, h>>]) <= Callback!HeldTokens(done.cache.heads[<<i, h - 1>>])
      <4>1. PICK j \in 0 .. NHeads - 1 : j = h - 1 /\ <<i, j>> \in KvSlots
        BY <2>1, <3>5
      <4>2. PICK b \in Nat : b = Callback!HeldTokens(cache.heads[<<i, j>>])
        BY <1>6, <4>1, CacheFields, HeadCounts
      <4>3. a <= b
        BY <1>6, <2>2, <3>5, <4>1, <4>2 DEF Stepped
      <4>4. Callback!HeldTokens(done.cache.heads[<<i, j>>]) = b + IF j < k THEN n ELSE 0
        BY <1>10, <2>4, <4>1, <4>2
      <4>5. h < k => j < k
        BY <1>10, <2>1, <4>1, CacheConstants
      <4>6. PICK x, y \in Nat : x = (IF h < k THEN n ELSE 0) /\ y = (IF j < k THEN n ELSE 0) /\ x <= y
        BY <1>2, <4>5
      <4>7. a + x <= b + y
        BY <4>3, <4>6
      <4> QED
        BY <3>2, <4>1, <4>4, <4>6, <4>7
    <3> QED
      BY <3>4, <3>5
  <2> QED
    BY <2>3, <2>4
<1>15. Stepped(cache', reported')
  BY <1>5, <1>14 DEF Stepped
<1>16. cache' \in KvCaches /\ Counted(cache') /\ made' \in Nat
  BY <1>2, <1>5, <1>11
<1> QED
  BY <1>13, <1>15, <1>16, Zenon DEF BridgeInv

LEMMA BridgeStart == Bridge!BridgeInit => BridgeInv
<1> SUFFICES ASSUME Bridge!BridgeInit PROVE BridgeInv
  OBVIOUS
<1>1. cache = Bridge!EmptyCache /\ reported = [l \in 0 .. NLayers - 1 |-> 0] /\ made = 0
  BY KvSlotsAre DEF Bridge!BridgeInit
<1> QED
  BY <1>1, EmptyBridge DEF BridgeInv

LEMMA BridgeStep ==
  ASSUME BridgeInv, Bridge!BridgeNext
  PROVE  BridgeInv'
<1>0. cache \in KvCaches /\ Counted(cache) /\ made \in Nat /\ Stepped(cache, reported)
      /\ reported \in [0 .. NLayers - 1 -> Nat]
  BY DEF BridgeInv
<1>1. \A u \in Bridge!Uploads : u \in Nat
  BY <1>0, UnfailingType, CacheConstants DEF Bridge!Uploads
<1>2. ASSUME NEW l \in Bridge!LayerRange, NEW n \in 1 .. MaxBatch, NEW begin \in 0 .. MaxHanded,
             NEW failing \in Bridge!Heads, NEW u \in Bridge!Uploads, Bridge!BridgeAppend(l, begin, n, failing, u)
      PROVE  BridgeInv'
  <2>1. l \in 0 .. NLayers - 1 /\ begin \in Nat /\ u \in Nat
    BY <1>1, KvSlotsAre, CacheConstants
  <2> QED
    BY <1>2, <2>1, BridgeAppends
<1>3. ASSUME NEW u \in Bridge!Uploads, Bridge!BridgeSeal(u) PROVE BridgeInv'
  <2>1. cache' = Callback!SealFullPages(cache, u) /\ reported' = reported /\ made' = made /\ u \in Nat
    BY <1>1, <1>3, SameCaches DEF Bridge!BridgeSeal
  <2>2. Resealed(cache, u, cache')
    BY <1>0, <2>1, SealKeeps
  <2>3. cache' \in KvCaches /\ Counted(cache') /\ Stepped(cache', reported)
    BY <1>0, <2>2, SameHeld DEF Resealed
  <2> QED
    BY <1>0, <2>1, <2>3 DEF BridgeInv
<1>4. ASSUME NEW u \in Bridge!Uploads, Bridge!BridgeFlush(u) PROVE BridgeInv'
  <2>1. PICK w : cache' = Bridge!FlushTails(cache, w) /\ reported' = reported /\ made' = made
    BY <1>4 DEF Bridge!BridgeFlush
  <2>2. /\ cache' \in KvCaches /\ Counted(cache')
        /\ \A s \in KvSlots : Callback!HeldTokens(cache'.heads[s]) = Callback!HeldTokens(cache.heads[s])
    BY <1>0, <2>1, FlushKeeps
  <2>3. Stepped(cache', reported)
    BY <1>0, <2>2, SameHeld
  <2> QED
    BY <1>0, <2>1, <2>2, <2>3 DEF BridgeInv
<1>5. CASE Bridge!BridgeClear
  <2>1. cache' = Bridge!EmptyCache /\ reported' = [l \in 0 .. NLayers - 1 |-> 0] /\ made' = made
    BY <1>5, KvSlotsAre DEF Bridge!BridgeClear
  <2> QED
    BY <1>0, <2>1, EmptyBridge DEF BridgeInv
<1> QED
  BY <1>2, <1>3, <1>4, <1>5, Zenon DEF Bridge!BridgeNext

LEMMA BridgeExact ==
  ASSUME BridgeInv
  PROVE  Bridge!ReportedHeld /\ Callback!StatsExact
<1>1. Bridge!ReportedHeld
  BY KvSlotsAre, SameCaches DEF BridgeInv, Stepped, Bridge!ReportedHeld, Bridge!Held
<1> QED
  BY <1>1, KvSlotsAre, CallbackSums DEF BridgeInv, Callback!StatsExact, Counted, HeldIn, SealedIn

-----------------------------------------------------------------------------
(* Both clients of the cache. *)

KvInv == (engine = "callback" => CallbackInv) /\ (engine = "bridge" => BridgeInv)

LEMMA KvStarts ==
  ASSUME DeviceInit
  PROVE  KvInv
  BY CallbackStart, BridgeStart DEF DeviceInit, KvInv

LEMMA KvKept ==
  ASSUME KvInv, [DeviceNext]_deviceVars
  PROVE  KvInv' /\ (engine = "callback" => Callback!Recovers)
<1>1. CASE UNCHANGED deviceVars
  <2>1. UNCHANGED <<engine, cache, made, real, pass, pend, tok, errors, reported>>
    BY <1>1 DEF deviceVars, kvVars, passVars
  <2>2. engine = "callback" => CallbackInv'
    BY <2>1 DEF KvInv, CallbackInv
  <2>3. engine = "bridge" => BridgeInv'
    BY <2>1 DEF KvInv, BridgeInv
  <2> QED
    BY <2>1, <2>2, <2>3 DEF KvInv, Callback!Recovers
<1>2. CASE DeviceNext
  <2>1. engine' = engine
    BY <1>2 DEF DeviceNext
  <2>2. ASSUME engine = "callback" PROVE CallbackInv' /\ Callback!Recovers
    <3>1. CallbackInv /\ Callback!CallbackNext
      BY <1>2, <2>2 DEF DeviceNext, KvInv
    <3> QED
      BY <3>1, CallbackStep, KvSlotsAre DEF Callback!Recovers
  <2>3. ASSUME engine = "bridge" PROVE BridgeInv'
    <3>1. BridgeInv /\ Bridge!BridgeNext
      BY <1>2, <2>3 DEF DeviceNext, KvInv
    <3> QED
      BY <3>1, BridgeStep
  <2> QED
    BY <2>1, <2>2, <2>3 DEF KvInv
<1> QED
  BY <1>1, <1>2

\* Whatever uploads fail, the statistics are the tokens held, under both clients
\* and for any layers, heads and page size.
THEOREM StatsHeld == DeviceSpec => []StatsExact
<1>1. DeviceSpec => []KvInv
  BY KvStarts, KvKept, PTL DEF DeviceSpec
<1>2. KvInv => StatsExact
  BY CallbackExact, BridgeExact DEF KvInv, StatsExact
<1> QED
  BY <1>1, <1>2, PTL

\* The callback's heads hold the positions up to what it counts, in order and
\* without a gap; the bridge's hold at least what it reported.
THEOREM ClientsStay == DeviceSpec => []ClientsInStep
<1>1. DeviceSpec => []KvInv
  BY KvStarts, KvKept, PTL DEF DeviceSpec
<1>2. KvInv => ClientsInStep
  BY CallbackExact, BridgeExact DEF KvInv, ClientsInStep
<1> QED
  BY <1>1, <1>2, PTL

\* An append of the callback's that meets no error leaves no full page behind,
\* those that an earlier failure left included.
THEOREM Recovery == DeviceSpec => AppendRecovers
<1>1. KvInv /\ [DeviceNext]_deviceVars => KvInv' /\ [engine = "callback" => Callback!Recovers]_deviceVars
  BY KvKept
<1> QED
  BY <1>1, KvStarts, PTL DEF DeviceSpec, AppendRecovers

-----------------------------------------------------------------------------
(* The tokens themselves: what a head holds of a sequence f. *)

LEMMA JoinParts ==
  ASSUME NEW S, NEW a \in Seq(S), NEW b \in Seq(S)
  PROVE  /\ a \o b \in Seq(S) /\ Len(a \o b) = Len(a) + Len(b)
         /\ \A i \in 1 .. Len(a) : (a \o b)[i] = a[i]
         /\ \A i \in 1 .. Len(b) : (a \o b)[Len(a) + i] = b[i]
<1>1. PICK m, n \in Nat : m = Len(a) /\ n = Len(b)
  OBVIOUS
<1>2. ASSUME NEW i \in 1 .. n PROVE (a \o b)[m + i] = b[i]
  <2>1. PICK k \in m + 1 .. m + n : k = m + i /\ k - m = i
    OBVIOUS
  <2>2. (a \o b)[k] = b[k - m]
    BY <1>1, <2>1
  <2> QED
    BY <2>1, <2>2
<1> QED
  BY <1>1, <1>2

LEMMA SubParts ==
  ASSUME NEW S, NEW a \in Seq(S), NEW from \in Nat, NEW to \in Nat, from <= to, to <= Len(a)
  PROVE  /\ SubSeq(a, from + 1, to) \in Seq(S) /\ Len(SubSeq(a, from + 1, to)) = to - from
         /\ \A j \in 1 .. to - from : SubSeq(a, from + 1, to)[j] = a[from + j]
<1>1. PICK m \in Nat : m = Len(a)
  OBVIOUS
<1>2. from + 1 \in 1 .. m + 1 /\ to \in from .. m
  BY <1>1
<1>3. \A i \in from + 1 .. to : a[i] \in S
  BY <1>1
<1>4. SubSeq(a, from + 1, to) = [j \in 1 .. to - from |-> a[from + j]]
  BY <1>1, <1>2
<1> QED
  BY <1>3, <1>4

Carries(h, f) ==
  /\ f \in Seq(KvToken) /\ Regular(h, Len(f))
  /\ \A i \in 1 .. Len(h.sealed), j \in 1 .. PageSize : h.sealed[i].toks[j] = f[(i - 1) * PageSize + j]
  /\ \A j \in 1 .. Len(h.active) : h.active[j] = f[h.begin + j]

\* Cutting pages off a tail leaves the head the tokens it held.
LEMMA CutFills ==
  ASSUME NEW h \in KvHead, NEW p \in 0 .. Callback!FullPages(h), NEW g, g = Callback!CutPages(h, p),
         NEW f, Carries(h, f)
  PROVE  Carries(g, f)
<1>1. /\ f \in Seq(KvToken) /\ Regular(h, Len(f)) /\ Regular(g, Len(f))
      /\ \A i \in 1 .. Len(h.sealed), j \in 1 .. PageSize : h.sealed[i].toks[j] = f[(i - 1) * PageSize + j]
      /\ \A j \in 1 .. Len(h.active) : h.active[j] = f[h.begin + j]
  BY CutRegular DEF Carries
<1>2. /\ g \in KvHead /\ g.begin = h.begin + p * PageSize /\ Len(g.active) = Len(h.active) - p * PageSize
      /\ g.sealed = h.sealed \o NewPages(h, p)
  BY CutHead
<1>3. /\ p \in Nat /\ PageSize \in Nat \ {0} /\ p * PageSize \in Nat /\ p * PageSize <= Len(h.active)
      /\ h.begin \in Nat /\ h.active \in Seq(KvToken) /\ h.sealed \in Seq(KvPage) /\ Len(h.active) \in Nat
  BY FullPagesOf, HeadCounts
<1>4. PICK m, size, cut, more \in Nat :
        m = Len(h.sealed) /\ size = PageSize /\ cut = p * PageSize /\ more = Len(h.active) /\ cut <= more
  <2>1. Len(h.sealed) \in Nat
    BY <1>3
  <2> QED
    BY <1>3, <2>1, Zenon
<1>5. PICK old, new \in Seq(KvPage) : old = h.sealed /\ new = NewPages(h, p)
  BY <1>3, NewPagesAre
<1>6. Len(old) = m /\ Len(new) = p /\ g.sealed = old \o new
  BY <1>2, <1>4, <1>5, NewPagesAre
<1>7. /\ Len(g.sealed) = m + p
      /\ \A i \in 1 .. m : g.sealed[i] = old[i]
      /\ \A i \in 1 .. p : g.sealed[m + i] = new[i]
  <2>1. /\ Len(old \o new) = Len(old) + Len(new)
        /\ \A i \in 1 .. Len(old) : (old \o new)[i] = old[i]
        /\ \A i \in 1 .. Len(new) : (old \o new)[Len(old) + i] = new[i]
    BY JoinParts
  <2> QED
    BY <1>6, <2>1, Zenon
<1>8. h.begin = m * size
  BY <1>1, <1>4 DEF Regular
<1>9. g.active = SubSeq(h.active, cut + 1, more)
  BY <1>4 DEF Callback!CutPages
<1>10. ASSUME NEW j \in 1 .. Len(g.active) PROVE g.active[j] = f[g.begin + j]
  <2>1. j \in 1 .. more - cut
    BY <1>2, <1>4
  <2>2. g.active[j] = h.active[cut + j] /\ cut + j \in 1 .. more
    <3>1. SubSeq(h.active, cut + 1, more)[j] = h.active[cut + j]
      BY <1>3, <1>4, <2>1, SubParts
    <3>2. cut + j \in 1 .. more
      BY ONLY <1>4, <2>1, cut \in Nat, more \in Nat
    <3> QED
      BY <1>9, <3>1, <3>2
  <2>3. g.active[j] = f[h.begin + (cut + j)]
    BY <1>1, <1>4, <2>2
  <2>4. h.begin + (cut + j) = g.begin + j
    BY <1>2, <1>3, <1>4
  <2> QED
    BY <2>3, <2>4
<1>11. ASSUME NEW i \in 1 .. p, NEW j \in 1 .. PageSize PROVE new[i].toks[j] = f[(m + i - 1) * PageSize + j]
  <2>1. PICK a \in Nat : a = (i - 1) * size /\ i * size = a + size /\ a + size <= cut /\ (m + i - 1) * size = m * size + a
    <3>1. PICK n \in Nat : n = i - 1 /\ i = n + 1 /\ i <= p
      BY <1>3
    <3>2. (n + 1) * size = n * size + size /\ (m + n) * size = m * size + n * size /\ n * size \in Nat
      BY ONLY n \in Nat, m \in Nat, size \in Nat
    <3>3. i * size <= p * size
      BY <1>3, <1>4, <3>1, Monotone
    <3>4. m + i - 1 = m + n
      BY <3>1
    <3> QED
      BY <1>4, <3>1, <3>2, <3>3, <3>4
  <2>2. new[i].toks = SubSeq(h.active, a + 1, a + size)
    <3>1. new[i] = [begin |-> h.begin + (i - 1) * PageSize, toks |-> SubSeq(h.active, (i - 1) * PageSize + 1, i * PageSize)]
      BY <1>5, Zenon DEF NewPages
    <3>2. (i - 1) * PageSize = a /\ i * PageSize = a + size
      BY <1>4, <2>1
    <3>3. new[i] = [begin |-> h.begin + a, toks |-> SubSeq(h.active, a + 1, a + size)]
      BY <3>1, <3>2, Zenon
    <3> QED
      BY ONLY <3>3
  <2>3. new[i].toks[j] = h.active[a + j] /\ a + j \in 1 .. more
    <3>1. j \in 1 .. size /\ a + size <= cut
      BY <1>4, <2>1
    <3>2. /\ a + j \in 1 .. more /\ a <= a + size /\ a + size <= more /\ a + size \in Nat
          /\ (a + size) - a = size
      BY <1>4, <3>1
    <3>3. SubSeq(h.active, a + 1, a + size)[j] = h.active[a + j]
      BY <1>3, <1>4, <3>1, <3>2, SubParts
    <3> QED
      BY <2>2, <3>2, <3>3
  <2>4. new[i].toks[j] = f[h.begin + (a + j)]
    BY <1>1, <1>4, <2>3
  <2>5. h.begin + (a + j) = (m + i - 1) * PageSize + j
    <3>1. PICK b \in Nat : b = m * size
      BY <1>4
    <3>2. h.begin = b /\ (m + i - 1) * PageSize = b + a
      BY <1>4, <1>8, <2>1, <3>1
    <3>3. j \in Nat
      BY <1>3
    <3>4. b + (a + j) = (b + a) + j
      BY ONLY <3>3, b \in Nat, a \in Nat
    <3> QED
      BY <3>2, <3>4, Zenon
  <2> QED
    BY <2>4, <2>5
<1>12. ASSUME NEW i \in 1 .. Len(g.sealed), NEW j \in 1 .. PageSize
       PROVE  g.sealed[i].toks[j] = f[(i - 1) * PageSize + j]
  <2>1. CASE i <= m
    <3>1. i \in 1 .. m
      BY <1>4, <1>7, <2>1
    <3> QED
      BY <1>1, <1>4, <1>5, <1>7, <3>1
  <2>2. CASE ~ (i <= m)
    <3>1. PICK n \in 1 .. p : i = m + n
      <4>1. i - m \in 1 .. p /\ i = m + (i - m)
        BY <1>3, <1>4, <1>7, <2>2
      <4> QED
        BY <4>1
    <3>2. g.sealed[i].toks[j] = f[(m + n - 1) * PageSize + j]
      BY <1>7, <1>11, <3>1
    <3> QED
      BY <3>1, <3>2
  <2> QED
    BY <2>1, <2>2
<1> QED
  BY <1>1, <1>10, <1>12 DEF Carries

\* An append at the end of a head puts its tokens after those it held.
LEMMA GrowFills ==
  ASSUME NEW h \in KvHead, NEW f, Carries(h, f), NEW toks \in Seq(KvToken),
         NEW g, g = Callback!Grown(h, Len(f), toks)
  PROVE  Callback!Contiguous(h, Len(f)) /\ g \in KvHead /\ Carries(g, f \o toks)
<1>1. /\ f \in Seq(KvToken) /\ Regular(h, Len(f)) /\ Len(f) \in Nat
      /\ \A i \in 1 .. Len(h.sealed), j \in 1 .. PageSize : h.sealed[i].toks[j] = f[(i - 1) * PageSize + j]
      /\ \A j \in 1 .. Len(h.active) : h.active[j] = f[h.begin + j]
  BY DEF Carries
<1>2. PICK n, more, m, held \in Nat : n = Len(f) /\ more = Len(toks) /\ m = Len(h.sealed) /\ held = Len(h.active)
  <2>1. h.sealed \in Seq(KvPage) /\ Len(h.active) \in Nat
    BY HeadCounts
  <2>2. Len(h.sealed) \in Nat /\ Len(toks) \in Nat
    BY <2>1
  <2> QED
    BY <1>1, <2>1, <2>2, Zenon
<1>3. /\ Callback!Contiguous(h, n) /\ Regular(g, n + more)
      /\ g \in KvHead /\ g.sealed = h.sealed
      /\ g.begin = IF h.active = <<>> THEN n ELSE h.begin
  <2>1. n \in Nat /\ g = Callback!Grown(h, n, toks) /\ Regular(h, n)
    BY <1>1, <1>2
  <2>2. Callback!Contiguous(h, n) /\ Regular(g, n + more)
    BY <1>2, <2>1, GrowRegular
  <2> QED
    BY <2>1, <2>2, GrowHead
<1>4. /\ f \o toks \in Seq(KvToken) /\ Len(f \o toks) = n + more
      /\ \A j \in 1 .. n : (f \o toks)[j] = f[j]
      /\ \A j \in 1 .. more : (f \o toks)[n + j] = toks[j]
  BY <1>1, <1>2, JoinParts
<1>5. /\ h.begin \in Nat /\ h.active \in Seq(KvToken) /\ h.begin = m * PageSize /\ h.begin + held = n
      /\ PageSize \in Nat \ {0}
  BY <1>1, <1>2, HeadCounts, SealConstants DEF Regular
<1>6. g.begin = h.begin
  <2>1. h.active = <<>> => held = 0
    BY <1>2
  <2>2. held = 0 => h.begin = n
    BY ONLY <1>5, n \in Nat, held \in Nat
  <2> QED
    BY <1>3, <2>1, <2>2
<1>7. g.active = h.active \o toks
  BY DEF Callback!Grown
<1>8. ASSUME NEW j \in 1 .. Len(g.active) PROVE g.active[j] = (f \o toks)[g.begin + j]
  <2>1. /\ Len(h.active \o toks) = held + more
        /\ \A k \in 1 .. held : (h.active \o toks)[k] = h.active[k]
        /\ \A k \in 1 .. more : (h.active \o toks)[held + k] = toks[k]
    <3>1. /\ Len(h.active \o toks) = Len(h.active) + Len(toks)
          /\ \A k \in 1 .. Len(h.active) : (h.active \o toks)[k] = h.active[k]
          /\ \A k \in 1 .. Len(toks) : (h.active \o toks)[Len(h.active) + k] = toks[k]
      BY <1>5, JoinParts
    <3> QED
      BY <1>2, <3>1, Zenon
  <2>0. j \in 1 .. held + more
    BY <1>7, <2>1
  <2>2. CASE j <= held
    <3>1. j \in 1 .. held
      BY <2>0, <2>2
    <3>2. h.begin + j \in 1 .. n
      BY ONLY <1>5, <3>1, n \in Nat, held \in Nat
    <3> QED
      BY <1>1, <1>2, <1>4, <1>6, <1>7, <2>1, <3>1, <3>2
  <2>3. CASE ~ (j <= held)
    <3>1. PICK k \in 1 .. more : j = held + k
      <4>1. j - held \in 1 .. more /\ j = held + (j - held)
        BY <2>0, <2>3
      <4> QED
        BY <4>1
    <3>2. g.begin + j = n + k
      <4>1. h.begin + (held + k) = n + k
        BY ONLY <1>5, n \in Nat, held \in Nat, k \in 1 .. more, more \in Nat
      <4> QED
        BY <1>6, <3>1, <4>1
    <3>3. g.active[j] = toks[k]
      BY <1>7, <2>1, <3>1, Zenon
    <3>4. (f \o toks)[n + k] = toks[k]
      BY <1>4, Zenon
    <3> QED
      BY <3>2, <3>3, <3>4, Zenon
  <2> QED
    BY <2>2, <2>3
<1>9. ASSUME NEW i \in 1 .. Len(g.sealed), NEW j \in 1 .. PageSize
      PROVE  g.sealed[i].toks[j] = (f \o toks)[(i - 1) * PageSize + j]
  <2>1. i \in 1 .. m
    BY <1>2, <1>3
  <2>2. (i - 1) * PageSize + j \in 1 .. n
    <3>1. PICK a \in Nat : a = (i - 1) * PageSize /\ a + PageSize = i * PageSize
      <4>1. PICK k \in Nat : k = i - 1 /\ i = k + 1
        BY <2>1
      <4>2. (k + 1) * PageSize = k * PageSize + PageSize /\ k * PageSize \in Nat
        BY <1>5
      <4> QED
        BY <4>1, <4>2
    <3>2. i * PageSize <= m * PageSize
      BY <1>5, <2>1, Monotone
    <3>3. m * PageSize <= n
      BY ONLY <1>5, n \in Nat, held \in Nat
    <3>4. PICK b \in Nat : b = m * PageSize /\ a + PageSize <= b /\ b <= n
      BY <1>5, <3>1, <3>2, <3>3
    <3> QED
      BY <1>5, <3>1, <3>4
  <2> QED
    BY <1>1, <1>2, <1>3, <1>4, <2>1, <2>2
<1> QED
  BY <1>2, <1>3, <1>4, <1>8, <1>9 DEF Carries

-----------------------------------------------------------------------------
\* What an append to one head does to the tokens of all.
AppendedTo(c, s, f, toks, d) ==
  /\ d \in KvCaches
  /\ \A t \in KvSlots \ {s}, g \in Seq(KvToken) : Carries(c.heads[t], g) => Carries(d.heads[t], g)
  /\ Carries(d.heads[s], f \o toks)

LEMMA AppendFills ==
  ASSUME NEW c \in KvCaches, NEW s \in KvSlots, NEW toks \in Seq(KvToken), NEW u \in Nat,
         NEW f, Carries(c.heads[s], f), NEW r, r = Callback!AppendHead(c, s, Len(f), toks, u)
  PROVE  AppendedTo(c, s, f, toks, r.cache)
<1>1. PICK d, begin : d = Callback!Inserted(c, s, begin, toks) /\ begin = Len(f)
  OBVIOUS
<1>2. f \in Seq(KvToken) /\ begin \in Nat /\ c.heads[s] \in KvHead
  BY <1>1, CacheFields DEF Carries
<1>3. /\ d \in KvCaches /\ d.heads[s] = Callback!Grown(c.heads[s], begin, toks)
      /\ \A t \in KvSlots \ {s} : d.heads[t] = c.heads[t]
  <2>1. GrewBy(c, s, begin, toks, d)
    BY <1>1, <1>2, InsertKeeps
  <2> QED
    BY <2>1 DEF GrewBy
<1>4. Callback!Contiguous(c.heads[s], begin) /\ Carries(d.heads[s], f \o toks)
  BY <1>1, <1>2, <1>3, GrowFills
<1>5. r.cache = Callback!SealFullPages(d, u)
  BY <1>1, <1>4 DEF Callback!AppendHead
<1>6. PICK e : e = Callback!SealFullPages(d, u)
  OBVIOUS
<1>7. /\ e \in KvCaches
      /\ \A t \in KvSlots : \E p \in 0 .. Callback!FullPages(d.heads[t]) : e.heads[t] = Callback!CutPages(d.heads[t], p)
  <2>1. Resealed(d, u, e)
    BY <1>3, <1>6, SealKeeps
  <2> QED
    BY <2>1 DEF Resealed
<1>8. ASSUME NEW t \in KvSlots, NEW g, Carries(d.heads[t], g) PROVE Carries(e.heads[t], g)
  <2>1. PICK p \in 0 .. Callback!FullPages(d.heads[t]) : e.heads[t] = Callback!CutPages(d.heads[t], p)
    BY <1>7
  <2>2. d.heads[t] \in KvHead
    BY <1>3, CacheFields
  <2> QED
    BY <1>8, <2>1, <2>2, CutFills
<1>9. Carries(e.heads[s], f \o toks)
  BY <1>4, <1>8
<1>10. \A t \in KvSlots \ {s}, g \in Seq(KvToken) : Carries(c.heads[t], g) => Carries(e.heads[t], g)
  BY <1>3, <1>8
<1> QED
  BY <1>5, <1>6, <1>7, <1>9, <1>10 DEF AppendedTo

\* What the heads hold after the first m of a layer.
CarriesTo(c, base, l, f, toks, m) ==
  /\ c \in KvCaches
  /\ \A h \in 0 .. NHeads - 1 : Carries(c.heads[<<l, h>>], IF h < m THEN f \o toks ELSE f)
  /\ \A t \in KvSlots, g \in Seq(KvToken) : t[1] # l /\ Carries(base.heads[t], g) => Carries(c.heads[t], g)

LEMMA CarriesStep ==
  ASSUME NEW base, NEW l \in 0 .. NLayers - 1, NEW f \in Seq(KvToken), NEW toks \in Seq(KvToken), NEW u \in Nat,
         NEW m \in 0 .. NHeads - 1, NEW c, CarriesTo(c, base, l, f, toks, m), NEW r,
         r = Callback!AppendHead(c, <<l, m>>, Len(f), toks, u)
  PROVE  CarriesTo(r.cache, base, l, f, toks, m + 1)
<1>1. c \in KvCaches /\ m \in Nat
  BY CacheConstants DEF CarriesTo
<1>2. PICK s \in KvSlots : s = <<l, m>>
  BY DEF KvSlots
<1>3. Carries(c.heads[s], f)
  <2>1. ~ (m < m)
    BY <1>1
  <2> QED
    BY <1>2, <2>1 DEF CarriesTo
<1>4. /\ r.cache \in KvCaches /\ Carries(r.cache.heads[s], f \o toks)
      /\ \A t \in KvSlots \ {s}, g \in Seq(KvToken) : Carries(c.heads[t], g) => Carries(r.cache.heads[t], g)
  <2>1. AppendedTo(c, s, f, toks, r.cache)
    BY <1>1, <1>2, <1>3, AppendFills
  <2> QED
    BY <2>1 DEF AppendedTo
<1>5. ASSUME NEW h \in 0 .. NHeads - 1
      PROVE  Carries(r.cache.heads[<<l, h>>], IF h < m + 1 THEN f \o toks ELSE f)
  <2>1. CASE h = m
    <3>1. h < m + 1
      BY <1>1, <2>1
    <3> QED
      BY <1>2, <1>4, <2>1, <3>1
  <2>2. CASE h # m
    <3>1. <<l, h>> \in KvSlots \ {s}
      BY <1>2, <2>2 DEF KvSlots
    <3>2. PICK g \in Seq(KvToken) : g = IF h < m THEN f \o toks ELSE f
      <4>1. f \o toks \in Seq(KvToken)
        BY JoinParts
      <4> QED
        BY <4>1, Zenon
    <3>3. Carries(c.heads[<<l, h>>], g)
      BY <3>2 DEF CarriesTo
    <3>4. (h < m) <=> (h < m + 1)
      BY <1>1, <2>2
    <3>5. Carries(r.cache.heads[<<l, h>>], g)
      BY <1>4, <3>1, <3>3
    <3> QED
      BY <3>2, <3>4, <3>5
  <2> QED
    BY <2>1, <2>2
<1>6. ASSUME NEW t \in KvSlots, NEW g \in Seq(KvToken), t[1] # l, Carries(base.heads[t], g)
      PROVE  Carries(r.cache.heads[t], g)
  <2>1. Carries(c.heads[t], g) /\ t \in KvSlots \ {s}
    BY <1>2, <1>6 DEF CarriesTo
  <2> QED
    BY <1>4, <2>1
<1> QED
  BY <1>4, <1>5, <1>6 DEF CarriesTo

LEMMA LayerFills ==
  ASSUME NEW base \in KvCaches, NEW l \in 0 .. NLayers - 1, NEW f \in Seq(KvToken), NEW toks \in Seq(KvToken),
         NEW up \in [0 .. NHeads - 1 -> Nat], \A h \in 0 .. NHeads - 1 : Carries(base.heads[<<l, h>>], f)
  PROVE  CarriesTo(Callback!HeadsAppended(base, l, Len(f), toks, up).cache, base, l, f, toks, NHeads)
<1>0. PICK e : InOrder(e, base, l, Len(f), toks, up)
  BY Heads1Steps
<1>1. /\ Callback!HeadsAppended(base, l, Len(f), toks, up) = e[NHeads]
      /\ e[0] = [cache |-> base, errors |-> 0]
      /\ \A n \in 1 .. NHeads :
           e[n] = Callback!Tried(e[n - 1], Callback!AppendHead(e[n - 1].cache, <<l, n - 1>>, Len(f), toks, up[n - 1]))
  BY <1>0 DEF InOrder
<1> DEFINE bad == {m \in 0 .. NHeads : ~ CarriesTo(e[m].cache, base, l, f, toks, m)}
<1>2. NHeads \in Nat
  BY CacheConstants
<1>3. ASSUME bad # {} PROVE FALSE
  <2>1. bad \subseteq Nat
    BY <1>2
  <2>2. PICK m \in bad : \A n \in bad : m <= n
    BY <1>3, <2>1, LeastExists
  <2>3. m \in 0 .. NHeads /\ ~ CarriesTo(e[m].cache, base, l, f, toks, m)
    BY <2>2
  <2>4. CarriesTo(e[0].cache, base, l, f, toks, 0)
    <3>1. e[0].cache = base
      BY <1>1
    <3>2. \A h \in 0 .. NHeads - 1 : ~ (h < 0)
      BY <1>2
    <3> QED
      BY <3>1, <3>2 DEF CarriesTo
  <2>5. m # 0
    BY <2>3, <2>4
  <2>6. PICK k \in 0 .. NHeads - 1 : m = k + 1
    <3>1. m - 1 \in 0 .. NHeads - 1 /\ m = (m - 1) + 1
      BY ONLY <1>2, <2>3, <2>5
    <3> QED
      BY <3>1, Zenon
  <2>7. k \in 0 .. NHeads /\ k < m /\ k + 1 \in 1 .. NHeads /\ (k + 1) - 1 = k
    BY <1>2, <2>3, <2>6
  <2>8. k \notin bad
    <3>1. k \in bad => m <= k
      BY <2>2, Zenon
    <3>2. k \in Int /\ m \in Int
      BY <1>2, <2>3
    <3> QED
      BY <2>7, <3>1, <3>2
  <2>9. CarriesTo(e[k].cache, base, l, f, toks, k)
    BY <2>7, <2>8
  <2>10. PICK r : r = Callback!AppendHead(e[k].cache, <<l, k>>, Len(f), toks, up[k]) /\ e[k + 1] = Callback!Tried(e[k], r)
    BY <1>1, <2>7
  <2>11. e[k + 1].cache = r.cache
    BY <2>10 DEF Callback!Tried
  <2>12. CarriesTo(r.cache, base, l, f, toks, k + 1)
    BY <2>9, <2>10, CarriesStep
  <2> QED
    BY <2>3, <2>6, <2>11, <2>12
<1>4. NHeads \in 0 .. NHeads
  BY <1>2
<1> QED
  BY <1>1, <1>3, <1>4

\* Every head of layer l of the cache c holds f.
Holds(c, l, f) == \A h \in 0 .. NHeads - 1 : Carries(c.heads[<<l, h>>], f)

LEMMA EmptyHolds == \A l \in 0 .. NLayers - 1 : Holds(Callback!EmptyCache, l, <<>>)
<1> SUFFICES ASSUME NEW l \in 0 .. NLayers - 1, NEW h \in 0 .. NHeads - 1
             PROVE  Carries(Callback!EmptyCache.heads[<<l, h>>], <<>>)
  BY DEF Holds
<1>1. <<l, h>> \in KvSlots
  BY DEF KvSlots
<1>2. PICK g : g = Callback!EmptyCache.heads[<<l, h>>] /\ Regular(g, 0)
  BY <1>1, EmptyIsRegular
<1>3. Callback!EmptyCache.heads = [s \in KvSlots |-> Callback!EmptyHead]
  BY KvSlotsAre DEF Callback!EmptyCache
<1>4. g = [begin |-> 0, active |-> <<>>, sealed |-> <<>>]
  BY <1>1, <1>2, <1>3 DEF Callback!EmptyHead
<1>5. Len(g.active) = 0 /\ Len(g.sealed) = 0
  BY <1>4
<1>6. <<>> \in Seq(KvToken) /\ Len(<<>>) = 0
  OBVIOUS
<1> QED
  BY <1>2, <1>5, <1>6 DEF Carries

LEMMA UploadsType ==
  ASSUME NEW base \in KvCaches, NEW fault \in Callback!UploadFaults, NEW n \in Nat, NEW up,
         up = [h \in 0 .. NHeads - 1 |-> IF h = fault.head THEN fault.uploads
                                        ELSE Callback!Pending(base, Callback!Slots) + NHeads * n]
  PROVE  up \in [0 .. NHeads - 1 -> Nat]
<1>1. <<0, 0>> \in KvSlots
  BY CacheConstants DEF KvSlots
<1>2. Callback!Pending(base, Callback!Slots) \in Nat
  BY <1>1, CutsOfFull
<1>3. NHeads * n \in Nat
  BY CacheConstants
<1>4. fault.uploads \in Nat
  <2>1. fault = Callback!NoFault \/ fault \in [head : Callback!Heads, uploads : Succeeding]
    BY DEF Callback!UploadFaults
  <2>2. Succeeding \subseteq Nat
    BY CacheConstants
  <2>3. CASE fault = Callback!NoFault
    BY <2>3 DEF Callback!NoFault
  <2>4. CASE fault \in [head : Callback!Heads, uploads : Succeeding]
    <3>1. fault.uploads \in Succeeding
      BY <2>4
    <3> QED
      BY <2>2, <3>1
  <2> QED
    BY <2>1, <2>3, <2>4
<1> QED
  BY <1>2, <1>3, <1>4

\* The append of a layer that holds f, or of the first layer of a new sequence:
\* its heads hold the tokens as well, and the other layers what they held.
LEMMA AppendLayerFills ==
  ASSUME CallbackInv, NEW l \in 0 .. NLayers - 1, NEW toks \in Seq(KvToken), NEW fault \in Callback!UploadFaults,
         Callback!AppendLayer(l, toks, fault), NEW f \in Seq(KvToken),
         IF Len(toks) > 1 /\ l = 0 THEN f = <<>> ELSE Holds(cache, l, f)
  PROVE  /\ Holds(cache', l, f \o toks)
         /\ \A i \in 0 .. NLayers - 1, g \in Seq(KvToken) :
              i # l /\ (IF Len(toks) > 1 /\ l = 0 THEN g = <<>> ELSE Holds(cache, i, g)) => Holds(cache', i, g)
<1>1. PICK fresh : fresh = (Len(toks) > 1 /\ l = 0)
  OBVIOUS
<1>2. PICK base : base = IF fresh THEN Callback!EmptyCache ELSE cache
  OBVIOUS
<1>3. PICK begin : begin = IF fresh THEN 0 ELSE tok[l]
  OBVIOUS
<1>4. PICK up : up = [h \in 0 .. NHeads - 1 |-> IF h = fault.head THEN fault.uploads
                                               ELSE Callback!Pending(base, Callback!Slots) + NHeads * Len(toks)]
  OBVIOUS
<1>5. cache' = Callback!HeadsAppended(base, l, begin, toks, up).cache
  BY <1>1, <1>2, <1>3, <1>4, KvSlotsAre, Zenon DEF Callback!AppendLayer
<1>6. base \in KvCaches
  BY <1>2, EmptyIsRegular DEF CallbackInv
<1>7. ASSUME NEW i \in 0 .. NLayers - 1, NEW g, IF fresh THEN g = <<>> ELSE Holds(cache, i, g)
      PROVE  Holds(base, i, g)
  BY <1>2, <1>7, EmptyHolds
<1>8. Holds(base, l, f)
  BY <1>1, <1>7
<1>9. begin = Len(f)
  <2>1. CASE fresh
    <3>1. f = <<>>
      BY <1>1, <2>1
    <3> QED
      BY <1>3, <2>1, <3>1
  <2>2. CASE ~ fresh
    <3>0. tok[l] \in Nat
      BY DEF CallbackInv
    <3>1. 0 \in 0 .. NHeads - 1
      BY CacheConstants
    <3>2. Regular(cache.heads[<<l, 0>>], tok[l]) /\ Regular(cache.heads[<<l, 0>>], Len(f))
      BY <1>2, <1>8, <2>2, <3>1 DEF CallbackInv, Holds, Carries
    <3> QED
      BY <1>3, <2>2, <3>0, <3>2 DEF Regular
  <2> QED
    BY <2>1, <2>2
<1>10. up \in [0 .. NHeads - 1 -> Nat]
  BY <1>4, <1>6, UploadsType
<1>11. PICK c : c = cache' /\ CarriesTo(c, base, l, f, toks, NHeads)
  BY <1>5, <1>6, <1>8, <1>9, <1>10, LayerFills DEF Holds
<1>12. Holds(c, l, f \o toks)
  <2>1. \A h \in 0 .. NHeads - 1 : h < NHeads
    BY CacheConstants
  <2> QED
    BY <1>11, <2>1 DEF CarriesTo, Holds
<1>13. ASSUME NEW i \in 0 .. NLayers - 1, NEW g \in Seq(KvToken), i # l, Holds(base, i, g)
       PROVE  Holds(c, i, g)
  <2>1. ASSUME NEW h \in 0 .. NHeads - 1 PROVE Carries(c.heads[<<i, h>>], g)
    <3>1. PICK t \in KvSlots : t = <<i, h>> /\ t[1] # l
      <4>1. <<i, h>> \in KvSlots /\ <<i, h>>[1] # l
        BY <1>13 DEF KvSlots
      <4> QED
        BY <4>1
    <3>2. Carries(base.heads[t], g)
      BY <1>13, <3>1 DEF Holds
    <3> QED
      BY <1>11, <3>1, <3>2 DEF CarriesTo
  <2> QED
    BY <2>1 DEF Holds
<1> QED
  BY <1>1, <1>7, <1>11, <1>12, <1>13, Zenon

-----------------------------------------------------------------------------
(* What the callback has done of a pass p over the sequence s. *)

Paired(s)      == [i \in 1 .. Len(s) |-> [k |-> s[i], v |-> s[i]]]
InPass(p, s)   == SubSeq(s, Len(s) - p.size + 1, Len(s))
Prior(p, s)   == IF p.size > 1 THEN <<>> ELSE SubSeq(s, 1, Len(s) - p.size)
Complete(p, l) == l < p.layer \/ (l = p.layer /\ {"k", "v"} \subseteq p.seen)

LEMMA PairedType ==
  ASSUME NEW s \in Seq(Nat)
  PROVE  Paired(s) \in Seq(KvToken) /\ Len(Paired(s)) = Len(s) /\ Callback!Pair(s, s) = Paired(s)
<1>1. \A i \in 1 .. Len(s) : [k |-> s[i], v |-> s[i]] \in KvToken
  BY DEF KvToken
<1>2. Paired(s) \in Seq(KvToken) /\ Len(Paired(s)) = Len(s)
  BY <1>1 DEF Paired
<1> QED
  BY <1>2 DEF Paired, Callback!Pair

LEMMA PairedJoins ==
  ASSUME NEW a \in Seq(Nat), NEW b \in Seq(Nat)
  PROVE  Paired(a) \o Paired(b) = Paired(a \o b)
<1>1. PICK m, n \in Nat : m = Len(a) /\ n = Len(b)
  OBVIOUS
<1>2. PICK x, y, z \in Seq(KvToken) : x = Paired(a) /\ y = Paired(b) /\ z = Paired(a \o b) /\ Len(x) = m /\ Len(y) = n /\ Len(z) = m + n
  <2>1. a \o b \in Seq(Nat) /\ Len(a \o b) = m + n
    BY <1>1, JoinParts
  <2> QED
    BY <1>1, <2>1, PairedType
<1>3. PICK w \in Seq(KvToken) : w = x \o y /\ Len(w) = m + n
  BY <1>2, JoinParts
<1>4. /\ \A i \in 1 .. m : x[i] = [k |-> a[i], v |-> a[i]]
      /\ \A i \in 1 .. n : y[i] = [k |-> b[i], v |-> b[i]]
      /\ \A i \in 1 .. m + n : z[i] = [k |-> (a \o b)[i], v |-> (a \o b)[i]]
  <2>1. Len(a \o b) = m + n
    BY <1>1, JoinParts
  <2> QED
    BY <1>1, <1>2, <2>1 DEF Paired
<1>5. /\ \A i \in 1 .. m : w[i] = x[i] /\ (a \o b)[i] = a[i]
      /\ \A i \in 1 .. n : w[m + i] = y[i] /\ (a \o b)[m + i] = b[i]
  <2>1. /\ \A i \in 1 .. Len(a) : (a \o b)[i] = a[i]
        /\ \A i \in 1 .. Len(b) : (a \o b)[Len(a) + i] = b[i]
    BY ONLY a \in Seq(Nat), b \in Seq(Nat), JoinParts
  <2>2. /\ \A i \in 1 .. Len(x) : (x \o y)[i] = x[i]
        /\ \A i \in 1 .. Len(y) : (x \o y)[Len(x) + i] = y[i]
    BY ONLY x \in Seq(KvToken), y \in Seq(KvToken), JoinParts
  <2>3. w = x \o y /\ Len(x) = m /\ Len(y) = n /\ Len(a) = m /\ Len(b) = n
    BY <1>1, <1>2, <1>3, Zenon
  <2>4. (\A i \in 1 .. m : w[i] = x[i]) /\ \A i \in 1 .. m : (a \o b)[i] = a[i]
    BY <2>1, <2>2, <2>3, Zenon
  <2>5. (\A i \in 1 .. n : w[m + i] = y[i]) /\ \A i \in 1 .. n : (a \o b)[m + i] = b[i]
    BY <2>1, <2>2, <2>3, Zenon
  <2> QED
    BY <2>4, <2>5, Zenon
<1>6. ASSUME NEW i \in 1 .. m + n PROVE w[i] = z[i]
  <2>1. CASE i <= m
    <3>1. i \in 1 .. m
      BY <2>1
    <3>2. w[i] = x[i] /\ (a \o b)[i] = a[i]
      BY <1>5, <3>1, Zenon
    <3>3. x[i] = [k |-> a[i], v |-> a[i]] /\ z[i] = [k |-> (a \o b)[i], v |-> (a \o b)[i]]
      BY <1>4, <3>1, Zenon
    <3> QED
      BY <3>2, <3>3, Zenon
  <2>2. CASE ~ (i <= m)
    <3>1. PICK j \in 1 .. n : i = m + j
      <4>1. i - m \in 1 .. n /\ i = m + (i - m)
        BY <2>2
      <4> QED
        BY <4>1, Zenon
    <3>2. w[i] = y[j] /\ (a \o b)[i] = b[j]
      BY <1>5, <3>1, Zenon
    <3>3. y[j] = [k |-> b[j], v |-> b[j]] /\ z[i] = [k |-> (a \o b)[i], v |-> (a \o b)[i]]
      BY <1>4, <3>1, Zenon
    <3> QED
      BY <3>2, <3>3, Zenon
  <2> QED
    BY <2>1, <2>2
<1>7. w = z
  BY <1>2, <1>3, <1>6, SeqEqual
<1> QED
  BY <1>2, <1>3, <1>7

\* The tokens of a pass are the last; those before are none when it starts a sequence.
LEMMA PassParts ==
  ASSUME NEW s \in Seq(Nat), NEW p, p.size \in Nat, p.size <= Len(s), p.size > 1 => Len(s) = p.size
  PROVE  /\ InPass(p, s) \in Seq(Nat) /\ Len(InPass(p, s)) = p.size
         /\ Prior(p, s) \in Seq(Nat) /\ Len(Prior(p, s)) = Len(s) - p.size
         /\ \A r \in 1 .. p.size : InPass(p, s)[r] = s[Len(s) - p.size + r]
         /\ Prior(p, s) \o InPass(p, s) = s
<1>1. PICK n, m \in Nat : n = Len(s) /\ m = n - p.size /\ m <= n
  OBVIOUS
<1>2. PICK x : x = InPass(p, s) /\ x \in Seq(Nat) /\ Len(x) = n - m /\ \A r \in 1 .. n - m : x[r] = s[m + r]
  <2>1. InPass(p, s) = SubSeq(s, m + 1, n)
    BY <1>1 DEF InPass
  <2>2. /\ SubSeq(s, m + 1, n) \in Seq(Nat) /\ Len(SubSeq(s, m + 1, n)) = n - m
        /\ \A r \in 1 .. n - m : SubSeq(s, m + 1, n)[r] = s[m + r]
    <3>1. m \in Nat /\ n \in Nat /\ m <= n /\ n <= Len(s) /\ s \in Seq(Nat)
      BY <1>1
    <3> QED
      BY ONLY <3>1, SubParts
  <2> QED
    BY <2>1, <2>2, Zenon
<1>3. PICK y : y = Prior(p, s) /\ y \in Seq(Nat) /\ Len(y) = m /\ \A r \in 1 .. m : y[r] = s[r]
  <2>1. CASE p.size > 1
    <3>1. m = 0
      BY <1>1, <2>1
    <3>2. Prior(p, s) = <<>>
      BY <2>1 DEF Prior
    <3>3. <<>> \in Seq(Nat) /\ Len(<<>>) = 0 /\ \A r \in 1 .. 0 : <<>>[r] = s[r]
      OBVIOUS
    <3> QED
      BY <3>1, <3>2, <3>3, Zenon
  <2>2. CASE ~ (p.size > 1)
    <3>1. Prior(p, s) = SubSeq(s, 0 + 1, m)
      BY <1>1, <2>2 DEF Prior
    <3>2. /\ SubSeq(s, 0 + 1, m) \in Seq(Nat) /\ Len(SubSeq(s, 0 + 1, m)) = m - 0
          /\ \A r \in 1 .. m - 0 : SubSeq(s, 0 + 1, m)[r] = s[0 + r]
      BY <1>1, SubParts
    <3>3. m - 0 = m /\ \A r \in 1 .. m : 0 + r = r
      OBVIOUS
    <3> QED
      BY <3>1, <3>2, <3>3
  <2> QED
    BY <2>1, <2>2
<1>4. PICK w : w = y \o x /\ w \in Seq(Nat) /\ Len(w) = n
  <2>1. y \o x \in Seq(Nat) /\ Len(y \o x) = Len(y) + Len(x)
    BY <1>2, <1>3, JoinParts
  <2>2. m + (n - m) = n
    OBVIOUS
  <2> QED
    BY <1>2, <1>3, <2>1, <2>2, Zenon
<1>5. ASSUME NEW i \in 1 .. n PROVE w[i] = s[i]
  <2>0. y \in Seq(Nat) /\ x \in Seq(Nat)
    BY <1>2, <1>3, Zenon
  <2>1. /\ \A j \in 1 .. Len(y) : (y \o x)[j] = y[j]
        /\ \A j \in 1 .. Len(x) : (y \o x)[Len(y) + j] = x[j]
    BY ONLY <2>0, JoinParts
  <2>2. CASE i <= m
    <3>1. i \in 1 .. m
      BY <2>2
    <3> QED
      BY <1>3, <1>4, <2>1, <3>1
  <2>3. CASE ~ (i <= m)
    <3>1. PICK j \in 1 .. n - m : i = m + j
      <4>1. i - m \in 1 .. n - m /\ i = m + (i - m)
        BY <1>1, <2>3
      <4> QED
        BY <4>1, Zenon
    <3>2. (y \o x)[m + j] = x[j]
      BY <1>2, <1>3, <2>1, Zenon
    <3> QED
      BY <1>2, <1>4, <3>1, <3>2, Zenon
  <2> QED
    BY <2>2, <2>3
<1>6. w = s
  BY <1>1, <1>4, <1>5, SeqEqual
<1>7. n - m = p.size
  BY <1>1
<1> QED
  BY <1>1, <1>2, <1>3, <1>4, <1>6, <1>7

-----------------------------------------------------------------------------
(* Until a tensor is turned away, the cache shadows llama.cpp's.             *)

Waiting(p, s) ==
  [k |-> IF "k" \in p.seen /\ "v" \notin p.seen THEN InPass(p, s) ELSE <<>>,
   v |-> IF "v" \in p.seen /\ "k" \notin p.seen THEN InPass(p, s) ELSE <<>>]
NoneWaits == [k |-> <<>>, v |-> <<>>]

\* A layer the pass is through with holds the whole sequence.  One it is not holds
\* what came before, unless that is of an older sequence the first layer will drop.
Mirrored(c, p, s) ==
  /\ \A l \in 0 .. NLayers - 1 : Complete(p, l) => Holds(c, l, Paired(s))
  /\ \A l \in 0 .. NLayers - 1 :
       ~ Complete(p, l) /\ (p.size > 1 => Complete(p, 0)) => Holds(c, l, Paired(Prior(p, s)))

Buffered(b, p, s) == \A l \in 0 .. NLayers - 1 : b[l] = IF l = p.layer THEN Waiting(p, s) ELSE NoneWaits

Queried(q, p, s) == DOMAIN q = 0 .. NLayers - 1 /\ ("q" \in p.seen => q[p.layer] = InPass(p, s))

Sized(p, s) ==
  /\ p = Callback!NoPass \/ p.size \in Nat \ {0}
  /\ p.size > 1 => Len(s) = p.size

Shadowing ==
  Mirrored(cache, pass, real) /\ Buffered(pend, pass, real) /\ Queried(query, pass, real) /\ Sized(pass, real)

ShadowInv == CallbackInv /\ rejects \in Nat /\ (rejects = 0 => Shadowing)

NoPassIs == [layer |-> NLayers, size |-> 0, seen |-> {}]

LEMMA WithoutPass ==
  /\ Callback!NoPass = NoPassIs /\ Callback!NoPass.layer = NLayers /\ Callback!NoPass.size = 0
  /\ Callback!NoPass.seen = {} /\ Callback!NoPass \notin PassType
  /\ \A l \in 0 .. NLayers - 1 : Complete(Callback!NoPass, l)
<1>1. PICK p : p = Callback!NoPass /\ p = [layer |-> NLayers, size |-> 0, seen |-> {}]
  BY DEF Callback!NoPass
<1>2. p.layer = NLayers /\ p.size = 0 /\ p.seen = {}
  BY <1>1
<1>3. \A l \in 0 .. NLayers - 1 : l < NLayers
  BY CacheConstants
<1>4. NLayers \notin 0 .. NLayers - 1
  BY CacheConstants
<1> QED
  BY <1>1, <1>2, <1>3, <1>4 DEF NoPassIs, Complete, PassType

LEMMA ShadowStarts == Callback!CallbackInit => ShadowInv
<1> SUFFICES ASSUME Callback!CallbackInit PROVE ShadowInv
  OBVIOUS
<1>1. /\ cache = Callback!EmptyCache /\ real = <<>> /\ pass = Callback!NoPass /\ rejects = 0
      /\ pend = [l \in 0 .. NLayers - 1 |-> [k |-> <<>>, v |-> <<>>]]
      /\ query = [l \in 0 .. NLayers - 1 |-> <<>>]
  BY KvSlotsAre DEF Callback!CallbackInit, Callback!Clean
<1>2. Paired(real) = <<>> /\ Len(real) = 0
  <2>1. real \in Seq(Nat) /\ Len(real) = 0
    BY <1>1
  <2>2. Paired(real) = [i \in 1 .. 0 |-> [k |-> real[i], v |-> real[i]]]
    BY <2>1 DEF Paired
  <2> QED
    BY <2>1, <2>2
<1>3. Mirrored(cache, pass, real)
  BY <1>1, <1>2, EmptyHolds, WithoutPass DEF Mirrored
<1>4. Buffered(pend, pass, real)
  <2>1. \A l \in 0 .. NLayers - 1 : l # NLayers
    BY CacheConstants
  <2> QED
    BY <1>1, <2>1, WithoutPass DEF Buffered, NoneWaits
<1>5. Queried(query, pass, real) /\ Sized(pass, real)
  BY <1>1, WithoutPass DEF Queried, Sized
<1> QED
  BY <1>1, <1>3, <1>4, <1>5, CallbackStart DEF ShadowInv, Shadowing

\* A new pass: nothing of it is done.
LEMMA StartShadows ==
  ASSUME ShadowInv, NEW n \in 1 .. MaxBatch, Callback!StartPass(n)
  PROVE  rejects = 0 => Shadowing'
<1> SUFFICES ASSUME rejects = 0 PROVE Shadowing'
  OBVIOUS
<1>1. /\ pass = Callback!NoPass /\ pass' = [layer |-> 0, size |-> n, seen |-> {}]
      /\ real' = IF n > 1 THEN [i \in 1 .. n |-> made + i] ELSE real \o [i \in 1 .. n |-> made + i]
      /\ UNCHANGED <<cache, pend, query>>
  BY DEF Callback!StartPass
<1>2. /\ Mirrored(cache, pass, real) /\ Buffered(pend, pass, real) /\ Queried(query, pass, real)
      /\ real \in Seq(Nat) /\ n \in Nat \ {0} /\ made \in Nat
  BY CacheConstants DEF ShadowInv, Shadowing, CallbackInv
<1>3. pass'.layer = 0 /\ pass'.size = n /\ pass'.seen = {} /\ 0 \in 0 .. NLayers - 1
  BY <1>1, CacheConstants
<1>4. \A l \in 0 .. NLayers - 1 : Holds(cache, l, Paired(real)) /\ pend[l] = NoneWaits
  <2>1. \A l \in 0 .. NLayers - 1 : l # NLayers
    BY CacheConstants
  <2> QED
    BY <1>1, <1>2, <2>1, WithoutPass DEF Mirrored, Buffered
<1>5. \A l \in 0 .. NLayers - 1 : ~ Complete(pass', l)
  <2>1. \A l \in 0 .. NLayers - 1 : ~ (l < 0)
    OBVIOUS
  <2> QED
    BY <1>3, <2>1 DEF Complete
<1>6. n > 1 => Len(real') = n
  BY <1>1, <1>2
<1>7. ~ (n > 1) => Prior(pass', real') = real
  <2> SUFFICES ASSUME n = 1 PROVE Prior(pass', real') = real
    BY <1>2
  <2>1. PICK one \in Seq(Nat) : one = [i \in 1 .. n |-> made + i] /\ Len(one) = 1
    <3>1. \A i \in 1 .. n : made + i \in Nat
      BY <1>2
    <3>2. [i \in 1 .. n |-> made + i] \in Seq(Nat) /\ Len([i \in 1 .. n |-> made + i]) = n
      BY <1>2, <3>1
    <3> QED
      BY <3>2, Zenon
  <2>2. PICK m \in Nat : m = Len(real)
    BY <1>2
  <2>3. real' = real \o one /\ real' \in Seq(Nat) /\ Len(real') = m + 1 /\ \A i \in 1 .. m : real'[i] = real[i]
    <3>1. real' = real \o one
      BY <1>1, <2>1
    <3>2. /\ real \o one \in Seq(Nat) /\ Len(real \o one) = Len(real) + Len(one)
          /\ \A i \in 1 .. Len(real) : (real \o one)[i] = real[i]
      BY <1>2, JoinParts
    <3> QED
      BY <2>1, <2>2, <3>1, <3>2
  <2>4. pass'.size <= Len(real') /\ Len(real') - pass'.size = m /\ ~ (pass'.size > 1) /\ m <= m + 1
    BY <1>3, <2>3
  <2>5. Prior(pass', real') = SubSeq(real', 0 + 1, m)
    BY <2>4 DEF Prior
  <2>6. PICK y : y = SubSeq(real', 0 + 1, m) /\ y \in Seq(Nat) /\ Len(y) = m /\ \A i \in 1 .. m : y[i] = real[i]
    <3>1. /\ SubSeq(real', 0 + 1, m) \in Seq(Nat) /\ Len(SubSeq(real', 0 + 1, m)) = m - 0
          /\ \A i \in 1 .. m - 0 : SubSeq(real', 0 + 1, m)[i] = real'[0 + i]
      BY <2>3, <2>4, SubParts
    <3>2. m - 0 = m /\ \A i \in 1 .. m : 0 + i = i
      OBVIOUS
    <3>3. PICK z \in Seq(Nat) : z = SubSeq(real', 0 + 1, m) /\ Len(z) = m /\ \A i \in 1 .. m : z[i] = real'[i]
      BY <3>1, <3>2
    <3> QED
      BY <2>3, <3>3, Zenon
  <2>7. y = real
    BY <1>2, <2>2, <2>6, SeqEqual
  <2> QED
    BY <2>5, <2>6, <2>7
<1>8. Mirrored(cache', pass', real')
  BY <1>1, <1>3, <1>4, <1>5, <1>7, Zenon DEF Mirrored
<1>9. Buffered(pend', pass', real')
  <2>1. Waiting(pass', real') = NoneWaits
    BY <1>3 DEF Waiting, NoneWaits
  <2> QED
    BY <1>1, <1>4, <2>1 DEF Buffered
<1>10. Queried(query', pass', real')
  BY <1>1, <1>2, <1>3 DEF Queried
<1>11. Sized(pass', real')
  BY <1>2, <1>3, <1>6 DEF Sized
<1> QED
  BY <1>8, <1>9, <1>10, <1>11 DEF Shadowing

\* What holds of a pass in progress whose cache shadows the sequence.
LEMMA PassInProgress ==
  ASSUME ShadowInv, pass # Callback!NoPass, rejects = 0
  PROVE  /\ pass \in PassType /\ pass.layer \in 0 .. NLayers - 1 /\ pass.size \in Nat \ {0} /\ real \in Seq(Nat)
         /\ pass.size <= Len(real) /\ Callback!PassTokens = InPass(pass, real)
         /\ (pass.size > 1 => Len(real) = pass.size)
         /\ Mirrored(cache, pass, real) /\ Buffered(pend, pass, real) /\ Queried(query, pass, real)
         /\ pend \in [0 .. NLayers - 1 -> PendType]
<1>1. CallbackInv /\ Shadowing
  BY DEF ShadowInv
<1>2. pass \in PassType /\ pass.layer \in 0 .. NLayers - 1
  BY <1>1, PassTokensType
<1>3. real \in Seq(Nat) /\ pass.size <= Len(real) /\ pend \in [0 .. NLayers - 1 -> PendType]
  BY <1>1 DEF CallbackInv
<1>4. Callback!PassTokens = InPass(pass, real)
  BY DEF Callback!PassTokens, InPass
<1> QED
  BY <1>1, <1>2, <1>3, <1>4 DEF Shadowing, Sized

\* A tensor of a layer leaves the others where they were, and it as well
\* unless it completes the key and the value.
LEMMA SeenMore ==
  ASSUME NEW p \in PassType, NEW kind \in {"q", "k", "v"}, NEW r, r = [p EXCEPT !.seen = p.seen \cup {kind}]
  PROVE  /\ r \in PassType /\ r.layer = p.layer /\ r.size = p.size /\ r.seen = p.seen \cup {kind}
         /\ \A s : InPass(r, s) = InPass(p, s) /\ Prior(r, s) = Prior(p, s)
         /\ \A l \in 0 .. NLayers - 1 : l # p.layer => (Complete(r, l) <=> Complete(p, l))
         /\ (\A l \in 0 .. NLayers - 1 : Complete(r, l) <=> Complete(p, l)) \/ {"k", "v"} \subseteq r.seen
<1>1. r \in PassType /\ r.layer = p.layer /\ r.size = p.size /\ r.seen = p.seen \cup {kind}
  BY DEF PassType
<1>2. \A s : InPass(r, s) = InPass(p, s) /\ Prior(r, s) = Prior(p, s)
  <2>1. PICK n : n = p.size /\ n = r.size
    BY <1>1
  <2>2. \A s : InPass(r, s) = SubSeq(s, Len(s) - n + 1, Len(s)) /\ InPass(p, s) = SubSeq(s, Len(s) - n + 1, Len(s))
    BY <2>1, Zenon DEF InPass
  <2>3. ASSUME NEW s PROVE Prior(r, s) = Prior(p, s)
    <3>1. CASE n > 1
      BY <2>1, <3>1, Zenon DEF Prior
    <3>2. CASE ~ (n > 1)
      <4>1. ~ (r.size > 1) /\ ~ (p.size > 1)
        BY <2>1, <3>2
      <4>2. Prior(r, s) = SubSeq(s, 1, Len(s) - r.size) /\ Prior(p, s) = SubSeq(s, 1, Len(s) - p.size)
        BY <4>1, Zenon DEF Prior
      <4> QED
        BY <1>1, <4>2, Zenon
    <3> QED
      BY <3>1, <3>2
  <2> QED
    BY <2>2, <2>3, Zenon
<1>3. \A l \in 0 .. NLayers - 1 : l # p.layer => (Complete(r, l) <=> Complete(p, l))
  BY <1>1 DEF Complete
<1>4. ~ ({"k", "v"} \subseteq r.seen) => \A l \in 0 .. NLayers - 1 : Complete(r, l) <=> Complete(p, l)
  BY <1>1 DEF Complete
<1> QED
  BY <1>1, <1>2, <1>3, <1>4

\* A query: captured, and nothing else.
LEMMA QueryShadows ==
  ASSUME ShadowInv, Callback!QueryTensor
  PROVE  rejects = 0 => Shadowing'
<1> SUFFICES ASSUME rejects = 0 PROVE Shadowing'
  OBVIOUS
<1>1. /\ pass # Callback!NoPass /\ "q" \notin pass.seen /\ pass' = [pass EXCEPT !.seen = pass.seen \cup {"q"}]
      /\ query' = [query EXCEPT ![pass.layer] = Callback!PassTokens] /\ UNCHANGED <<cache, real, pend>>
  BY DEF Callback!QueryTensor, Callback!Fired
<1>2. /\ pass \in PassType /\ pass.layer \in 0 .. NLayers - 1 /\ pass.size \in Nat \ {0} /\ real \in Seq(Nat)
      /\ Callback!PassTokens = InPass(pass, real) /\ (pass.size > 1 => Len(real) = pass.size)
      /\ Mirrored(cache, pass, real) /\ Buffered(pend, pass, real) /\ Queried(query, pass, real)
  BY <1>1, PassInProgress
<1>3. PICK r : r = pass'
  OBVIOUS
<1>4. /\ r.layer = pass.layer /\ r.size = pass.size /\ r.seen = pass.seen \cup {"q"}
      /\ \A s : InPass(r, s) = InPass(pass, s) /\ Prior(r, s) = Prior(pass, s)
  BY <1>1, <1>2, <1>3, SeenMore
<1>5. \A l \in 0 .. NLayers - 1 : Complete(r, l) <=> Complete(pass, l)
  BY <1>4 DEF Complete
<1>6. 0 \in 0 .. NLayers - 1
  BY CacheConstants
<1>7. Mirrored(cache, r, real)
  BY <1>2, <1>4, <1>5, <1>6 DEF Mirrored
<1>8. Buffered(pend, r, real)
  <2>1. Waiting(r, real) = Waiting(pass, real)
    BY <1>4 DEF Waiting
  <2> QED
    BY <1>2, <1>4, <2>1 DEF Buffered
<1>9. Queried(query', r, real)
  BY <1>1, <1>2, <1>4 DEF Queried
<1>10. Sized(r, real)
  BY <1>2, <1>4 DEF Sized
<1> QED
  BY <1>1, <1>3, <1>7, <1>8, <1>9, <1>10 DEF Shadowing

\* kqv_out: every layer up to this one is complete.
LEMMA KqvShadows ==
  ASSUME ShadowInv, NEW fails \in BOOLEAN, Callback!KqvOut(fails)
  PROVE  rejects = 0 => Shadowing'
<1> SUFFICES ASSUME rejects = 0 PROVE Shadowing'
  OBVIOUS
<1>1. /\ pass # Callback!NoPass /\ pass.seen = {"q", "k", "v"} /\ UNCHANGED <<cache, real, pend, query>>
      /\ pass' = IF pass.layer + 1 < NLayers THEN [pass EXCEPT !.layer = pass.layer + 1, !.seen = {}] ELSE Callback!NoPass
  BY Zenon DEF Callback!KqvOut, Callback!Kinds
<1>2. /\ pass \in PassType /\ pass.layer \in 0 .. NLayers - 1 /\ pass.size \in Nat \ {0} /\ real \in Seq(Nat)
      /\ (pass.size > 1 => Len(real) = pass.size)
      /\ Mirrored(cache, pass, real) /\ Buffered(pend, pass, real) /\ Queried(query, pass, real)
  BY <1>1, PassInProgress
<1>3. PICK r, l : r = pass' /\ l = pass.layer
  OBVIOUS
<1>4. NLayers \in Nat /\ l \in 0 .. NLayers - 1
  BY <1>2, <1>3, CacheConstants
<1>5. \A i \in 0 .. NLayers - 1 : Complete(pass, i) <=> i <= l
  BY <1>1, <1>3, <1>4 DEF Complete
<1>6. r = Callback!NoPass \/ (r.layer = l + 1 /\ r.size = pass.size)
  BY <1>1, <1>2, <1>3 DEF PassType
<1>7. r.seen = {}
  BY <1>1, <1>2, <1>3, WithoutPass DEF PassType
<1>8. r = Callback!NoPass => l = NLayers - 1
  <2>1. l + 1 < NLayers => r # Callback!NoPass
    <3>1. ASSUME l + 1 < NLayers PROVE r \in PassType
      <4>1. l + 1 \in 0 .. NLayers - 1
        BY <1>4, <3>1
      <4> QED
        BY <1>1, <1>2, <1>3, <3>1, <4>1 DEF PassType
    <3> QED
      BY <3>1, WithoutPass
  <2> QED
    BY <1>4, <2>1
<1>9. \A i \in 0 .. NLayers - 1 : Complete(r, i) <=> Complete(pass, i)
  <2>1. CASE r = Callback!NoPass
    <3>1. \A i \in 0 .. NLayers - 1 : i <= l
      BY <1>4, <1>8, <2>1
    <3> QED
      BY <1>5, <2>1, <3>1, WithoutPass
  <2>2. CASE r.layer = l + 1 /\ r.size = pass.size
    <3>1. \A i \in 0 .. NLayers - 1 : i < l + 1 <=> i <= l
      BY <1>4
    <3>2. ~ ({"k", "v"} \subseteq r.seen)
      BY <1>7
    <3> QED
      BY <1>5, <2>2, <3>1, <3>2 DEF Complete
  <2> QED
    BY <1>6, <2>1, <2>2
<1>10. Mirrored(cache, r, real)
  <2>1. CASE r = Callback!NoPass
    BY <1>2, <1>9, <2>1, WithoutPass DEF Mirrored
  <2>2. CASE r.layer = l + 1 /\ r.size = pass.size
    <3>1. Prior(r, real) = Prior(pass, real) /\ 0 \in 0 .. NLayers - 1
      BY <1>4, <2>2 DEF Prior
    <3> QED
      BY <1>2, <1>9, <2>2, <3>1 DEF Mirrored
  <2> QED
    BY <1>6, <2>1, <2>2
<1>11. Buffered(pend, r, real)
  <2>1. Waiting(pass, real) = NoneWaits /\ Waiting(r, real) = NoneWaits
    BY <1>1, <1>7 DEF Waiting, NoneWaits
  <2> QED
    BY <1>2, <2>1 DEF Buffered
<1>12. Queried(query, r, real)
  BY <1>2, <1>7 DEF Queried
<1>13. Sized(r, real)
  BY <1>2, <1>6, WithoutPass DEF Sized
<1> QED
  BY <1>1, <1>3, <1>10, <1>11, <1>12, <1>13 DEF Shadowing

\* A key or a value, whose counterpart has come or has not.
LEMMA TensorFires ==
  ASSUME ShadowInv, rejects = 0, NEW kind \in Callback!Kinds, NEW fault \in Callback!UploadFaults,
         Callback!KvTensor(kind, fault)
  PROVE  /\ pass # Callback!NoPass /\ pass' = [pass EXCEPT !.seen = pass.seen \cup {kind}]
         /\ kind \in {"k", "v"} /\ kind \notin pass.seen /\ UNCHANGED <<real, query>>
         /\ IF {"k", "v"} \subseteq pass'.seen
            THEN /\ Callback!AppendLayer(pass.layer, Paired(InPass(pass, real)), fault)
                 /\ pend' = [pend EXCEPT ![pass.layer] = NoneWaits]
            ELSE pend' = [pend EXCEPT ![pass.layer] = Waiting(pass', real)] /\ cache' = cache
<1>1. /\ pass # Callback!NoPass /\ kind \notin pass.seen /\ pass' = [pass EXCEPT !.seen = pass.seen \cup {kind}]
      /\ kind \in {"k", "v"} /\ real' = real /\ query' = query
  BY DEF Callback!KvTensor, Callback!Fired
<1>2. /\ pass \in PassType /\ pass.layer \in 0 .. NLayers - 1 /\ pass.size \in Nat \ {0} /\ real \in Seq(Nat)
      /\ pass.size <= Len(real) /\ Callback!PassTokens = InPass(pass, real)
      /\ (pass.size > 1 => Len(real) = pass.size)
      /\ Buffered(pend, pass, real) /\ pend \in [0 .. NLayers - 1 -> PendType]
  BY <1>1, PassInProgress
<1>3. PICK l, xs : l = pass.layer /\ xs = InPass(pass, real)
  OBVIOUS
<1>4. xs \in Seq(Nat) /\ Len(xs) = pass.size /\ xs # <<>>
  <2>1. xs \in Seq(Nat) /\ Len(xs) = pass.size
    BY <1>2, <1>3, PassParts
  <2> QED
    BY <1>2, <2>1
<1>5. PICK both : both = [pend[l] EXCEPT ![kind] = Callback!PassTokens]
  OBVIOUS
<1>6. pass'.seen = pass.seen \cup {kind} /\ InPass(pass', real) = xs
  BY <1>1, <1>2, <1>3, SeenMore
<1>7. pend[l] = Waiting(pass, real)
  BY <1>2, <1>3 DEF Buffered
<1>8. PICK ks, vs : both = [k |-> ks, v |-> vs] /\ ks = both.k /\ vs = both.v
        /\ ks = (IF "k" \in pass'.seen THEN xs ELSE <<>>) /\ vs = (IF "v" \in pass'.seen THEN xs ELSE <<>>)
  <2>1. PICK a, b : pend[l] = [k |-> a, v |-> b] /\ a = (IF "k" \in pass.seen /\ "v" \notin pass.seen THEN xs ELSE <<>>)
                      /\ b = (IF "v" \in pass.seen /\ "k" \notin pass.seen THEN xs ELSE <<>>)
    BY <1>3, <1>7 DEF Waiting
  <2>2. CASE kind = "k"
    <3>1. both = [k |-> xs, v |-> b]
      <4>1. both = [[k |-> a, v |-> b] EXCEPT !["k"] = xs]
        BY <1>2, <1>3, <1>5, <2>1, <2>2, Zenon
      <4> QED
        BY ONLY <4>1
    <3> QED
      BY <1>1, <1>6, <2>1, <2>2, <3>1
  <2>3. CASE kind = "v"
    <3>1. both = [k |-> a, v |-> xs]
      <4>1. both = [[k |-> a, v |-> b] EXCEPT !["v"] = xs]
        BY <1>2, <1>3, <1>5, <2>1, <2>3, Zenon
      <4> QED
        BY ONLY <4>1
    <3> QED
      BY <1>1, <1>6, <2>1, <2>3, <3>1
  <2> QED
    BY <1>1, <2>2, <2>3
<1>9. CASE {"k", "v"} \subseteq pass'.seen
  <2>1. ks = xs /\ vs = xs
    BY <1>8, <1>9
  <2>2. Callback!AppendLayer(l, Callback!Pair(xs, xs), fault) /\ pend' = [pend EXCEPT ![l] = Callback!Clean[l]]
    BY <1>3, <1>4, <1>5, <1>8, <2>1, Zenon DEF Callback!KvTensor
  <2>3. Callback!Clean[l] = NoneWaits
    BY <1>2, <1>3, KvSlotsAre DEF Callback!Clean, NoneWaits
  <2>4. Callback!Pair(xs, xs) = Paired(xs)
    BY <1>4, PairedType
  <2> QED
    BY <1>1, <1>3, <1>9, <2>2, <2>3, <2>4
<1>10. CASE ~ ({"k", "v"} \subseteq pass'.seen)
  <2>1. ks = <<>> \/ vs = <<>>
    BY <1>8, <1>10
  <2>2. pend' = [pend EXCEPT ![l] = both] /\ cache' = cache
    BY <1>3, <1>5, <1>8, <2>1, Zenon DEF Callback!KvTensor
  <2>3. both = Waiting(pass', real)
    BY <1>6, <1>8, <1>10 DEF Waiting
  <2> QED
    BY <1>1, <1>3, <1>10, <2>2, <2>3
<1> QED
  BY <1>9, <1>10

LEMMA TensorShadows ==
  ASSUME ShadowInv, NEW kind \in Callback!Kinds, NEW fault \in Callback!UploadFaults, Callback!KvTensor(kind, fault)
  PROVE  rejects = 0 => Shadowing'
<1> SUFFICES ASSUME rejects = 0 PROVE Shadowing'
  OBVIOUS
<1>1. /\ pass # Callback!NoPass /\ pass' = [pass EXCEPT !.seen = pass.seen \cup {kind}]
      /\ kind \in {"k", "v"} /\ kind \notin pass.seen /\ UNCHANGED <<real, query>>
      /\ IF {"k", "v"} \subseteq pass'.seen
         THEN /\ Callback!AppendLayer(pass.layer, Paired(InPass(pass, real)), fault)
              /\ pend' = [pend EXCEPT ![pass.layer] = NoneWaits]
         ELSE pend' = [pend EXCEPT ![pass.layer] = Waiting(pass', real)] /\ cache' = cache
  BY TensorFires
<1>2. /\ pass \in PassType /\ pass.layer \in 0 .. NLayers - 1 /\ pass.size \in Nat \ {0} /\ real \in Seq(Nat)
      /\ pass.size <= Len(real) /\ (pass.size > 1 => Len(real) = pass.size)
      /\ Mirrored(cache, pass, real) /\ Buffered(pend, pass, real) /\ Queried(query, pass, real)
      /\ pend \in [0 .. NLayers - 1 -> PendType]
  BY <1>1, PassInProgress
<1>3. PICK r, l, s : r = pass' /\ l = pass.layer /\ s = real
  OBVIOUS
<1>4. /\ r.layer = l /\ r.size = pass.size /\ r.seen = pass.seen \cup {kind}
      /\ InPass(r, s) = InPass(pass, s) /\ Prior(r, s) = Prior(pass, s)
      /\ \A i \in 0 .. NLayers - 1 : i # l => (Complete(r, i) <=> Complete(pass, i))
      /\ (\A i \in 0 .. NLayers - 1 : Complete(r, i) <=> Complete(pass, i)) \/ {"k", "v"} \subseteq r.seen
  BY <1>1, <1>2, <1>3, SeenMore
<1>5. 0 \in 0 .. NLayers - 1 /\ l \in 0 .. NLayers - 1
  BY <1>2, <1>3, CacheConstants
<1>6. Queried(query', r, s)
  BY <1>1, <1>2, <1>3, <1>4 DEF Queried
<1>7. Sized(r, s)
  BY <1>2, <1>3, <1>4 DEF Sized
<1>8. CASE ~ ({"k", "v"} \subseteq r.seen)
  <2>1. pend' = [pend EXCEPT ![l] = Waiting(r, s)] /\ cache' = cache
    BY <1>1, <1>3, <1>8
  <2>2. Mirrored(cache, r, s)
    BY <1>2, <1>3, <1>4, <1>5, <1>8 DEF Mirrored
  <2>3. Buffered(pend', r, s)
    BY <1>2, <1>3, <1>4, <1>5, <2>1 DEF Buffered
  <2> QED
    BY <1>1, <1>3, <1>6, <1>7, <2>1, <2>2, <2>3 DEF Shadowing
<1>9. CASE {"k", "v"} \subseteq r.seen
  <2>1. PICK xs, ys \in Seq(Nat) : xs = InPass(pass, s) /\ ys = Prior(pass, s) /\ Len(xs) = pass.size /\ ys \o xs = s
    BY <1>2, <1>3, PassParts
  <2>2. Callback!AppendLayer(l, Paired(xs), fault) /\ pend' = [pend EXCEPT ![l] = NoneWaits]
    BY <1>1, <1>3, <1>9, <2>1
  <2>3. PICK toks, f \in Seq(KvToken) : toks = Paired(xs) /\ f = Paired(ys) /\ Len(toks) = pass.size /\ f \o toks = Paired(s)
    <3>1. Paired(xs) \in Seq(KvToken) /\ Paired(ys) \in Seq(KvToken) /\ Len(Paired(xs)) = pass.size
      BY <2>1, PairedType
    <3>2. Paired(ys) \o Paired(xs) = Paired(s)
      BY <2>1, PairedJoins
    <3> QED
      BY <3>1, <3>2
  <2>4. PICK fresh : fresh = (Len(toks) > 1 /\ l = 0)
    OBVIOUS
  <2>5. fresh => f = <<>> /\ pass.size > 1
    <3>1. ASSUME fresh PROVE f = <<>> /\ pass.size > 1
      <4>1. pass.size > 1
        BY <2>3, <2>4, <3>1
      <4>2. ys = <<>>
        BY <2>1, <4>1 DEF Prior
      <4>3. Len(f) = 0
        BY <2>3, <4>2, PairedType
      <4> QED
        BY <4>1, <4>3
    <3> QED
      BY <3>1
  <2>6. ~ Complete(pass, l)
    BY <1>1, <1>3, <1>5 DEF Complete
  <2>7. ~ fresh => (pass.size > 1 => Complete(pass, 0))
    <3>1. ~ fresh /\ pass.size > 1 => l # 0
      BY <2>3, <2>4
    <3>2. l # 0 => 0 < l
      BY <1>5, CacheConstants
    <3> QED
      BY <1>3, <3>1, <3>2, Zenon DEF Complete
  <2>8. \A i \in 0 .. NLayers - 1 : ~ Complete(pass, i) /\ ~ fresh => Holds(cache, i, f)
    BY <1>2, <1>3, <2>1, <2>3, <2>7 DEF Mirrored
  <2>9. /\ Holds(cache', l, f \o toks)
        /\ \A i \in 0 .. NLayers - 1, g \in Seq(KvToken) :
             i # l /\ (IF fresh THEN g = <<>> ELSE Holds(cache, i, g)) => Holds(cache', i, g)
    <3>1. IF fresh THEN f = <<>> ELSE Holds(cache, l, f)
      BY <1>5, <2>5, <2>6, <2>8
    <3>2. CallbackInv /\ Callback!AppendLayer(l, toks, fault)
      BY <2>2, <2>3 DEF ShadowInv
    <3> QED
      BY <1>5, <2>4, <3>1, <3>2, AppendLayerFills
  <2>10. ASSUME NEW i \in 0 .. NLayers - 1, Complete(r, i) PROVE Holds(cache', i, Paired(s))
    <3>1. CASE i = l
      BY <2>3, <2>9, <3>1
    <3>2. CASE i # l
      <4>1. Complete(pass, i)
        BY <1>4, <2>10, <3>2
      <4>2. Holds(cache, i, Paired(s))
        BY <1>2, <1>3, <4>1 DEF Mirrored
      <4>3. i < l
        BY <1>3, <3>2, <4>1 DEF Complete
      <4>4. ~ fresh
        <5>1. l # 0
          BY <4>3
        <5> QED
          BY <2>4, <5>1
      <4>5. Paired(s) \in Seq(KvToken)
        BY <1>2, <1>3, PairedType
      <4> QED
        BY <2>9, <3>2, <4>2, <4>4, <4>5
    <3> QED
      BY <3>1, <3>2
  <2>11. ASSUME NEW i \in 0 .. NLayers - 1, ~ Complete(r, i) PROVE Holds(cache', i, Paired(Prior(r, s)))
    <3>1. i # l
      BY <1>4, <1>9, <2>11 DEF Complete
    <3>2. ~ Complete(pass, i)
      BY <1>4, <2>11, <3>1
    <3>3. IF fresh THEN f = <<>> ELSE Holds(cache, i, f)
      BY <2>5, <2>8, <3>2
    <3>4. Holds(cache', i, f)
      BY <2>9, <3>1, <3>3
    <3> QED
      BY <1>4, <2>1, <2>3, <3>4
  <2>12. Mirrored(cache', r, s)
    BY <2>10, <2>11 DEF Mirrored
  <2>13. Buffered(pend', r, s)
    <3>1. Waiting(r, s) = NoneWaits
      BY <1>9 DEF Waiting, NoneWaits
    <3> QED
      BY <1>2, <1>3, <1>4, <1>5, <2>2, <3>1 DEF Buffered
  <2> QED
    BY <1>1, <1>3, <1>6, <1>7, <2>12, <2>13 DEF Shadowing
<1> QED
  BY <1>8, <1>9

-----------------------------------------------------------------------------
(* What a query sees of a head. *)

Row == [pos : Nat, tok : KvToken]

\* The rows of f after the first a, up to the b-th.
Shown(f, a, b) == [j \in 1 .. b - a |-> [pos |-> a + j - 1, tok |-> f[a + j]]]
AtMost(x, p) == IF x <= p THEN x ELSE p

LEMMA ShownType ==
  ASSUME NEW f \in Seq(KvToken), NEW a \in Nat, NEW b \in Nat, a <= b, b <= Len(f)
  PROVE  Shown(f, a, b) \in Seq(Row) /\ Len(Shown(f, a, b)) = b - a
<1>1. ASSUME NEW j \in 1 .. b - a PROVE [pos |-> a + j - 1, tok |-> f[a + j]] \in Row
  <2>1. a + j - 1 \in Nat /\ a + j \in 1 .. Len(f)
    OBVIOUS
  <2>2. f[a + j] \in KvToken
    BY <2>1
  <2> QED
    BY <2>1, <2>2 DEF Row
<1>2. b - a \in Nat
  OBVIOUS
<1> QED
  BY <1>1, <1>2 DEF Shown

LEMMA ShownJoins ==
  ASSUME NEW f \in Seq(KvToken), NEW a \in Nat, NEW b \in Nat, a <= b, b <= Len(f)
  PROVE  Shown(f, 0, a) \o Shown(f, a, b) = Shown(f, 0, b)
<1>1. PICK x, y, z \in Seq(Row) : x = Shown(f, 0, a) /\ y = Shown(f, a, b) /\ z = Shown(f, 0, b)
                                 /\ Len(x) = a /\ Len(y) = b - a /\ Len(z) = b
  <2>1. Len(f) \in Nat /\ 0 \in Nat /\ 0 <= a /\ a <= Len(f) /\ 0 <= b
    OBVIOUS
  <2>2. Shown(f, 0, a) \in Seq(Row) /\ Len(Shown(f, 0, a)) = a - 0
    BY <2>1, ShownType
  <2>3. Shown(f, a, b) \in Seq(Row) /\ Len(Shown(f, a, b)) = b - a
    BY ShownType
  <2>4. Shown(f, 0, b) \in Seq(Row) /\ Len(Shown(f, 0, b)) = b - 0
    BY <2>1, ShownType
  <2>5. a - 0 = a /\ b - 0 = b
    OBVIOUS
  <2> QED
    BY <2>2, <2>3, <2>4, <2>5, Zenon
<1>2. /\ \A j \in 1 .. a : x[j] = [pos |-> j - 1, tok |-> f[j]]
      /\ \A j \in 1 .. b - a : y[j] = [pos |-> a + j - 1, tok |-> f[a + j]]
      /\ \A j \in 1 .. b : z[j] = [pos |-> j - 1, tok |-> f[j]]
  BY <1>1 DEF Shown
<1>3. PICK w \in Seq(Row) : w = x \o y /\ Len(w) = b
  <2>1. x \o y \in Seq(Row) /\ Len(x \o y) = Len(x) + Len(y)
    BY JoinParts
  <2>2. a + (b - a) = b
    OBVIOUS
  <2> QED
    BY <1>1, <2>1, <2>2, Zenon
<1>4. /\ \A j \in 1 .. Len(x) : (x \o y)[j] = x[j]
      /\ \A j \in 1 .. Len(y) : (x \o y)[Len(x) + j] = y[j]
  BY JoinParts
<1>5. ASSUME NEW i \in 1 .. b PROVE w[i] = z[i]
  <2>1. CASE i <= a
    <3>1. i \in 1 .. a
      BY <2>1
    <3> QED
      BY <1>1, <1>2, <1>3, <1>4, <3>1
  <2>2. CASE ~ (i <= a)
    <3>1. PICK j \in 1 .. b - a : i = a + j
      <4>1. i - a \in 1 .. b - a /\ i = a + (i - a)
        BY <2>2
      <4> QED
        BY <4>1, Zenon
    <3>2. w[i] = y[j]
      BY <1>1, <1>3, <1>4, <3>1, Zenon
    <3>3. y[j] = [pos |-> a + j - 1, tok |-> f[a + j]] /\ z[i] = [pos |-> i - 1, tok |-> f[i]]
      BY <1>2, Zenon
    <3>4. a + j - 1 = i - 1
      BY <3>1
    <3> QED
      BY <3>1, <3>2, <3>3, <3>4, Zenon
  <2> QED
    BY <2>1, <2>2
<1>6. w = z
  BY <1>1, <1>3, <1>5, SeqEqual
<1> QED
  BY <1>1, <1>3, <1>6

\* The rows of a run of f's tokens that a query sees, p being the first it does not.
RunOf(toks, f, a, n) == Len(toks) = n /\ \A j \in 1 .. n : toks[j] = f[a + j]
Locates(a, toks, q, f, n) == Callback!Located(a, toks, q) = Shown(f, AtMost(a, q + 1), AtMost(a + n, q + 1))

LEMMA LocatedIs ==
  ASSUME NEW f, NEW a \in Nat, NEW n \in Nat, NEW toks, RunOf(toks, f, a, n), NEW q \in Nat
  PROVE  Locates(a, toks, q, f, n)
<1> SUFFICES Callback!Located(a, toks, q) = Shown(f, AtMost(a, q + 1), AtMost(a + n, q + 1))
  BY DEF Locates
<1>1. PICK seen : seen = {i \in 1 .. n : a + i - 1 <= q}
  OBVIOUS
<1>2. Callback!Located(a, toks, q) = [i \in seen |-> [pos |-> a + i - 1, tok |-> f[a + i]]]
  <2>1. Callback!Located(a, toks, q) = [i \in seen |-> [pos |-> a + i - 1, tok |-> toks[i]]]
    BY <1>1 DEF Callback!Located, RunOf
  <2>2. \A i \in seen : toks[i] = f[a + i]
    BY <1>1 DEF RunOf
  <2> QED
    BY <2>1, <2>2
<1>3. CASE a <= q + 1
  <2>1. PICK b \in Nat : b = AtMost(a + n, q + 1) /\ a <= b /\ seen = 1 .. b - a
    <3>1. CASE a + n <= q + 1
      <4>1. seen = 1 .. n /\ (a + n) - a = n
        BY <1>1, <3>1
      <4> QED
        BY <3>1, <4>1 DEF AtMost
    <3>2. CASE ~ (a + n <= q + 1)
      <4>1. seen = 1 .. (q + 1) - a
        BY <1>1, <1>3, <3>2
      <4> QED
        BY <1>3, <3>2, <4>1 DEF AtMost
    <3> QED
      BY <3>1, <3>2
  <2>2. AtMost(a, q + 1) = a
    BY <1>3 DEF AtMost
  <2> QED
    BY <1>2, <2>1, <2>2 DEF Shown
<1>4. CASE ~ (a <= q + 1)
  <2>1. AtMost(a, q + 1) = q + 1 /\ AtMost(a + n, q + 1) = q + 1 /\ (q + 1) - (q + 1) = 0
    BY <1>4 DEF AtMost
  <2>2. seen = {} /\ 1 .. 0 = {}
    BY <1>1, <1>4
  <2>3. Shown(f, q + 1, q + 1) = [j \in 1 .. 0 |-> [pos |-> (q + 1) + j - 1, tok |-> f[(q + 1) + j]]]
    BY <2>1 DEF Shown
  <2> QED
    BY <1>2, <2>1, <2>2, <2>3
<1> QED
  BY <1>3, <1>4

\* The rows a query sees of a head that holds f: the first q + 1.
LEMMA AttendedIs ==
  ASSUME NEW c, NEW l, NEW h, NEW g \in KvHead, g = c.heads[<<l, h>>], NEW f, Carries(g, f),
         NEW q \in Nat, q < Len(f), Callback!TailServed(c, l) \/ g.active = <<>>
  PROVE  Callback!Attended(c, l, h, q) = Shown(f, 0, q + 1)
<1>1. PICK m, more, n \in Nat, size \in Nat \ {0} :
        m = Len(g.sealed) /\ more = Len(g.active) /\ n = Len(f) /\ size = PageSize
  <2>1. Len(g.active) \in Nat /\ g.sealed \in Seq(KvPage)
    BY HeadCounts
  <2>2. Len(g.sealed) \in Nat /\ Len(f) \in Nat
    BY <2>1 DEF Carries
  <2> QED
    BY <2>1, <2>2, SealConstants, Zenon
<1>2. /\ f \in Seq(KvToken) /\ g.begin = m * size /\ g.begin + more = n /\ g.begin \in Nat
      /\ \A i \in 1 .. m : g.sealed[i].begin = (i - 1) * size /\ Len(g.sealed[i].toks) = size
      /\ \A i \in 1 .. m, j \in 1 .. size : g.sealed[i].toks[j] = f[(i - 1) * size + j]
      /\ \A j \in 1 .. more : g.active[j] = f[g.begin + j]
  BY <1>1, HeadCounts DEF Carries, Regular
<1>3. PICK seqs : seqs = [i \in 1 .. m |-> Callback!Located(g.sealed[i].begin, g.sealed[i].toks, q)]
  OBVIOUS
<1>4. PICK end : end = [i \in 0 .. m |-> AtMost(i * size, q + 1)]
  OBVIOUS
<1>5. /\ end[0] = 0 /\ end[m] = AtMost(g.begin, q + 1)
      /\ \A i \in 0 .. m : end[i] \in Nat /\ end[i] <= n
      /\ \A i \in 1 .. m : end[i - 1] <= end[i] /\ end[i] = AtMost((i - 1) * size + size, q + 1)
  <2>1. \A i \in 0 .. m : end[i] = AtMost(i * size, q + 1) /\ i * size \in Nat
    BY <1>4, Monotone
  <2>2. 0 * size = 0 /\ 0 \in 0 .. m /\ m \in 0 .. m
    BY <1>1
  <2>3. end[0] = 0 /\ end[m] = AtMost(g.begin, q + 1)
    BY <1>2, <2>1, <2>2 DEF AtMost
  <2>4. ASSUME NEW i \in 0 .. m PROVE end[i] \in Nat /\ end[i] <= n
    <3>1. PICK a \in Nat : a = i * size /\ end[i] = AtMost(a, q + 1)
      BY <2>1
    <3> QED
      BY <1>1, <3>1 DEF AtMost
  <2>5. ASSUME NEW i \in 1 .. m PROVE end[i - 1] <= end[i] /\ end[i] = AtMost((i - 1) * size + size, q + 1)
    <3>1. PICK k \in 0 .. m : k = i - 1 /\ i = k + 1 /\ i \in 0 .. m
      BY <1>1
    <3>2. PICK a \in Nat : a = k * size /\ (k + 1) * size = a + size
      BY <1>1, <3>1, Monotone
    <3>3. end[k] = AtMost(a, q + 1) /\ end[i] = AtMost(a + size, q + 1)
      BY <2>1, <3>1, <3>2
    <3>4. AtMost(a, q + 1) <= AtMost(a + size, q + 1)
      BY <1>1 DEF AtMost
    <3> QED
      BY <3>1, <3>2, <3>3, <3>4
  <2> QED
    BY <2>3, <2>4, <2>5
<1>6. \A i \in 1 .. m : seqs[i] = Shown(f, end[i - 1], end[i])
  <2> SUFFICES ASSUME NEW i \in 1 .. m PROVE seqs[i] = Shown(f, end[i - 1], end[i])
    OBVIOUS
  <2>0. PICK toks : toks = g.sealed[i].toks
    OBVIOUS
  <2>1. PICK a \in Nat : a = (i - 1) * size
    <3>1. i - 1 \in Nat
      OBVIOUS
    <3> QED
      BY <3>1, Monotone
  <2>2. RunOf(toks, f, a, size) /\ seqs[i] = Callback!Located(a, toks, q)
    BY <1>2, <1>3, <2>0, <2>1 DEF RunOf
  <2>3. seqs[i] = Shown(f, AtMost(a, q + 1), AtMost(a + size, q + 1))
    <3>1. Locates(a, toks, q, f, size)
      BY <2>1, <2>2, LocatedIs
    <3> QED
      BY <2>2, <3>1 DEF Locates
  <2>4. i - 1 \in 0 .. m
    BY <1>1
  <2> QED
    BY <1>4, <1>5, <2>1, <2>3, <2>4
<1>7. PICK all : all = [i \in 1 .. m |-> Shown(f, 0, end[i])]
  OBVIOUS
<1>8. Callback!FlattenSeq(seqs) = Shown(f, 0, end[m])
  <2>1. 1 \in 1 .. m => all[1] = seqs[1]
    BY <1>5, <1>6, <1>7
  <2>2. ASSUME NEW i \in 1 .. m, i # 1 PROVE all[i] = all[i - 1] \o seqs[i]
    <3>1. i - 1 \in 1 .. m /\ i - 1 \in 0 .. m /\ i \in 0 .. m
      BY <2>2
    <3>2. PICK a, b \in Nat : a = end[i - 1] /\ b = end[i] /\ a <= b /\ b <= Len(f)
      BY <1>1, <1>5, <3>1
    <3>3. Shown(f, 0, a) \o Shown(f, a, b) = Shown(f, 0, b)
      BY <1>2, <3>2, ShownJoins
    <3> QED
      BY <1>6, <1>7, <3>1, <3>2, <3>3
  <2>3. seqs = [i \in 1 .. m |-> seqs[i]] /\ all = [i \in 1 .. m |-> all[i]]
    BY <1>3, <1>7
  <2>4. Callback!FlattenSeq(seqs) = IF m = 0 THEN <<>> ELSE all[m]
    <3>1. Gathers(all, seqs, m)
      BY <2>1, <2>2, <2>3, Zenon DEF Gathers
    <3> QED
      BY <3>1, FlattenSteps
  <2>5. m = 0 => Shown(f, 0, end[m]) = <<>>
    <3>1. 0 - 0 = 0
      OBVIOUS
    <3>2. Shown(f, 0, 0) = [j \in 1 .. 0 |-> [pos |-> 0 + j - 1, tok |-> f[0 + j]]]
      BY <3>1 DEF Shown
    <3>3. Shown(f, 0, 0) = <<>>
      BY <3>2
    <3> QED
      BY <1>5, <3>3
  <2>6. m # 0 => m \in 1 .. m
    BY <1>1
  <2> QED
    BY <1>7, <2>4, <2>5, <2>6
<1>9. PICK tail : tail = IF Callback!TailServed(c, l) THEN Callback!Located(g.begin, g.active, q) ELSE <<>>
  OBVIOUS
<1>10. Callback!Attended(c, l, h, q) = Callback!FlattenSeq(seqs) \o tail
  BY <1>1, <1>3, <1>9 DEF Callback!Attended
<1>11. tail = Shown(f, end[m], q + 1)
  <2>1. AtMost(g.begin + more, q + 1) = q + 1
    <3>1. g.begin + more = n /\ q < n
      BY <1>1, <1>2
    <3>2. n <= q + 1 => n = q + 1
      BY <3>1
    <3> QED
      BY <3>1, <3>2, Zenon DEF AtMost
  <2>2. Callback!Located(g.begin, g.active, q) = Shown(f, end[m], q + 1)
    <3>1. Callback!Located(g.begin, g.active, q) = Shown(f, AtMost(g.begin, q + 1), AtMost(g.begin + more, q + 1))
      <4>1. RunOf(g.active, f, g.begin, more)
        BY <1>1, <1>2 DEF RunOf
      <4>2. Locates(g.begin, g.active, q, f, more)
        BY <1>2, <4>1, LocatedIs
      <4> QED
        BY <4>2 DEF Locates
    <3> QED
      BY <1>5, <2>1, <3>1, Zenon
  <2>3. CASE Callback!TailServed(c, l)
    BY <1>9, <2>2, <2>3
  <2>4. CASE ~ Callback!TailServed(c, l)
    <3>1. more = 0
      BY <1>1, <2>4
    <3>2. end[m] = q + 1 /\ (q + 1) - (q + 1) = 0
      BY <1>2, <1>5, <2>1, <3>1
    <3>3. Shown(f, q + 1, q + 1) = [j \in 1 .. 0 |-> [pos |-> (q + 1) + j - 1, tok |-> f[(q + 1) + j]]]
      BY <3>2 DEF Shown
    <3>4. Shown(f, q + 1, q + 1) = <<>>
      BY <3>3
    <3> QED
      BY <1>9, <2>4, <3>2, <3>4
  <2> QED
    BY <2>3, <2>4
<1>12. end[m] \in Nat /\ end[m] <= q + 1 /\ q + 1 <= Len(f) /\ q + 1 \in Nat
  <2>1. m \in 0 .. m
    BY <1>1
  <2> QED
    BY <1>1, <1>2, <1>5, <2>1 DEF AtMost
<1>13. Shown(f, 0, end[m]) \o Shown(f, end[m], q + 1) = Shown(f, 0, q + 1)
  BY <1>2, <1>12, ShownJoins
<1> QED
  BY <1>8, <1>10, <1>11, <1>13

-----------------------------------------------------------------------------
(* What kqv_out is overwritten with. *)

\* The rows of a pass over s, in which each query has seen what is not after it.
Causal(s, p) == [i \in 1 .. p |-> [pos |-> i - 1, tok |-> [k |-> s[i], v |-> s[i]]]]
Exactly(rows, s) ==
  \A r \in 1 .. Len(rows) :
    /\ rows[r].q = s[Len(s) - Len(rows) + r]
    /\ \A h \in 0 .. NHeads - 1 : rows[r].seen[h] = Causal(s, Len(s) - Len(rows) + r)

Lost(c, l) == ~ Callback!TailServed(c, l) /\ \E h \in 0 .. NHeads - 1 : c.heads[<<l, h>>].active # <<>>

\* ServedExact over what it reads.
ServedWell(given, c, s, turned) ==
  given.layer \in 0 .. NLayers - 1 /\ turned = 0 /\ ~ Lost(c, given.layer) => Exactly(given.rows, s)

LEMMA ServedIs == Callback!ServedExact <=> ServedWell(served, cache, real, rejects)
<1>1. Callback!LayerRange = 0 .. NLayers - 1 /\ Callback!Heads = 0 .. NHeads - 1
  BY KvSlotsAre
<1> QED
  BY <1>1, Zenon DEF Callback!ServedExact, Callback!TailLost, ServedWell, Lost, Exactly, Causal

LEMMA ServedNext == Callback!ServedExact' <=> ServedWell(served', cache', real', rejects')
<1>1. (Callback!ServedExact <=> ServedWell(served, cache, real, rejects))'
  BY ServedIs, PTL
<1> QED
  BY <1>1

LEMMA ShownCausal ==
  ASSUME NEW s \in Seq(Nat), NEW p \in Nat, p <= Len(s)
  PROVE  Shown(Paired(s), 0, p) = Causal(s, p)
<1>1. p - 0 = p /\ \A j \in 1 .. p : 0 + j - 1 = j - 1 /\ 0 + j = j /\ j \in 1 .. Len(s)
  OBVIOUS
<1>2. \A j \in 1 .. Len(s) : Paired(s)[j] = [k |-> s[j], v |-> s[j]]
  BY DEF Paired
<1> QED
  BY <1>1, <1>2 DEF Shown, Causal

\* The rows kqv_out computes when nothing has been turned away or lost.
LEMMA RowsExact ==
  ASSUME ShadowInv, rejects = 0, pass # Callback!NoPass, pass.seen = {"q", "k", "v"},
         NEW l, l = pass.layer, ~ Lost(cache, l)
  PROVE  Exactly(Callback!Rows(l), real)
<1>1. /\ l \in 0 .. NLayers - 1 /\ pass.size \in Nat \ {0} /\ real \in Seq(Nat) /\ pass.size <= Len(real)
      /\ (pass.size > 1 => Len(real) = pass.size) /\ Mirrored(cache, pass, real) /\ Queried(query, pass, real)
  BY PassInProgress
<1>2. PICK size, total \in Nat : size = pass.size /\ total = Len(real)
  <2>1. pass.size \in Nat /\ Len(real) \in Nat
    BY <1>1
  <2> QED
    BY <2>1, Zenon
<1>3. PICK f \in Seq(KvToken) : f = Paired(real) /\ Len(f) = total
  BY <1>1, <1>2, PairedType
<1>4. \A h \in 0 .. NHeads - 1 : Carries(cache.heads[<<l, h>>], f)
  <2>1. Complete(pass, l)
    BY DEF Complete
  <2> QED
    BY <1>1, <1>3, <2>1 DEF Mirrored, Holds
<1>5. tok[l] = total
  <2>1. tok[l] \in Nat
    BY <1>1 DEF ShadowInv, CallbackInv
  <2>2. 0 \in 0 .. NHeads - 1
    BY CacheConstants
  <2>3. Regular(cache.heads[<<l, 0>>], tok[l]) /\ Regular(cache.heads[<<l, 0>>], total)
    BY <1>1, <1>3, <1>4, <2>2 DEF ShadowInv, CallbackInv, Carries
  <2> QED
    BY <2>1, <2>3 DEF Regular
<1>6. query[l] = InPass(pass, real) /\ \A r \in 1 .. size : InPass(pass, real)[r] = real[total - size + r]
  <2>1. \A r \in 1 .. pass.size : InPass(pass, real)[r] = real[Len(real) - pass.size + r]
    BY <1>1, PassParts
  <2> QED
    BY <1>1, <1>2, <2>1 DEF Queried
<1>7. PICK rows : rows = Callback!Rows(l)
  OBVIOUS
<1>8. rows = [r \in 1 .. size |-> [q |-> query[l][r],
                seen |-> [h \in 0 .. NHeads - 1 |-> Callback!Attended(cache, l, h, total - size + r - 1)]]]
  <2>1. Callback!Heads = 0 .. NHeads - 1
    BY KvSlotsAre
  <2> QED
    BY <1>2, <1>5, <1>7, <2>1, Zenon DEF Callback!Rows, Callback!RowsOf
<1>9. Len(rows) = size
  BY <1>2, <1>8
<1>10. ASSUME NEW r \in 1 .. size, NEW h \in 0 .. NHeads - 1
       PROVE  Callback!Attended(cache, l, h, total - size + r - 1) = Causal(real, total - size + r)
  <2>0. size \in Nat /\ total \in Nat /\ size <= total /\ r \in 1 .. size
    BY <1>1, <1>2
  <2>1. PICK p, q \in Nat : p = total - size + r /\ q = total - size + r - 1 /\ q < total /\ p <= total /\ q + 1 = p
    <3>1. /\ total - size + r \in Nat /\ total - size + r - 1 \in Nat /\ total - size + r - 1 < total
          /\ total - size + r <= total /\ (total - size + r - 1) + 1 = total - size + r
      BY ONLY <2>0
    <3> QED
      BY <3>1, Zenon
  <2>2. PICK g \in KvHead : g = cache.heads[<<l, h>>] /\ Carries(g, f)
    <3>1. <<l, h>> \in KvSlots
      BY <1>1 DEF KvSlots
    <3>2. cache.heads[<<l, h>>] \in KvHead
      BY <3>1, CacheFields DEF ShadowInv, CallbackInv
    <3> QED
      BY <1>4, <3>2
  <2>3. Callback!TailServed(cache, l) \/ g.active = <<>>
    BY <2>2, Zenon DEF Lost
  <2>4. Callback!Attended(cache, l, h, q) = Shown(f, 0, q + 1)
    <3>1. q < Len(f)
      BY <1>3, <2>1
    <3> QED
      BY <2>2, <2>3, <3>1, AttendedIs
  <2>5. Shown(f, 0, p) = Causal(real, p)
    BY <1>1, <1>2, <1>3, <2>1, ShownCausal
  <2> QED
    BY <2>1, <2>4, <2>5, Zenon
<1>11. ASSUME NEW r \in 1 .. size
       PROVE  /\ rows[r].q = real[total - size + r]
              /\ \A h \in 0 .. NHeads - 1 : rows[r].seen[h] = Causal(real, total - size + r)
  <2>1. rows[r].q = query[l][r] /\ rows[r].seen = [h \in 0 .. NHeads - 1 |-> Callback!Attended(cache, l, h, total - size + r - 1)]
    BY <1>8
  <2> QED
    BY <1>6, <1>10, <2>1, Zenon
<1> QED
  BY <1>2, <1>7, <1>9, <1>11, Zenon DEF Exactly

LEMMA NothingServed ==
  ASSUME served' = Callback!NotServed
  PROVE  Callback!ServedExact'
<1>1. served'.layer = NLayers /\ NLayers \notin 0 .. NLayers - 1
  BY CacheConstants DEF Callback!NotServed
<1> QED
  BY <1>1, ServedNext DEF ServedWell

\* Only kqv_out serves, and it appends nothing.
LEMMA ServingExact ==
  ASSUME ShadowInv, NEW fails \in BOOLEAN, Callback!KqvOut(fails)
  PROVE  Callback!ServedExact'
<1>1. /\ pass # Callback!NoPass /\ pass.seen = {"q", "k", "v"} /\ UNCHANGED <<cache, real, rejects>>
      /\ served' = Callback!NotServed \/ served' = [layer |-> pass.layer, rows |-> Callback!Rows(pass.layer)]
  BY Zenon DEF Callback!KqvOut, Callback!Kinds
<1>2. CASE served' = Callback!NotServed
  BY <1>2, NothingServed
<1>3. CASE served' = [layer |-> pass.layer, rows |-> Callback!Rows(pass.layer)]
  <2>1. served'.layer = pass.layer /\ served'.rows = Callback!Rows(pass.layer)
    BY <1>3
  <2>2. rejects = 0 /\ ~ Lost(cache, pass.layer) => Exactly(Callback!Rows(pass.layer), real)
    BY <1>1, RowsExact
  <2> QED
    BY <1>1, <2>1, <2>2, ServedNext, Zenon DEF ServedWell
<1> QED
  BY <1>1, <1>2, <1>3

LEMMA ShadowStep ==
  ASSUME ShadowInv, Callback!CallbackNext
  PROVE  ShadowInv' /\ Callback!ServedExact'
<1>1. CallbackInv' /\ rejects \in Nat
  BY CallbackStep DEF ShadowInv
<1>2. ASSUME NEW n \in 1 .. MaxBatch, Callback!StartPass(n)
      PROVE  rejects' = rejects /\ (rejects = 0 => Shadowing') /\ Callback!ServedExact'
  <2>1. rejects' = rejects /\ served' = Callback!NotServed
    BY <1>2 DEF Callback!StartPass
  <2> QED
    BY <1>2, <2>1, StartShadows, NothingServed
<1>3. ASSUME NEW kind \in Callback!Kinds, NEW fault \in Callback!UploadFaults, Callback!KvTensor(kind, fault)
      PROVE  rejects' = rejects /\ (rejects = 0 => Shadowing') /\ Callback!ServedExact'
  <2>1. rejects' = rejects /\ served' = Callback!NotServed
    BY <1>3 DEF Callback!KvTensor
  <2> QED
    BY <1>3, <2>1, TensorShadows, NothingServed
<1>4. ASSUME Callback!QueryTensor
      PROVE  rejects' = rejects /\ (rejects = 0 => Shadowing') /\ Callback!ServedExact'
  <2>1. rejects' = rejects /\ served' = Callback!NotServed
    BY <1>4 DEF Callback!QueryTensor
  <2> QED
    BY <1>4, <2>1, QueryShadows, NothingServed
<1>5. ASSUME NEW kind \in Callback!Kinds, Callback!RejectTensor(kind)
      PROVE  rejects' = rejects + 1 /\ Callback!ServedExact'
  <2>1. rejects' = rejects + 1 /\ served' = Callback!NotServed
    BY <1>5 DEF Callback!RejectTensor
  <2> QED
    BY <2>1, NothingServed
<1>6. ASSUME NEW fails \in BOOLEAN, Callback!KqvOut(fails)
      PROVE  rejects' = rejects /\ (rejects = 0 => Shadowing') /\ Callback!ServedExact'
  <2>1. rejects' = rejects
    BY <1>6 DEF Callback!KqvOut
  <2> QED
    BY <1>6, <2>1, KqvShadows, ServingExact
<1>7. /\ Callback!ServedExact'
      /\ rejects' = rejects + 1 \/ (rejects' = rejects /\ (rejects = 0 => Shadowing'))
  BY <1>2, <1>3, <1>4, <1>5, <1>6, Zenon DEF Callback!CallbackNext
<1>8. rejects' \in Nat /\ (rejects' = 0 => Shadowing')
  BY <1>1, <1>7
<1> QED
  BY <1>1, <1>7, <1>8 DEF ShadowInv

AttentionInv == engine = "callback" => ShadowInv /\ Callback!ServedExact

\* What the callback overwrites kqv_out with is causal attention over exactly the
\* tokens llama.cpp holds, for any layers, heads, page size, passes and failing
\* uploads, until a tensor is turned away and but for a tail the view leaves out.
THEOREM AttentionServed == DeviceSpec => []ServedExact
<1>1. DeviceInit => AttentionInv
  <2>1. ASSUME DeviceInit, engine = "callback" PROVE ShadowInv /\ Callback!ServedExact
    <3>1. Callback!CallbackInit
      BY <2>1 DEF DeviceInit
    <3>2. served.layer = NLayers /\ NLayers \notin 0 .. NLayers - 1
      BY <3>1, CacheConstants DEF Callback!CallbackInit, Callback!NotServed
    <3> QED
      BY <3>1, <3>2, ShadowStarts, ServedIs DEF ServedWell
  <2> QED
    BY <2>1 DEF AttentionInv
<1>2. AttentionInv /\ [DeviceNext]_deviceVars => AttentionInv'
  <2> SUFFICES ASSUME AttentionInv, [DeviceNext]_deviceVars, engine' = "callback"
               PROVE  ShadowInv' /\ Callback!ServedExact'
    BY DEF AttentionInv
  <2>1. CASE UNCHANGED deviceVars
    <3>1. UNCHANGED <<engine, cache, made, kvFaults, real, pass, pend, tok, query, served, errors, rejects>>
      BY <2>1 DEF deviceVars, kvVars, passVars
    <3>2. ShadowInv /\ Callback!ServedExact
      BY <3>1 DEF AttentionInv
    <3>3. CallbackInv'
      BY <3>1, <3>2 DEF ShadowInv, CallbackInv
    <3>4. Shadowing' <=> Shadowing
      BY <3>1 DEF Shadowing
    <3>5. Callback!ServedExact'
      BY <3>1, <3>2, ServedIs, ServedNext
    <3> QED
      BY <3>1, <3>2, <3>3, <3>4, <3>5 DEF ShadowInv
  <2>2. CASE DeviceNext
    <3>1. engine = "callback" /\ Callback!CallbackNext
      BY <2>2 DEF DeviceNext
    <3> QED
      BY <3>1, ShadowStep DEF AttentionInv
  <2> QED
    BY <2>1, <2>2
<1>3. AttentionInv => ServedExact
  BY DEF AttentionInv, ServedExact
<1> QED
  BY <1>1, <1>2, <1>3, PTL DEF DeviceSpec
=============================================================================
