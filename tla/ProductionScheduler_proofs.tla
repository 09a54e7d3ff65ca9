--------------------- MODULE ProductionScheduler_proofs ---------------------
(***************************************************************************)
(* Theorems of ProductionScheduler, for any tenants, workers, requests and *)
(* policies: the counts admission is decided on are those of the requests, *)
(* tenants and cluster stay within their limits, the books balance, and a  *)
(* request goes to the best worker in service.  Below them, the theorem of *)
(* ReleaseGates: a verdict that opens a release is sound.                  *)
(***************************************************************************)
EXTENDS ControlPlane, FoldTheorems

TenantStates == [active : Nat, queued : Nat, prompt : Nat, completion : Nat, gpu : Nat]

Typed ==
  /\ IsFiniteSet(DOMAIN requests) /\ IsFiniteSet(DOMAIN usage)
  /\ taken \in Nat /\ cancelled \in Nat
  /\ DOMAIN tenants \subseteq Tenants
  /\ tenants \in [DOMAIN tenants -> TenantStates]
  /\ \A r \in DOMAIN requests : /\ requests[r].queued \in BOOLEAN
                                /\ requests[r].spec.tenant \in DOMAIN tenants

PromptWithin == \A t \in DOMAIN tenants : tenants[t].prompt <= Policy[t].prompt
ActiveWithin == \A t \in DOMAIN tenants : tenants[t].active <= Policy[t].active
QueuedWithin == \A t \in DOMAIN tenants : tenants[t].queued <= Policy[t].queued

IInv == Typed /\ CountsExact /\ RequestsBalance /\ PromptWithin /\ ActiveWithin /\ QueuedWithin

\* The limits of a tenant.
LEMMA Policies ==
  ASSUME NEW t \in Tenants
  PROVE  /\ Policy[t].active \in Nat \ {0} /\ Policy[t].queued \in Nat \ {0}
         /\ Policy[t].prompt \in Nat /\ Policy[t].completion \in Nat
<1>1. Policy[t] \in [active : Nat \ {0}, queued : Nat \ {0}, prompt : Nat, completion : Nat, gpu : Nat]
  BY SchedulerConstants
<1> QED
  BY <1>1

LEMMA TenantParts ==
  ASSUME Typed, NEW t \in DOMAIN tenants
  PROVE  /\ t \in Tenants /\ tenants[t] \in TenantStates
         /\ tenants[t].active \in Nat /\ tenants[t].queued \in Nat /\ tenants[t].prompt \in Nat
         /\ tenants[t].completion \in Nat /\ tenants[t].gpu \in Nat
<1>1. t \in Tenants /\ tenants[t] \in TenantStates
  BY DEF Typed
<1> QED
  BY <1>1 DEF TenantStates

---------------------------------------------------------------------------
(* How the requests of a tenant change. *)

\* Request r joins the running or the waiting ones of a tenant.
Entered(r, new) ==
  /\ DOMAIN requests' = DOMAIN requests \cup {r} /\ IsFiniteSet(DOMAIN requests')
  /\ Cardinality(DOMAIN requests') = Cardinality(DOMAIN requests) + 1
  /\ requests'[r] = new /\ \A x \in DOMAIN requests : requests'[x] = requests[x]
  /\ \A t : t # new.spec.tenant =>
       RequestsOf(t, TRUE)' = RequestsOf(t, TRUE) /\ RequestsOf(t, FALSE)' = RequestsOf(t, FALSE)
  /\ new.queued => /\ Cardinality(RequestsOf(new.spec.tenant, TRUE)') = Cardinality(RequestsOf(new.spec.tenant, TRUE)) + 1
                   /\ RequestsOf(new.spec.tenant, FALSE)' = RequestsOf(new.spec.tenant, FALSE)
  /\ ~new.queued => /\ Cardinality(RequestsOf(new.spec.tenant, FALSE)') = Cardinality(RequestsOf(new.spec.tenant, FALSE)) + 1
                    /\ RequestsOf(new.spec.tenant, TRUE)' = RequestsOf(new.spec.tenant, TRUE)

LEMMA RequestAdded ==
  ASSUME Typed, NEW r, r \notin DOMAIN requests, NEW new, new.queued \in BOOLEAN, requests' = Put(requests, r, new)
  PROVE  Entered(r, new)
<1>1. /\ DOMAIN requests' = DOMAIN requests \cup {r}
      /\ requests'[r] = new /\ \A x \in DOMAIN requests : requests'[x] = requests[x]
  BY DEF Put
<1>2. IsFiniteSet(DOMAIN requests') /\ Cardinality(DOMAIN requests') = Cardinality(DOMAIN requests) + 1
  BY <1>1, FS_AddElement DEF Typed
<1>3. ASSUME NEW t, t # new.spec.tenant
      PROVE  RequestsOf(t, TRUE)' = RequestsOf(t, TRUE) /\ RequestsOf(t, FALSE)' = RequestsOf(t, FALSE)
  BY <1>1, <1>3 DEF RequestsOf
<1>4. ASSUME NEW t, t = new.spec.tenant, new.queued
      PROVE  /\ Cardinality(RequestsOf(t, TRUE)') = Cardinality(RequestsOf(t, TRUE)) + 1
             /\ RequestsOf(t, FALSE)' = RequestsOf(t, FALSE)
  <2>1. /\ RequestsOf(t, TRUE)' = RequestsOf(t, TRUE) \cup {r} /\ r \notin RequestsOf(t, TRUE)
        /\ RequestsOf(t, FALSE)' = RequestsOf(t, FALSE)
    BY <1>1, <1>4 DEF RequestsOf, Typed
  <2>2. IsFiniteSet(RequestsOf(t, TRUE))
    BY FS_Subset DEF Typed, RequestsOf
  <2> QED
    BY <2>1, <2>2, FS_AddElement
<1>5. ASSUME NEW t, t = new.spec.tenant, ~new.queued
      PROVE  /\ Cardinality(RequestsOf(t, FALSE)') = Cardinality(RequestsOf(t, FALSE)) + 1
             /\ RequestsOf(t, TRUE)' = RequestsOf(t, TRUE)
  <2>1. /\ RequestsOf(t, FALSE)' = RequestsOf(t, FALSE) \cup {r} /\ r \notin RequestsOf(t, FALSE)
        /\ RequestsOf(t, TRUE)' = RequestsOf(t, TRUE)
    BY <1>1, <1>5 DEF RequestsOf, Typed
  <2>2. IsFiniteSet(RequestsOf(t, FALSE))
    BY FS_Subset DEF Typed, RequestsOf
  <2> QED
    BY <2>1, <2>2, FS_AddElement
<1> QED
  BY <1>1, <1>2, <1>3, <1>4, <1>5 DEF Entered

\* Request r leaves its tenant t.
Departed(r, t) ==
  /\ DOMAIN requests' = DOMAIN requests \ {r} /\ IsFiniteSet(DOMAIN requests')
  /\ Cardinality(DOMAIN requests') = Cardinality(DOMAIN requests) - 1
  /\ \A x \in DOMAIN requests' : requests'[x] = requests[x]
  /\ \A x : x # t =>
       RequestsOf(x, TRUE)' = RequestsOf(x, TRUE) /\ RequestsOf(x, FALSE)' = RequestsOf(x, FALSE)
  /\ requests[r].queued => /\ Cardinality(RequestsOf(t, TRUE)') = Cardinality(RequestsOf(t, TRUE)) - 1
                           /\ RequestsOf(t, FALSE)' = RequestsOf(t, FALSE)
  /\ ~requests[r].queued => /\ Cardinality(RequestsOf(t, FALSE)') = Cardinality(RequestsOf(t, FALSE)) - 1
                            /\ RequestsOf(t, TRUE)' = RequestsOf(t, TRUE)

LEMMA RequestDropped ==
  ASSUME Typed, NEW r \in DOMAIN requests, requests' = Drop(requests, r),
         NEW t, t = requests[r].spec.tenant
  PROVE  Departed(r, t)
<1>1. /\ DOMAIN requests' = DOMAIN requests \ {r}
      /\ \A x \in DOMAIN requests' : requests'[x] = requests[x]
  BY DEF Drop, Restrict
<1>2. IsFiniteSet(DOMAIN requests') /\ Cardinality(DOMAIN requests') = Cardinality(DOMAIN requests) - 1
  BY <1>1, FS_RemoveElement DEF Typed
<1>3. ASSUME NEW x, x # t
      PROVE  RequestsOf(x, TRUE)' = RequestsOf(x, TRUE) /\ RequestsOf(x, FALSE)' = RequestsOf(x, FALSE)
  BY <1>1, <1>3 DEF RequestsOf
<1>4. ASSUME requests[r].queued
      PROVE  /\ Cardinality(RequestsOf(t, TRUE)') = Cardinality(RequestsOf(t, TRUE)) - 1
             /\ RequestsOf(t, FALSE)' = RequestsOf(t, FALSE)
  <2>1. /\ RequestsOf(t, TRUE)' = RequestsOf(t, TRUE) \ {r} /\ r \in RequestsOf(t, TRUE)
        /\ RequestsOf(t, FALSE)' = RequestsOf(t, FALSE)
    BY <1>1, <1>4 DEF RequestsOf, Typed
  <2>2. IsFiniteSet(RequestsOf(t, TRUE))
    BY FS_Subset DEF Typed, RequestsOf
  <2> QED
    BY <2>1, <2>2, FS_RemoveElement
<1>5. ASSUME ~requests[r].queued
      PROVE  /\ Cardinality(RequestsOf(t, FALSE)') = Cardinality(RequestsOf(t, FALSE)) - 1
             /\ RequestsOf(t, TRUE)' = RequestsOf(t, TRUE)
  <2>1. /\ RequestsOf(t, FALSE)' = RequestsOf(t, FALSE) \ {r} /\ r \in RequestsOf(t, FALSE)
        /\ RequestsOf(t, TRUE)' = RequestsOf(t, TRUE)
    BY <1>1, <1>5 DEF RequestsOf, Typed
  <2>2. IsFiniteSet(RequestsOf(t, FALSE))
    BY FS_Subset DEF Typed, RequestsOf
  <2> QED
    BY <2>1, <2>2, FS_RemoveElement
<1> QED
  BY <1>1, <1>2, <1>3, <1>4, <1>5 DEF Departed

---------------------------------------------------------------------------
(* The steps. *)

\* A tenant's state is replaced.
LEMMA Replaced ==
  ASSUME Typed, NEW t \in DOMAIN tenants, NEW new \in TenantStates, tenants' = [tenants EXCEPT ![t] = new]
  PROVE  /\ DOMAIN tenants' = DOMAIN tenants /\ tenants' \in [DOMAIN tenants -> TenantStates]
         /\ tenants'[t] = new /\ \A x \in DOMAIN tenants : x # t => tenants'[x] = tenants[x]
<1>1. tenants \in [DOMAIN tenants -> TenantStates]
  BY DEF Typed
<1>2. ASSUME NEW D, tenants \in [D -> TenantStates], t \in D
      PROVE  /\ tenants' \in [D -> TenantStates] /\ tenants'[t] = new
             /\ \A x \in D : x # t => tenants'[x] = tenants[x]
  BY <1>2
<1>3. tenants' \in [DOMAIN tenants -> TenantStates] /\ tenants'[t] = new
      /\ \A x \in DOMAIN tenants : x # t => tenants'[x] = tenants[x]
  BY <1>1, <1>2
<1>4. DOMAIN tenants' = DOMAIN tenants
  BY <1>3
<1> QED
  BY <1>3, <1>4

\* What a request that is taken adds to its tenant's state.
Takes(s, new, q, late) ==
  /\ new \in TenantStates /\ new.prompt = s.prompt + q.prompt
  /\ new.completion = s.completion /\ new.gpu = s.gpu
  /\ late => new.active = s.active /\ new.queued = s.queued + 1
  /\ ~late => new.active = s.active + 1 /\ new.queued = s.queued

LEMMA JoinedState ==
  ASSUME IInv, NEW q, q.tenant \in DOMAIN tenants, q.prompt \in Nat, NEW late \in BOOLEAN
  PROVE  Takes(tenants[q.tenant], Joined(q, late), q, late)
<1> DEFINE s == tenants[q.tenant]
           new == Joined(q, late)
<1>1. s \in TenantStates
  BY TenantParts DEF IInv
<1>2. CASE late
  <2>1. PICK u : u = [s EXCEPT !.queued = s.queued + 1]
    OBVIOUS
  <2>2. new = [u EXCEPT !.prompt = s.prompt + q.prompt]
    BY <1>2, <2>1 DEF Joined
  <2> HIDE DEF s, new
  <2>3. /\ u \in TenantStates /\ u.active = s.active /\ u.queued = s.queued + 1 /\ u.prompt = s.prompt
        /\ u.completion = s.completion /\ u.gpu = s.gpu
    BY <1>1, <2>1 DEF TenantStates
  <2>4. /\ new \in TenantStates /\ new.active = s.active /\ new.queued = s.queued + 1
        /\ new.prompt = s.prompt + q.prompt /\ new.completion = s.completion /\ new.gpu = s.gpu
    <3>1. s.prompt + q.prompt \in Nat
      BY <1>1 DEF TenantStates
    <3> QED
      BY <2>2, <2>3, <3>1 DEF TenantStates
  <2> QED
    BY <1>2, <2>4 DEF s, new, Takes
<1>3. CASE ~late
  <2>1. PICK u : u = [s EXCEPT !.active = s.active + 1]
    OBVIOUS
  <2>2. new = [u EXCEPT !.prompt = s.prompt + q.prompt]
    BY <1>3, <2>1 DEF Joined
  <2> HIDE DEF s, new
  <2>3. /\ u \in TenantStates /\ u.active = s.active + 1 /\ u.queued = s.queued /\ u.prompt = s.prompt
        /\ u.completion = s.completion /\ u.gpu = s.gpu
    BY <1>1, <2>1 DEF TenantStates
  <2>4. /\ new \in TenantStates /\ new.active = s.active + 1 /\ new.queued = s.queued
        /\ new.prompt = s.prompt + q.prompt /\ new.completion = s.completion /\ new.gpu = s.gpu
    <3>1. s.prompt + q.prompt \in Nat
      BY <1>1 DEF TenantStates
    <3> QED
      BY <2>2, <2>3, <3>1 DEF TenantStates
  <2> QED
    BY <1>3, <2>4 DEF s, new, Takes
<1> QED
  BY <1>2, <1>3

\* The state of tenant t is now new.
Becomes(t, new) ==
  /\ DOMAIN tenants' = DOMAIN tenants /\ tenants' \in [DOMAIN tenants -> TenantStates]
  /\ tenants'[t] = new /\ \A x \in DOMAIN tenants : x # t => tenants'[x] = tenants[x]

\* What the guards leave room for.
Room(t, q, late) ==
  /\ tenants[t].prompt + q.prompt <= Policy[t].prompt
  /\ tenants[t].completion + q.max <= Policy[t].completion
  /\ ~late => tenants[t].active < Policy[t].active /\ ~ (Total("active") >= Limit.active)
  /\ late => tenants[t].queued < Policy[t].queued /\ ~ (Total("queued") >= Limit.queued)

\* Request r has been taken, with new on record and j the state of its tenant t.
Taken(r, q, t, late, new, j) ==
  /\ r \notin DOMAIN requests /\ t \in DOMAIN tenants /\ t \in Tenants /\ late \in BOOLEAN
  /\ Room(t, q, late)
  /\ new.spec = q /\ new.queued = late /\ requests' = Put(requests, r, new) /\ Entered(r, new)
  /\ Takes(tenants[t], j, q, late) /\ Becomes(t, j)
  /\ taken' = taken + 1 /\ UNCHANGED <<workers, usage, cancelled, shutting, audited>>

LEMMA AdmitFacts ==
  ASSUME IInv, NEW r \in Requests, NEW q \in Specs, Admit(r, q), NEW t, t = q.tenant
  PROVE  \E late, new, j : Taken(r, q, t, late, new, j)
<1>1. PICK late \in BOOLEAN : late = MustQueue(t)
  BY DEF MustQueue
<1>2. /\ Typed /\ t \in DOMAIN tenants /\ t \in Tenants /\ q.prompt \in Nat
      /\ r \notin DOMAIN requests /\ taken' = taken + 1
      /\ UNCHANGED <<workers, usage, cancelled, shutting, audited>>
      /\ tenants' = [tenants EXCEPT ![t] = Joined(q, late)]
  <2>1. q \in [tenant : Tenants, model : Nat, prompt : Nat \ {0}, max : Nat \ {0}, deadline : BOOLEAN]
    BY SchedulerConstants
  <2> QED
    BY <1>1, <2>1 DEF IInv, Admit
<1>3. PICK new : requests' = Put(requests, r, new) /\ new.spec = q /\ new.queued = late
  <2>1. PICK order \in SetToSeqs(DOMAIN workers) :
          requests' = Put(requests, r, [spec |-> q, worker |-> Selected(order, q), queued |-> late])
    BY <1>1 DEF Admit
  <2> QED
    BY <2>1
<1>4. Entered(r, new)
  BY <1>1, <1>2, <1>3, RequestAdded
<1>5. Room(t, q, late)
  <2>1. WithinQuota(q) /\ (late => ~QueueFull(t))
    BY <1>1 DEF Admit
  <2>2. ~late => ~(tenants[t].active >= Policy[t].active) /\ ~ (Total("active") >= Limit.active)
    BY <1>1 DEF MustQueue
  <2>3. late => ~(tenants[t].queued >= Policy[t].queued) /\ ~ (Total("queued") >= Limit.queued)
    BY <2>1 DEF QueueFull
  <2>4. /\ tenants[t].prompt + q.prompt <= Policy[t].prompt
        /\ tenants[t].completion + q.max <= Policy[t].completion
    BY <2>1 DEF WithinQuota
  <2>5. /\ tenants[t].active \in Nat /\ tenants[t].queued \in Nat
        /\ Policy[t].active \in Nat /\ Policy[t].queued \in Nat
    BY <1>2, TenantParts, Policies
  <2> QED
    BY <2>2, <2>3, <2>4, <2>5 DEF Room
<1>6. PICK j : j = Joined(q, late)
  OBVIOUS
<1>7. Takes(tenants[t], j, q, late)
  BY <1>1, <1>2, <1>6, JoinedState
<1>8. Becomes(t, j)
  BY <1>2, <1>6, <1>7, Replaced DEF Takes, Becomes
<1> QED
  BY <1>1, <1>2, <1>3, <1>4, <1>5, <1>7, <1>8 DEF Taken

LEMMA AdmitSound == ASSUME IInv, NEW r \in Requests, NEW q \in Specs, Admit(r, q) PROVE IInv'
<1>1. PICK t : t = q.tenant
  OBVIOUS
<1>2. PICK late, new, j : Taken(r, q, t, late, new, j)
  BY <1>1, AdmitFacts
<1>3. /\ Typed /\ CountsExact /\ RequestsBalance /\ PromptWithin /\ ActiveWithin /\ QueuedWithin
      /\ t \in DOMAIN tenants /\ t \in Tenants /\ late \in BOOLEAN
  BY <1>2 DEF IInv, Taken
<1>4. /\ DOMAIN tenants' = DOMAIN tenants /\ tenants' \in [DOMAIN tenants -> TenantStates]
      /\ \A x \in DOMAIN tenants : x # t => tenants'[x] = tenants[x]
      /\ tenants'[t].prompt = tenants[t].prompt + q.prompt
      /\ late => tenants'[t].active = tenants[t].active /\ tenants'[t].queued = tenants[t].queued + 1
      /\ ~late => tenants'[t].active = tenants[t].active + 1 /\ tenants'[t].queued = tenants[t].queued
  BY <1>2 DEF Taken, Becomes, Takes
<1>5. /\ DOMAIN requests' = DOMAIN requests \cup {r} /\ IsFiniteSet(DOMAIN requests')
      /\ Cardinality(DOMAIN requests') = Cardinality(DOMAIN requests) + 1
      /\ requests'[r] = new /\ \A x \in DOMAIN requests : requests'[x] = requests[x]
      /\ \A u : u # t => RequestsOf(u, TRUE)' = RequestsOf(u, TRUE) /\ RequestsOf(u, FALSE)' = RequestsOf(u, FALSE)
      /\ late => /\ Cardinality(RequestsOf(t, TRUE)') = Cardinality(RequestsOf(t, TRUE)) + 1
                 /\ RequestsOf(t, FALSE)' = RequestsOf(t, FALSE)
      /\ ~late => /\ Cardinality(RequestsOf(t, FALSE)') = Cardinality(RequestsOf(t, FALSE)) + 1
                  /\ RequestsOf(t, TRUE)' = RequestsOf(t, TRUE)
  <2>1. new.spec.tenant = t /\ (new.queued <=> late) /\ Entered(r, new)
    BY <1>1, <1>2 DEF Taken
  <2> QED
    BY <2>1 DEF Entered
<1>6. /\ Room(t, q, late) /\ taken' = taken + 1 /\ usage' = usage /\ cancelled' = cancelled
      /\ new.spec.tenant = t /\ new.queued \in BOOLEAN
  BY <1>1, <1>2, <1>3 DEF Taken
<1>7. Typed'
  <2>1. IsFiniteSet(DOMAIN usage') /\ cancelled' \in Nat /\ taken' \in Nat /\ DOMAIN tenants' \subseteq Tenants
    BY <1>3, <1>4, <1>6 DEF Typed
  <2>2. \A x \in DOMAIN requests' : requests'[x].queued \in BOOLEAN /\ requests'[x].spec.tenant \in DOMAIN tenants'
    BY <1>3, <1>4, <1>5, <1>6 DEF Typed
  <2> QED
    BY <1>4, <1>5, <2>1, <2>2 DEF Typed
<1>8. CountsExact'
  <2> SUFFICES ASSUME NEW u \in DOMAIN tenants
               PROVE  /\ tenants'[u].active = Cardinality(RequestsOf(u, FALSE)')
                      /\ tenants'[u].queued = Cardinality(RequestsOf(u, TRUE)')
    BY <1>4 DEF CountsExact
  <2>1. tenants[u].active = Cardinality(RequestsOf(u, FALSE)) /\ tenants[u].queued = Cardinality(RequestsOf(u, TRUE))
    BY <1>3 DEF CountsExact
  <2>2. CASE u # t
    BY <1>4, <1>5, <2>1, <2>2
  <2>3. CASE u = t /\ late
    BY <1>4, <1>5, <2>1, <2>3
  <2>4. CASE u = t /\ ~late
    BY <1>4, <1>5, <2>1, <2>4
  <2> QED
    BY <1>3, <2>2, <2>3, <2>4
<1>9. RequestsBalance'
  <2>1. Cardinality(DOMAIN requests) \in Nat /\ Cardinality(DOMAIN usage) \in Nat /\ taken \in Nat /\ cancelled \in Nat
    BY <1>3, FS_CardinalityType DEF Typed
  <2> QED
    BY <1>3, <1>5, <1>6, <2>1 DEF RequestsBalance
<1>10. PromptWithin' /\ ActiveWithin' /\ QueuedWithin'
  <2> SUFFICES ASSUME NEW u \in DOMAIN tenants
               PROVE  /\ tenants'[u].prompt <= Policy[u].prompt /\ tenants'[u].active <= Policy[u].active
                      /\ tenants'[u].queued <= Policy[u].queued
    BY <1>4 DEF PromptWithin, ActiveWithin, QueuedWithin
  <2>1. /\ tenants[u].prompt <= Policy[u].prompt /\ tenants[u].active <= Policy[u].active
        /\ tenants[u].queued <= Policy[u].queued
    BY <1>3 DEF PromptWithin, ActiveWithin, QueuedWithin
  <2>2. /\ tenants[u].active \in Nat /\ tenants[u].queued \in Nat /\ Policy[u].active \in Nat /\ Policy[u].queued \in Nat
    BY <1>3, TenantParts, Policies
  <2>3. CASE u # t
    BY <1>4, <2>1, <2>3
  <2>4. CASE u = t
    BY <1>3, <1>4, <1>6, <2>1, <2>2, <2>4 DEF Room
  <2> QED
    BY <2>3, <2>4
<1> QED
  BY <1>7, <1>8, <1>9, <1>10 DEF IInv

\* What a request that leaves takes from its tenant's state, and what it is charged.
Leaves(s, new, waits, tokens, time) ==
  /\ new \in TenantStates /\ new.prompt = s.prompt
  /\ new.completion = s.completion + tokens /\ new.gpu = s.gpu + time
  /\ waits => new.active = s.active /\ new.queued = s.queued - 1
  /\ ~waits => new.active = s.active - 1 /\ new.queued = s.queued

\* A request that is there has been counted.
LEMMA CountedOnce ==
  ASSUME Typed, CountsExact, NEW r \in DOMAIN requests, NEW t, t = requests[r].spec.tenant
  PROVE  /\ t \in DOMAIN tenants
         /\ requests[r].queued => tenants[t].queued > 0
         /\ ~requests[r].queued => tenants[t].active > 0
<1>1. t \in DOMAIN tenants /\ requests[r].queued \in BOOLEAN
  BY DEF Typed
<1>2. IsFiniteSet(RequestsOf(t, TRUE)) /\ IsFiniteSet(RequestsOf(t, FALSE))
  BY FS_Subset DEF Typed, RequestsOf
<1>3. /\ requests[r].queued => RequestsOf(t, TRUE) # {}
      /\ ~requests[r].queued => RequestsOf(t, FALSE) # {}
  BY <1>1 DEF RequestsOf
<1>4. /\ requests[r].queued => Cardinality(RequestsOf(t, TRUE)) # 0
      /\ ~requests[r].queued => Cardinality(RequestsOf(t, FALSE)) # 0
  BY <1>2, <1>3, FS_EmptySet
<1>5. tenants[t].active = Cardinality(RequestsOf(t, FALSE)) /\ tenants[t].queued = Cardinality(RequestsOf(t, TRUE))
  BY <1>1 DEF CountsExact
<1>6. tenants[t].active \in Nat /\ tenants[t].queued \in Nat
  BY <1>1, TenantParts
<1>7. (tenants[t].active # 0 => tenants[t].active > 0) /\ (tenants[t].queued # 0 => tenants[t].queued > 0)
  BY <1>6
<1> QED
  BY <1>1, <1>4, <1>5, <1>7, Zenon

LEMMA LeftState ==
  ASSUME Typed, CountsExact, NEW r \in DOMAIN requests, NEW t, t = requests[r].spec.tenant
  PROVE  Leaves(tenants[t], Left(r), requests[r].queued, 0, 0)
<1>1. t \in DOMAIN tenants /\ requests[r].queued \in BOOLEAN
  BY DEF Typed
<1>2. PICK s \in TenantStates : s = tenants[t]
  BY <1>1, TenantParts
<1>3. CASE requests[r].queued
  <2>1. s.queued > 0
    BY <1>2, <1>3, CountedOnce
  <2>2. Left(r) = [s EXCEPT !.queued = s.queued - 1]
    BY <1>2, <1>3, <2>1 DEF Left
  <2>3. /\ Left(r) \in TenantStates /\ Left(r).active = s.active /\ Left(r).queued = s.queued - 1
        /\ Left(r).prompt = s.prompt /\ Left(r).completion = s.completion + 0 /\ Left(r).gpu = s.gpu + 0
    <3>1. s.queued - 1 \in Nat
      BY <2>1 DEF TenantStates
    <3> QED
      BY <2>2, <3>1 DEF TenantStates
  <2> QED
    BY <1>2, <1>3, <2>3 DEF Leaves
<1>4. CASE ~requests[r].queued
  <2>1. s.active > 0
    BY <1>2, <1>4, CountedOnce
  <2>2. Left(r) = [s EXCEPT !.active = s.active - 1]
    BY <1>2, <1>4, <2>1 DEF Left
  <2>3. /\ Left(r) \in TenantStates /\ Left(r).active = s.active - 1 /\ Left(r).queued = s.queued
        /\ Left(r).prompt = s.prompt /\ Left(r).completion = s.completion + 0 /\ Left(r).gpu = s.gpu + 0
    <3>1. s.active - 1 \in Nat
      BY <2>1 DEF TenantStates
    <3> QED
      BY <2>2, <3>1 DEF TenantStates
  <2> QED
    BY <1>2, <1>4, <2>3 DEF Leaves
<1> QED
  BY <1>3, <1>4

\* Request r has left its tenant t, whose state is now new, charged tokens and time.
Gone(r, t, new, tokens, time) ==
  /\ r \in DOMAIN requests /\ t = requests[r].spec.tenant /\ t \in DOMAIN tenants /\ requests[r].queued \in BOOLEAN
  /\ Departed(r, t) /\ Leaves(tenants[t], new, requests[r].queued, tokens, time) /\ Becomes(t, new)
  /\ UNCHANGED <<workers, taken, shutting, audited>>

\* A request that leaves is on record as completed or cancelled.
LEMMA LeaveSound ==
  ASSUME IInv, NEW r, NEW t, NEW new, NEW tokens, NEW time, Gone(r, t, new, tokens, time),
         IsFiniteSet(DOMAIN usage'), cancelled' \in Nat,
         Cardinality(DOMAIN usage') + cancelled' = Cardinality(DOMAIN usage) + cancelled + 1
  PROVE  IInv'
<1>1. Typed /\ CountsExact /\ RequestsBalance /\ PromptWithin /\ ActiveWithin /\ QueuedWithin
  BY DEF IInv
<1>2. /\ Departed(r, t) /\ t \in DOMAIN tenants /\ r \in DOMAIN requests /\ requests[r].queued \in BOOLEAN
      /\ Leaves(tenants[t], new, requests[r].queued, tokens, time) /\ taken' = taken
  BY DEF Gone
<1>3. /\ DOMAIN tenants' = DOMAIN tenants /\ tenants' \in [DOMAIN tenants -> TenantStates]
      /\ tenants'[t] = new /\ \A x \in DOMAIN tenants : x # t => tenants'[x] = tenants[x]
  BY DEF Gone, Becomes
<1>4. Typed'
  <2>1. \A x \in DOMAIN requests' : requests'[x].queued \in BOOLEAN /\ requests'[x].spec.tenant \in DOMAIN tenants'
    BY <1>1, <1>2, <1>3 DEF Typed, Departed
  <2>2. IsFiniteSet(DOMAIN requests') /\ taken' \in Nat /\ DOMAIN tenants' \subseteq Tenants
    BY <1>1, <1>2, <1>3 DEF Typed, Departed
  <2>3. tenants' \in [DOMAIN tenants' -> TenantStates]
    BY <1>3
  <2> QED
    BY <2>1, <2>2, <2>3 DEF Typed
<1>5. CountsExact'
  <2> SUFFICES ASSUME NEW u \in DOMAIN tenants
               PROVE  /\ tenants'[u].active = Cardinality(RequestsOf(u, FALSE)')
                      /\ tenants'[u].queued = Cardinality(RequestsOf(u, TRUE)')
    BY <1>3 DEF CountsExact
  <2>1. tenants[u].active = Cardinality(RequestsOf(u, FALSE)) /\ tenants[u].queued = Cardinality(RequestsOf(u, TRUE))
    BY <1>1 DEF CountsExact
  <2>2. CASE u # t
    BY <1>2, <1>3, <2>1, <2>2 DEF Departed
  <2>3. CASE u = t /\ requests[r].queued
    BY <1>2, <1>3, <2>1, <2>3 DEF Departed, Leaves
  <2>4. CASE u = t /\ ~requests[r].queued
    BY <1>2, <1>3, <2>1, <2>4 DEF Departed, Leaves
  <2> QED
    BY <2>2, <2>3, <2>4
<1>6. RequestsBalance'
  <2>1. /\ Cardinality(DOMAIN requests) \in Nat /\ Cardinality(DOMAIN usage) \in Nat /\ taken \in Nat /\ cancelled \in Nat
        /\ Cardinality(DOMAIN usage') \in Nat
    BY <1>1, FS_CardinalityType DEF Typed
  <2>2. Cardinality(DOMAIN requests') = Cardinality(DOMAIN requests) - 1
    BY <1>2 DEF Departed
  <2>3. taken' = taken /\ cancelled' \in Nat
    BY <1>2
  <2> QED
    BY <1>1, <2>1, <2>2, <2>3 DEF RequestsBalance
<1>7. PromptWithin' /\ ActiveWithin' /\ QueuedWithin'
  <2> SUFFICES ASSUME NEW u \in DOMAIN tenants
               PROVE  /\ tenants'[u].prompt <= Policy[u].prompt /\ tenants'[u].active <= Policy[u].active
                      /\ tenants'[u].queued <= Policy[u].queued
    BY <1>3 DEF PromptWithin, ActiveWithin, QueuedWithin
  <2>1. /\ tenants[u].prompt <= Policy[u].prompt /\ tenants[u].active <= Policy[u].active
        /\ tenants[u].queued <= Policy[u].queued
    BY <1>1 DEF PromptWithin, ActiveWithin, QueuedWithin
  <2>2. /\ tenants[u].active \in Nat /\ tenants[u].queued \in Nat /\ Policy[u].active \in Nat /\ Policy[u].queued \in Nat
    BY <1>1, TenantParts, Policies
  <2>3. CASE u # t
    BY <1>3, <2>1, <2>3
  <2>4. CASE u = t
    BY <1>2, <1>3, <2>1, <2>2, <2>4 DEF Leaves
  <2> QED
    BY <2>3, <2>4
<1> QED
  BY <1>4, <1>5, <1>6, <1>7 DEF IInv

LEMMA CancelFacts ==
  ASSUME IInv, NEW r, Cancel(r)
  PROVE  \E t, new : Gone(r, t, new, 0, 0)
<1>1. PICK t, new : t = requests[r].spec.tenant /\ new = Left(r)
  OBVIOUS
<1>2. /\ Typed /\ CountsExact /\ r \in DOMAIN requests /\ requests' = Drop(requests, r)
      /\ tenants' = [tenants EXCEPT ![t] = new] /\ UNCHANGED <<workers, taken, shutting, audited>>
  BY <1>1 DEF IInv, Cancel
<1>3. t \in DOMAIN tenants /\ requests[r].queued \in BOOLEAN
  BY <1>1, <1>2 DEF Typed
<1>4. Leaves(tenants[t], new, requests[r].queued, 0, 0)
  BY <1>1, <1>2, LeftState
<1>5. Departed(r, t)
  BY <1>1, <1>2, RequestDropped
<1>6. Becomes(t, new)
  BY <1>2, <1>3, <1>4, Replaced DEF Leaves, Becomes
<1> QED
  BY <1>1, <1>2, <1>3, <1>4, <1>5, <1>6 DEF Gone

LEMMA CancelSound == ASSUME IInv, NEW r \in Requests, Cancel(r) PROVE IInv'
<1>1. PICK t, new : Gone(r, t, new, 0, 0)
  BY CancelFacts
<1>2. usage' = usage /\ cancelled' = cancelled + 1
  BY DEF Cancel
<1>3. IsFiniteSet(DOMAIN usage') /\ cancelled' \in Nat /\ cancelled \in Nat /\ Cardinality(DOMAIN usage) \in Nat
  BY <1>2, FS_CardinalityType DEF IInv, Typed
<1>4. Cardinality(DOMAIN usage') + cancelled' = Cardinality(DOMAIN usage) + cancelled + 1
  BY <1>2, <1>3
<1> QED
  BY <1>1, <1>3, <1>4, LeaveSound

LEMMA CompleteFacts ==
  ASSUME IInv, NEW r, NEW tokens \in Generated, NEW time \in GpuTimes, Complete(r, tokens, time)
  PROVE  \E t, new : Gone(r, t, new, tokens, time)
<1> DEFINE new == [Left(r) EXCEPT !.completion = @ + tokens, !.gpu = @ + time]
<1>1. PICK t : t = requests[r].spec.tenant
  OBVIOUS
<1>2. /\ Typed /\ CountsExact /\ r \in DOMAIN requests
      /\ requests' = Drop(requests, r) /\ tenants' = [tenants EXCEPT ![t] = new]
      /\ UNCHANGED <<workers, taken, shutting, audited>>
  BY <1>1 DEF IInv, Complete
<1>3. Leaves(tenants[t], Left(r), requests[r].queued, 0, 0) /\ tokens \in Nat /\ time \in Nat
  BY <1>1, <1>2, LeftState, SchedulerConstants
<1>4. t \in DOMAIN tenants /\ requests[r].queued \in BOOLEAN /\ tenants[t].completion \in Nat /\ tenants[t].gpu \in Nat
  <2>1. t \in DOMAIN tenants /\ requests[r].queued \in BOOLEAN
    BY <1>1, <1>2 DEF Typed
  <2> QED
    BY <1>2, <2>1, TenantParts
<1>5. Leaves(tenants[t], new, requests[r].queued, tokens, time)
  <2>1. PICK s \in TenantStates : s = Left(r)
    BY <1>3 DEF Leaves
  <2>2. PICK u : u = [s EXCEPT !.completion = s.completion + tokens]
    OBVIOUS
  <2>3. new = [u EXCEPT !.gpu = s.gpu + time]
    BY <2>1, <2>2
  <2>4. /\ u \in TenantStates /\ u.active = s.active /\ u.queued = s.queued /\ u.prompt = s.prompt
        /\ u.completion = s.completion + tokens
    <3>1. s.completion + tokens \in Nat
      BY <1>3 DEF TenantStates
    <3> QED
      BY <2>2, <3>1 DEF TenantStates
  <2> HIDE DEF new
  <2>5. /\ new \in TenantStates /\ new.active = s.active /\ new.queued = s.queued /\ new.prompt = s.prompt
        /\ new.completion = s.completion + tokens /\ new.gpu = s.gpu + time
    <3>1. s.gpu + time \in Nat
      BY <1>3 DEF TenantStates
    <3> QED
      BY <2>3, <2>4, <3>1 DEF TenantStates
  <2>6. s.completion = tenants[t].completion /\ s.gpu = tenants[t].gpu
    BY <1>3, <1>4, <2>1 DEF Leaves
  <2> QED
    BY <1>3, <2>1, <2>5, <2>6 DEF Leaves
<1>6. Departed(r, t)
  BY <1>1, <1>2, RequestDropped
<1> HIDE DEF new
<1>7. Becomes(t, new)
  BY <1>2, <1>4, <1>5, Replaced DEF Leaves, Becomes
<1>8. Gone(r, t, new, tokens, time)
  BY <1>1, <1>2, <1>4, <1>5, <1>6, <1>7 DEF Gone
<1> QED
  BY <1>8

LEMMA CompleteSound ==
  ASSUME IInv, NEW r \in Requests, NEW tokens \in Generated, NEW time \in GpuTimes, Complete(r, tokens, time)
  PROVE  IInv'
<1>1. PICK t, new : Gone(r, t, new, tokens, time)
  BY CompleteFacts
<1>2. /\ IsFiniteSet(DOMAIN usage) /\ r \notin DOMAIN usage /\ DOMAIN usage' = DOMAIN usage \cup {r}
      /\ cancelled' = cancelled /\ cancelled \in Nat
  BY DEF IInv, Typed, Complete, Put
<1>3. /\ IsFiniteSet(DOMAIN usage') /\ Cardinality(DOMAIN usage') = Cardinality(DOMAIN usage) + 1
      /\ Cardinality(DOMAIN usage) \in Nat
  BY <1>2, FS_AddElement, FS_CardinalityType
<1>4. Cardinality(DOMAIN usage') + cancelled' = Cardinality(DOMAIN usage) + cancelled + 1
  BY <1>2, <1>3
<1> QED
  BY <1>1, <1>2, <1>3, <1>4, LeaveSound

\* A tenant starts with empty counts, and no request of its own.
LEMMA RegisterTenantSound == ASSUME IInv, NEW t \in Tenants, RegisterTenant(t) PROVE IInv'
<1> DEFINE new == [active |-> 0, queued |-> 0, prompt |-> 0, completion |-> 0, gpu |-> 0]
<1>1. /\ Typed /\ CountsExact /\ RequestsBalance /\ PromptWithin /\ ActiveWithin /\ QueuedWithin
      /\ t \notin DOMAIN tenants /\ tenants' = Put(tenants, t, new)
      /\ UNCHANGED <<requests, usage, taken, cancelled>>
  BY DEF IInv, RegisterTenant
<1>2. new \in TenantStates /\ new.active = 0 /\ new.queued = 0 /\ new.prompt = 0
  BY DEF TenantStates
<1> HIDE DEF new
<1>3. /\ DOMAIN tenants' = DOMAIN tenants \cup {t} /\ tenants'[t] = new
      /\ \A x \in DOMAIN tenants : tenants'[x] = tenants[x]
      /\ tenants' = [x \in DOMAIN tenants' |-> tenants'[x]]
  BY <1>1 DEF Put
<1>4. Typed'
  <2>1. \A x \in DOMAIN tenants' : tenants'[x] \in TenantStates
    BY <1>1, <1>2, <1>3, TenantParts
  <2>2. tenants' \in [DOMAIN tenants' -> TenantStates]
    BY <1>3, <2>1
  <2>3. DOMAIN tenants' \subseteq Tenants /\ \A r \in DOMAIN requests : requests[r].spec.tenant \in DOMAIN tenants'
    BY <1>1, <1>3 DEF Typed
  <2> QED
    BY <1>1, <2>2, <2>3 DEF Typed
<1>5. \A u : RequestsOf(u, TRUE)' = RequestsOf(u, TRUE) /\ RequestsOf(u, FALSE)' = RequestsOf(u, FALSE)
  BY <1>1 DEF RequestsOf
<1>6. CountsExact'
  <2> SUFFICES ASSUME NEW u \in DOMAIN tenants'
               PROVE  /\ tenants'[u].active = Cardinality(RequestsOf(u, FALSE)')
                      /\ tenants'[u].queued = Cardinality(RequestsOf(u, TRUE)')
    BY DEF CountsExact
  <2>1. CASE u \in DOMAIN tenants
    BY <1>1, <1>3, <1>5, <2>1 DEF CountsExact
  <2>2. CASE u = t
    <3>1. RequestsOf(t, TRUE) = {} /\ RequestsOf(t, FALSE) = {}
      BY <1>1 DEF RequestsOf, Typed
    <3> QED
      BY <1>2, <1>3, <1>5, <2>2, <3>1, FS_EmptySet
  <2> QED
    BY <1>3, <2>1, <2>2
<1>7. RequestsBalance'
  BY <1>1 DEF RequestsBalance
<1>8. PromptWithin' /\ ActiveWithin' /\ QueuedWithin'
  <2> SUFFICES ASSUME NEW u \in DOMAIN tenants'
               PROVE  /\ tenants'[u].prompt <= Policy[u].prompt /\ tenants'[u].active <= Policy[u].active
                      /\ tenants'[u].queued <= Policy[u].queued
    BY DEF PromptWithin, ActiveWithin, QueuedWithin
  <2>1. CASE u \in DOMAIN tenants
    BY <1>1, <1>3, <2>1 DEF PromptWithin, ActiveWithin, QueuedWithin
  <2>2. CASE u = t
    BY <1>2, <1>3, <2>2, Policies
  <2> QED
    BY <1>3, <2>1, <2>2
<1> QED
  BY <1>4, <1>6, <1>7, <1>8 DEF IInv

\* Workers, circuits and shutdown touch none of it.
LEMMA OthersSound ==
  ASSUME IInv, UNCHANGED <<tenants, requests, usage, taken, cancelled>>
  PROVE  IInv'
<1>1. \A u : RequestsOf(u, TRUE)' = RequestsOf(u, TRUE) /\ RequestsOf(u, FALSE)' = RequestsOf(u, FALSE)
  BY DEF RequestsOf
<1>2. Typed' /\ RequestsBalance'
  BY DEF IInv, Typed, RequestsBalance
<1>3. CountsExact'
  BY <1>1 DEF IInv, CountsExact
<1>4. PromptWithin' /\ ActiveWithin' /\ QueuedWithin'
  BY DEF IInv, PromptWithin, ActiveWithin, QueuedWithin
<1> QED
  BY <1>2, <1>3, <1>4 DEF IInv

---------------------------------------------------------------------------
(* The theorem. *)

LEMMA InitSound == Init => IInv
<1> SUFFICES ASSUME Init PROVE IInv
  OBVIOUS
<1>1. /\ DOMAIN tenants = {} /\ DOMAIN requests = {} /\ DOMAIN usage = {}
      /\ tenants \in [{} -> TenantStates] /\ taken = 0 /\ cancelled = 0
  BY DEF Init, Empty
<1>2. IsFiniteSet({}) /\ Cardinality({}) = 0
  BY FS_EmptySet
<1>3. Typed
  BY <1>1, <1>2 DEF Typed
<1>4. CountsExact /\ RequestsBalance /\ PromptWithin /\ ActiveWithin /\ QueuedWithin
  BY <1>1, <1>2 DEF CountsExact, RequestsBalance, PromptWithin, ActiveWithin, QueuedWithin
<1> QED
  BY <1>3, <1>4 DEF IInv

LEMMA NextSound == IInv /\ [Next]_vars => IInv'
<1> SUFFICES ASSUME IInv, [Next]_vars PROVE IInv'
  OBVIOUS
<1>1. CASE \E t \in Tenants : RegisterTenant(t)
  BY <1>1, RegisterTenantSound
<1>2. CASE \E w \in Workers, birth \in Births : RegisterWorker(w, birth)
  BY <1>2, OthersSound DEF RegisterWorker
<1>3. CASE \E r \in Requests, q \in Specs : Admit(r, q)
  BY <1>3, AdmitSound
<1>4. CASE \E r \in Requests, tokens \in Generated, time \in GpuTimes : Complete(r, tokens, time)
  BY <1>4, CompleteSound
<1>5. CASE \E r \in Requests : Cancel(r)
  BY <1>5, CancelSound
<1>6. CASE \E w \in Workers : OpenCircuit(w) \/ RecoverCircuit(w) \/ DrainWorker(w)
  BY <1>6, OthersSound DEF OpenCircuit, RecoverCircuit, DrainWorker
<1>7. CASE ShutdownAudit
  BY <1>7, OthersSound DEF ShutdownAudit
<1>8. CASE UNCHANGED vars
  BY <1>8, OthersSound DEF vars
<1> QED
  BY <1>1, <1>2, <1>3, <1>4, <1>5, <1>6, <1>7, <1>8 DEF Next

LEMMA Limits == IInv => WithinPolicy
<1> SUFFICES ASSUME IInv, NEW t \in DOMAIN tenants
             PROVE  /\ Cardinality(RequestsOf(t, FALSE)) <= Policy[t].active
                    /\ Cardinality(RequestsOf(t, TRUE)) <= Policy[t].queued
                    /\ tenants[t].prompt <= Policy[t].prompt
  BY DEF WithinPolicy
<1> QED
  BY DEF IInv, CountsExact, PromptWithin, ActiveWithin, QueuedWithin

---------------------------------------------------------------------------
(* The scan over the workers, in any order. *)

\* it is the recursion of the scan over the sets of positions in C.
Scans(it, order, q, C) ==
  it = [s \in C |-> IF s = {} THEN 0 ELSE Better(it[s \ {Max(s)}], order[Max(s)], q)]
Scan(order, q) == CHOOSE it : Scans(it, order, q, SUBSET DOMAIN order)

LEMMA SelectedIs == ASSUME NEW order, NEW q PROVE Selected(order, q) = Scan(order, q)[DOMAIN order]
  BY DEF Selected, FoldLeft, MapThenFoldSet, Scan, Scans

LEMMA LastPosition ==
  ASSUME NEW n \in Nat, NEW s \in SUBSET (1..n), s # {}
  PROVE  Max(s) \in s
<1> DEFINE after == {n - x : x \in s}
<1>0. \A x \in s : x \in Nat /\ n - x \in Nat
  OBVIOUS
<1>1. after \subseteq Nat /\ after # {}
  BY <1>0
<1>2. PICK m \in after : \A k \in after : m <= k
  <2> HIDE DEF after
  <2> QED
    BY ONLY <1>1, LeastExists
<1>3. PICK x \in s : m = n - x
  BY <1>2
<1>4. \A y \in s : n - x <= n - y
  BY <1>2, <1>3
<1>5. \A y \in s : x >= y
  BY <1>0, <1>4
<1> QED
  BY <1>3, <1>5 DEF Max

LEMMA ScansUpTo ==
  ASSUME NEW order, NEW q, NEW size \in Nat, NEW D, D = 1..size, NEW n \in Nat
  PROVE  \E it : Scans(it, order, q, UpTo(D, n))
<1> DEFINE bad == {m \in Nat : ~ \E it : Scans(it, order, q, UpTo(D, m))}
<1> SUFFICES ASSUME bad # {} PROVE FALSE
  OBVIOUS
<1>1. PICK m \in bad : \A k \in bad : m <= k
  BY LeastExists
<1> HIDE DEF bad
<1>2. m \in Nat /\ ~ \E it : Scans(it, order, q, UpTo(D, m))
  BY <1>1 DEF bad
<1>3. IsFiniteSet(D)
  BY FS_Interval
<1>4. \A s \in SUBSET D : IsFiniteSet(s) /\ Cardinality(s) \in Nat
  BY <1>3, FS_Subset, FS_CardinalityType
<1>5. CASE m = 0
  <2> DEFINE it == [s \in UpTo(D, 0) |-> 0]
  <2>1. \A s \in UpTo(D, 0) : s = {}
    BY <1>4, FS_EmptySet DEF UpTo
  <2>2. Scans(it, order, q, UpTo(D, 0))
    BY <2>1 DEF Scans
  <2> QED
    BY <1>2, <1>5, <2>2
<1>6. CASE m # 0
  <2>1. m - 1 \in Nat /\ m - 1 \notin bad
    BY <1>1, <1>2, <1>6
  <2>2. PICK prev : Scans(prev, order, q, UpTo(D, m - 1))
    BY <2>1 DEF bad
  <2> DEFINE it == [s \in UpTo(D, m) |-> IF s = {} THEN 0 ELSE Better(prev[s \ {Max(s)}], order[Max(s)], q)]
  <2>3. ASSUME NEW s \in UpTo(D, m), s # {}
        PROVE  s \ {Max(s)} \in UpTo(D, m) /\ it[s \ {Max(s)}] = prev[s \ {Max(s)}]
    <3>1. Max(s) \in s /\ s \in SUBSET D
      BY <2>3, LastPosition DEF UpTo
    <3>2. s \ {Max(s)} \in UpTo(D, m - 1)
      <4>1. Cardinality(s) <= m /\ IsFiniteSet(s)
        BY <1>4, <3>1 DEF UpTo
      <4>2. Cardinality(s \ {Max(s)}) = Cardinality(s) - 1 /\ Cardinality(s) \in Nat
        BY <3>1, <4>1, Smaller
      <4>3. Cardinality(s \ {Max(s)}) <= m - 1
        BY ONLY <1>2, <4>1, <4>2
      <4> QED
        BY ONLY <3>1, <4>3 DEF UpTo
    <3>3. s \ {Max(s)} \in UpTo(D, m)
      BY <1>2, <1>4, <3>2 DEF UpTo
    <3> QED
      BY <2>2, <3>2, <3>3 DEF Scans
  <2>4. Scans(it, order, q, UpTo(D, m))
    BY <2>3 DEF Scans
  <2> QED
    BY <1>2, <2>4
<1> QED
  BY <1>5, <1>6

\* The scan has met nobody at first, and then the workers from the first on.
LEMMA ScanStep ==
  ASSUME NEW order, NEW q, NEW size \in Nat, DOMAIN order = 1..size
  PROVE  /\ Scan(order, q)[{}] = 0
         /\ \A s \in SUBSET (1..size) : s # {} =>
              Scan(order, q)[s] = Better(Scan(order, q)[s \ {Max(s)}], order[Max(s)], q)
<1> DEFINE D == 1..size
<1>1. IsFiniteSet(D)
  BY FS_Interval
<1>2. UpTo(D, Cardinality(D)) = SUBSET D /\ Cardinality(D) \in Nat
  BY <1>1, FS_Subset, FS_CardinalityType DEF UpTo
<1>3. PICK it : Scans(it, order, q, UpTo(D, Cardinality(D)))
  BY <1>2, ScansUpTo
<1>4. Scans(it, order, q, SUBSET DOMAIN order)
  BY <1>2, <1>3
<1>5. Scans(Scan(order, q), order, q, SUBSET DOMAIN order)
  BY <1>4 DEF Scan
<1> QED
  BY <1>5 DEF Scans

\* Worker w comes before v.
Beats(w, v, q) == Score(w, q) < Score(v, q) \/ (Score(w, q) = Score(v, q) /\ w < v)

\* b is the best worker at the positions s, 0 if there is none.
BestAt(b, order, s, q) ==
  \/ b = 0 /\ \A i \in s : ~ Eligible(order[i], q)
  \/ /\ \E i \in s : b = order[i]
     /\ Eligible(b, q)
     /\ \A i \in s : Eligible(order[i], q) /\ order[i] # b => Beats(b, order[i], q)

LEMMA ScoreType == ASSUME NEW w \in Workers, NEW q \in Specs PROVE Score(w, q) \in Nat /\ w \in Nat /\ w # 0
<1>1. q \in [tenant : Tenants, model : Nat, prompt : Nat \ {0}, max : Nat \ {0}, deadline : BOOLEAN]
  BY SchedulerConstants
<1>2. Capacity[w] \in [load : Nat, pace : Nat, models : SUBSET Nat] /\ w \in Nat \ {0}
  BY SchedulerConstants
<1>3. PICK a \in Nat, b \in Nat, c \in Nat : a = q.prompt + q.max /\ b = Capacity[w].pace /\ c = Capacity[w].load
  BY <1>1, <1>2
<1>4. a * b \in Nat
  BY <1>3
<1> QED
  BY <1>2, <1>3, <1>4 DEF Score

\* One more worker.
LEMMA NextBest ==
  ASSUME NEW q \in Specs, NEW order, NEW s, NEW m \in s, \A i \in s : order[i] \in Workers,
         NEW b, BestAt(b, order, s \ {m}, q)
  PROVE  BestAt(Better(b, order[m], q), order, s, q)
<1>1. PICK w : w = order[m] /\ w \in Workers
  OBVIOUS
<1>2. \A i \in s : Score(order[i], q) \in Nat /\ order[i] \in Nat /\ order[i] # 0
  BY ScoreType
<1>3. CASE ~ Eligible(w, q)
  <2>1. Better(b, order[m], q) = b
    BY <1>1, <1>3 DEF Better
  <2> QED
    BY <1>1, <1>3, <2>1 DEF BestAt
<1>4. CASE Eligible(w, q) /\ b = 0
  <2>1. Better(b, order[m], q) = w
    BY <1>1, <1>4 DEF Better
  <2>2. \A i \in s \ {m} : ~ Eligible(order[i], q)
    BY <1>2, <1>4 DEF BestAt
  <2> QED
    BY <1>1, <1>4, <2>1, <2>2 DEF BestAt
<1>5. CASE Eligible(w, q) /\ b # 0
  <2>1. /\ Eligible(b, q)
        /\ \A i \in s \ {m} : Eligible(order[i], q) /\ order[i] # b => Beats(b, order[i], q)
    BY <1>5 DEF BestAt
  <2>2. PICK k \in s \ {m} : b = order[k]
    BY <1>5 DEF BestAt
  <2>3. Score(b, q) \in Nat /\ b \in Nat /\ Score(w, q) \in Nat /\ w \in Nat
    BY <1>1, <1>2, <2>2
  <2>4. CASE Beats(w, b, q)
    <3>1. Better(b, order[m], q) = w
      BY <1>1, <1>5, <2>4 DEF Better, Beats
    <3>2. ASSUME NEW i \in s, Eligible(order[i], q), order[i] # w PROVE Beats(w, order[i], q)
      <4>1. order[i] = b \/ Beats(b, order[i], q)
        BY <1>1, <2>1, <3>2
      <4>2. Score(order[i], q) \in Nat /\ order[i] \in Nat
        BY <1>2
      <4> QED
        BY <2>3, <2>4, <4>1, <4>2 DEF Beats
    <3> QED
      BY <1>1, <1>5, <3>1, <3>2 DEF BestAt
  <2>5. CASE ~ Beats(w, b, q)
    <3>1. Better(b, order[m], q) = b
      BY <1>1, <1>5, <2>5 DEF Better, Beats
    <3>2. w = b \/ Beats(b, w, q)
      BY <2>3, <2>5 DEF Beats
    <3>3. ASSUME NEW i \in s, Eligible(order[i], q), order[i] # b PROVE Beats(b, order[i], q)
      BY <1>1, <2>1, <3>2, <3>3
    <3> QED
      BY <2>1, <2>2, <3>1, <3>3 DEF BestAt
  <2> QED
    BY <2>4, <2>5
<1> QED
  BY <1>3, <1>4, <1>5

LEMMA ScanBest ==
  ASSUME NEW q \in Specs, NEW size \in Nat, NEW order \in [1..size -> Workers]
  PROVE  \A s \in SUBSET (1..size) : BestAt(Scan(order, q)[s], order, s, q)
<1> DEFINE bad == {s \in SUBSET (1..size) : ~ BestAt(Scan(order, q)[s], order, s, q)}
<1> SUFFICES ASSUME bad # {} PROVE FALSE
  OBVIOUS
<1>1. \A s \in bad : IsFiniteSet(s)
  <2>1. IsFiniteSet(1..size)
    BY FS_Interval
  <2> QED
    BY <2>1, FS_Subset
<1>2. PICK s \in bad : IsFiniteSet(s) /\ \A x \in s : s \ {x} \notin bad
  <2> HIDE DEF bad
  <2> QED
    BY <1>1, MinimalExists
<1>3. s \in SUBSET (1..size) /\ ~ BestAt(Scan(order, q)[s], order, s, q)
  BY <1>2
<1>4. s # {}
  <2>1. Scan(order, q)[{}] = 0
    BY ScanStep
  <2> QED
    BY ONLY <1>3, <2>1 DEF BestAt
<1>5. PICK m \in s : m = Max(s) /\ m \in 1..size
  BY <1>3, <1>4, LastPosition
<1>6. s \ {m} \notin bad
  BY ONLY <1>2, <1>5
<1>7. PICK b : b = Scan(order, q)[s \ {m}]
  OBVIOUS
<1>8. BestAt(b, order, s \ {m}, q)
  BY <1>3, <1>6, <1>7
<1>9. Scan(order, q)[s] = Better(b, order[m], q)
  BY <1>3, <1>4, <1>5, <1>7, ScanStep
<1>10. BestAt(Better(b, order[m], q), order, s, q)
  BY <1>3, <1>5, <1>8, NextBest
<1> QED
  BY ONLY <1>3, <1>9, <1>10

\* Every registered worker is in the order the map is iterated in.
LEMMA OrdersCover ==
  ASSUME NEW S, IsFiniteSet(S), NEW order \in SetToSeqs(S)
  PROVE  /\ Cardinality(S) \in Nat /\ order \in [1..Cardinality(S) -> S]
         /\ \A v \in S : \E i \in 1..Cardinality(S) : order[i] = v
<1>1. Cardinality(S) \in Nat
  BY FS_CardinalityType
<1>2. /\ order \in [1..Cardinality(S) -> S]
      /\ \A i, j \in 1..Cardinality(S) : i # j => order[i] # order[j]
  BY DEF SetToSeqs
<1>3. order \in Injection(1..Cardinality(S), S)
  BY <1>2 DEF Injection, IsInjective
<1>4. Cardinality(1..Cardinality(S)) = Cardinality(S)
  BY <1>1, FS_Interval
<1>5. order \in Surjection(1..Cardinality(S), S)
  BY <1>3, <1>4, FS_Injection
<1> QED
  BY <1>1, <1>2, <1>5 DEF Surjection

\* What is selected does not depend on the order.
LEMMA SelectedBest ==
  ASSUME DOMAIN workers \subseteq Workers, NEW q \in Specs,
         NEW order \in SetToSeqs(DOMAIN workers), NEW w, w = Selected(order, q), w # 0
  PROVE  /\ w \in DOMAIN workers /\ Eligible(w, q)
         /\ \A v \in DOMAIN workers : Eligible(v, q) /\ v # w => Beats(w, v, q)
<1>1. IsFiniteSet(DOMAIN workers)
  BY FS_Subset, SchedulerConstants
<1>2. PICK size \in Nat : size = Cardinality(DOMAIN workers)
  BY <1>1, FS_CardinalityType
<1>3. /\ order \in [1..size -> DOMAIN workers]
      /\ \A v \in DOMAIN workers : \E i \in 1..size : order[i] = v
  BY <1>1, <1>2, OrdersCover
<1>4. DOMAIN order = 1..size /\ order \in [1..size -> Workers]
  BY <1>3
<1>5. BestAt(w, order, 1..size, q)
  <2>1. BestAt(Scan(order, q)[1..size], order, 1..size, q)
    BY <1>4, ScanBest
  <2> QED
    BY <1>4, <2>1, SelectedIs
<1> QED
  BY <1>3, <1>5 DEF BestAt

---------------------------------------------------------------------------
(* Where requests are. *)

Placed ==
  /\ DOMAIN workers \subseteq Workers /\ DOMAIN requests \subseteq Requests
  /\ workers \in [DOMAIN workers -> [state : WorkerStates, circuit : Circuits]]
  /\ \A r \in DOMAIN requests : requests[r] \in [spec : Specs, worker : DOMAIN workers, queued : BOOLEAN]
  /\ shutting \in BOOLEAN /\ audited \in BOOLEAN /\ (audited => shutting)
  /\ DrainsHold

\* A worker's state is replaced by one that is not "draining", or no request is on it.
LEMMA WorkerReplaced ==
  ASSUME Placed, NEW w \in DOMAIN workers, NEW new \in [state : WorkerStates, circuit : Circuits],
         new.state # "draining" \/ \A r \in DOMAIN requests : requests[r].worker # w,
         workers' = [workers EXCEPT ![w] = new], UNCHANGED <<requests, shutting, audited>>
  PROVE  Placed'
<1>1. /\ DOMAIN workers' = DOMAIN workers /\ workers'[w] = new
      /\ \A v \in DOMAIN workers : v # w => workers'[v] = workers[v]
      /\ workers' \in [DOMAIN workers' -> [state : WorkerStates, circuit : Circuits]]
  <2>1. ASSUME NEW D, workers \in [D -> [state : WorkerStates, circuit : Circuits]], w \in D
        PROVE  /\ workers' \in [D -> [state : WorkerStates, circuit : Circuits]] /\ workers'[w] = new
               /\ \A v \in D : v # w => workers'[v] = workers[v]
    BY <2>1
  <2>2. /\ workers' \in [DOMAIN workers -> [state : WorkerStates, circuit : Circuits]] /\ workers'[w] = new
        /\ \A v \in DOMAIN workers : v # w => workers'[v] = workers[v]
    BY <2>1 DEF Placed
  <2>3. DOMAIN workers' = DOMAIN workers
    BY <2>2
  <2> QED
    BY <2>2, <2>3
<1>2. \A r \in DOMAIN requests : requests[r].worker \in DOMAIN workers
  BY DEF Placed
<1>3. DrainsHold'
  BY <1>1, <1>2 DEF Placed, DrainsHold
<1>4. \A r \in DOMAIN requests' : requests'[r] \in [spec : Specs, worker : DOMAIN workers', queued : BOOLEAN]
  BY <1>1 DEF Placed
<1> QED
  BY <1>1, <1>3, <1>4 DEF Placed

LEMMA AdmitPlaces ==
  ASSUME Placed, NEW r \in Requests, NEW q \in Specs, Admit(r, q)
  PROVE  /\ Placed'
         /\ DOMAIN requests' = DOMAIN requests \cup {r} /\ requests'[r].spec = q
         /\ requests'[r].worker \in DOMAIN workers /\ Eligible(requests'[r].worker, q)
         /\ \A v \in DOMAIN workers : Eligible(v, q) /\ v # requests'[r].worker => Beats(requests'[r].worker, v, q)
<1>1. PICK order \in SetToSeqs(DOMAIN workers), late \in BOOLEAN :
        /\ Selected(order, q) # 0
        /\ requests' = Put(requests, r, [spec |-> q, worker |-> Selected(order, q), queued |-> late])
  BY DEF Admit, MustQueue
<1>2. ~shutting /\ r \notin DOMAIN requests /\ UNCHANGED <<workers, shutting, audited>>
  BY DEF Admit
<1>3. PICK w : w = Selected(order, q) /\ w # 0
  BY <1>1
<1>4. /\ w \in DOMAIN workers /\ Eligible(w, q)
      /\ \A v \in DOMAIN workers : Eligible(v, q) /\ v # w => Beats(w, v, q)
  BY <1>3, SelectedBest DEF Placed
<1>5. PICK new : new = [spec |-> q, worker |-> w, queued |-> late]
  OBVIOUS
<1>6. /\ DOMAIN requests' = DOMAIN requests \cup {r} /\ requests'[r] = new
      /\ \A x \in DOMAIN requests : requests'[x] = requests[x]
  <2>1. requests' = Put(requests, r, new)
    BY ONLY <1>1, <1>3, <1>5
  <2> QED
    BY ONLY <1>2, <2>1 DEF Put
<1>7. new \in [spec : Specs, worker : DOMAIN workers, queued : BOOLEAN] /\ new.spec = q /\ new.worker = w
  BY <1>4, <1>5
<1>8. DrainsHold'
  <2>1. workers[w].state # "draining" /\ ~audited'
    BY <1>2, <1>4 DEF Eligible, Placed
  <2>2. \A x \in DOMAIN requests : workers[requests[x].worker].state # "draining"
    BY DEF Placed, DrainsHold
  <2> QED
    BY <1>2, <1>6, <1>7, <2>1, <2>2 DEF DrainsHold
<1>9. \A x \in DOMAIN requests' : requests'[x] \in [spec : Specs, worker : DOMAIN workers', queued : BOOLEAN]
  BY <1>2, <1>6, <1>7 DEF Placed
<1>10. Placed'
  BY <1>2, <1>6, <1>8, <1>9 DEF Placed
<1>11. requests'[r].worker = w /\ requests'[r].spec = q
  BY <1>6, <1>7
<1> QED
  BY <1>4, <1>6, <1>10, <1>11

LEMMA DropPlaces ==
  ASSUME Placed, NEW r \in DOMAIN requests, requests' = Drop(requests, r), UNCHANGED <<workers, shutting, audited>>
  PROVE  Placed' /\ DOMAIN requests' \subseteq DOMAIN requests
<1>1. DOMAIN requests' \subseteq DOMAIN requests /\ \A x \in DOMAIN requests' : requests'[x] = requests[x]
  BY DEF Drop, Restrict
<1>2. DrainsHold'
  BY <1>1 DEF Placed, DrainsHold
<1> QED
  BY <1>1, <1>2 DEF Placed

LEMMA RegisterPlaces ==
  ASSUME Placed, NEW w \in Workers, NEW birth \in Births, RegisterWorker(w, birth)
  PROVE  Placed'
<1>1. birth \in [state : WorkerStates, circuit : Circuits]
  BY SchedulerConstants
<1>2. w \notin DOMAIN workers /\ workers' = Put(workers, w, birth) /\ UNCHANGED <<requests, shutting, audited>>
  BY DEF RegisterWorker
<1>3. /\ DOMAIN workers' = DOMAIN workers \cup {w} /\ workers'[w] = birth
      /\ \A v \in DOMAIN workers : workers'[v] = workers[v]
      /\ workers' = [v \in DOMAIN workers' |-> workers'[v]]
  BY <1>2 DEF Put
<1>4. \A v \in DOMAIN workers' : workers'[v] \in [state : WorkerStates, circuit : Circuits]
  BY <1>1, <1>3 DEF Placed
<1>5. workers' \in [DOMAIN workers' -> [state : WorkerStates, circuit : Circuits]]
  BY <1>3, <1>4
<1>6. \A r \in DOMAIN requests : requests[r] \in [spec : Specs, worker : DOMAIN workers', queued : BOOLEAN]
  BY <1>3 DEF Placed
<1>7. DrainsHold'
  BY <1>2, <1>3 DEF Placed, DrainsHold
<1> QED
  BY <1>2, <1>3, <1>5, <1>6, <1>7 DEF Placed

LEMMA NextPlaces == Placed /\ [Next]_vars => Placed'
<1> SUFFICES ASSUME Placed, [Next]_vars PROVE Placed'
  OBVIOUS
<1>1. CASE \E t \in Tenants : RegisterTenant(t)
  BY <1>1 DEF RegisterTenant, Placed, DrainsHold
<1>2. CASE \E w \in Workers, birth \in Births : RegisterWorker(w, birth)
  BY <1>2, RegisterPlaces
<1>3. CASE \E r \in Requests, q \in Specs : Admit(r, q)
  BY <1>3, AdmitPlaces
<1>4. CASE \E r \in Requests, tokens \in Generated, time \in GpuTimes : Complete(r, tokens, time)
  BY <1>4, DropPlaces DEF Complete
<1>5. CASE \E r \in Requests : Cancel(r)
  BY <1>5, DropPlaces DEF Cancel
<1>6. CASE \E w \in Workers : OpenCircuit(w) \/ RecoverCircuit(w) \/ DrainWorker(w)
  <2>1. PICK w \in Workers : OpenCircuit(w) \/ RecoverCircuit(w) \/ DrainWorker(w)
    BY <1>6
  <2>2. CASE OpenCircuit(w)
    <3>1. [state |-> "quarantined", circuit |-> "open"] \in [state : WorkerStates, circuit : Circuits]
      BY DEF WorkerStates, Circuits
    <3> QED
      BY <2>2, <3>1, WorkerReplaced DEF OpenCircuit
  <2>3. CASE RecoverCircuit(w)
    <3>1. [state |-> "healthy", circuit |-> "closed"] \in [state : WorkerStates, circuit : Circuits]
      BY DEF WorkerStates, Circuits
    <3> QED
      BY <2>3, <3>1, WorkerReplaced DEF RecoverCircuit
  <2>4. CASE DrainWorker(w)
    <3>1. PICK new : new = [workers[w] EXCEPT !.state = "draining"]
      OBVIOUS
    <3>2. /\ w \in DOMAIN workers /\ \A r \in DOMAIN requests : requests[r].worker # w
          /\ workers' = [workers EXCEPT ![w] = new] /\ UNCHANGED <<requests, shutting, audited>>
      BY <2>4, <3>1 DEF DrainWorker
    <3>3. workers[w] \in [state : WorkerStates, circuit : Circuits]
      BY <3>2 DEF Placed
    <3>4. new \in [state : WorkerStates, circuit : Circuits]
      BY <3>1, <3>3 DEF WorkerStates
    <3> QED
      BY <3>2, <3>4, WorkerReplaced
  <2> QED
    BY <2>1, <2>2, <2>3, <2>4
<1>7. CASE ShutdownAudit
  BY <1>7 DEF ShutdownAudit, Placed, DrainsHold
<1>8. CASE UNCHANGED vars
  BY <1>8 DEF vars, Placed, DrainsHold
<1> QED
  BY <1>1, <1>2, <1>3, <1>4, <1>5, <1>6, <1>7, <1>8 DEF Next

LEMMA InitPlaces == Init => Placed
  BY DEF Init, Empty, Placed, DrainsHold

\* A worker that has been drained has no request, and an audited scheduler none at
\* all, in every later state: for any workers, requests and order of the calls.
THEOREM DrainsStay == Spec => []DrainsHold
<1>1. Spec => []Placed
  BY InitPlaces, NextPlaces, PTL DEF Spec
<1>2. Placed => DrainsHold
  BY DEF Placed
<1> QED
  BY <1>1, <1>2, PTL

LEMMA BestStep == Placed /\ [Next]_vars => [GoesToBest]_vars
<1> SUFFICES ASSUME Placed, Next PROVE GoesToBest
  OBVIOUS
<1>1. CASE \E x \in Requests, q \in Specs : Admit(x, q)
  <2>1. PICK x \in Requests, q \in Specs : Admit(x, q)
    BY <1>1
  <2>2. /\ DOMAIN requests' = DOMAIN requests \cup {x} /\ requests'[x].spec = q
        /\ Eligible(requests'[x].worker, q)
        /\ \A v \in DOMAIN workers : Eligible(v, q) /\ v # requests'[x].worker => Beats(requests'[x].worker, v, q)
    BY <2>1, AdmitPlaces
  <2> QED
    BY <2>2 DEF GoesToBest, Eligible, Beats
<1>2. CASE ~ \E x \in Requests, q \in Specs : Admit(x, q)
  <2>1. DOMAIN requests' \subseteq DOMAIN requests
    BY <1>2, DropPlaces DEF Next, RegisterTenant, RegisterWorker, Complete, Cancel, OpenCircuit, RecoverCircuit,
       DrainWorker, ShutdownAudit, Drop, Restrict
  <2> QED
    BY <2>1 DEF GoesToBest
<1> QED
  BY <1>1, <1>2

\* A request goes to the worker that is least by score and id among those in service
\* for its model, whatever order the workers are met in.
THEOREM BestWorkerAlways == Spec => BestWorkerChosen
<1>1. Spec => []Placed
  BY InitPlaces, NextPlaces, PTL DEF Spec
<1> QED
  BY <1>1, BestStep, PTL DEF Spec, BestWorkerChosen

---------------------------------------------------------------------------
(* What is summed over all tenants. *)

\* The requests that wait, or that run.
Waiting(waits) == {r \in DOMAIN requests : requests[r].queued = waits}

Books ==
  /\ IsFiniteSet(DOMAIN tenants)
  /\ DOMAIN usage \subseteq Requests /\ \A r \in DOMAIN usage : usage[r] \in Nat
  /\ Total("gpu") = SumFunction(usage)
  /\ Total("active") = Cardinality(Waiting(FALSE)) /\ Total("active") <= Limit.active
  /\ Total("queued") = Cardinality(Waiting(TRUE)) /\ Total("queued") <= Limit.queued

Counts == {"active", "queued", "gpu"}

LEMMA CountType == \A s \in TenantStates, count \in Counts : s[count] \in Nat
  BY DEF TenantStates, Counts

LEMMA Limited == Limit.active \in Nat \ {0} /\ Limit.queued \in Nat \ {0}
<1>1. Limit \in [tenants : Nat \ {0}, workers : Nat \ {0}, active : Nat \ {0}, queued : Nat \ {0}]
  BY SchedulerConstants
<1> QED
  BY <1>1

LEMMA TotalMoves ==
  ASSUME Typed, IsFiniteSet(DOMAIN tenants), NEW t \in DOMAIN tenants, NEW new \in TenantStates, Becomes(t, new),
         NEW count \in Counts
  PROVE  /\ Total(count)' = Total(count) - tenants[t][count] + new[count]
         /\ Total(count) \in Nat /\ Total(count)' \in Nat /\ tenants[t][count] <= Total(count)
<1>1. PICK f : f = [x \in DOMAIN tenants |-> tenants[x][count]]
  OBVIOUS
<1>2. PICK g : g = [x \in DOMAIN tenants |-> tenants'[x][count]]
  OBVIOUS
<1>3. /\ DOMAIN tenants' = DOMAIN tenants /\ tenants'[t] = new
      /\ \A x \in DOMAIN tenants : x # t => tenants'[x] = tenants[x]
  BY DEF Becomes
<1>4. \A x \in DOMAIN tenants : tenants[x] \in TenantStates
  BY DEF Typed
<1>5. /\ DOMAIN f = DOMAIN tenants /\ DOMAIN g = DOMAIN f
      /\ \A x \in DOMAIN f : f[x] \in Nat
      /\ \A x \in DOMAIN f \ {t} : g[x] = f[x]
      /\ g[t] = new[count] /\ g[t] \in Nat /\ f[t] = tenants[t][count]
  BY <1>1, <1>2, <1>3, <1>4, CountType
<1>6. /\ SumFunction(g) = SumFunction(f) - f[t] + g[t]
      /\ SumFunction(f) \in Nat /\ SumFunction(g) \in Nat /\ f[t] <= SumFunction(f)
  BY <1>5, SumUpdate
<1>7. Total(count) = SumFunction(f) /\ Total(count)' = SumFunction(g)
  BY <1>1, <1>2, <1>3 DEF Total
<1> QED
  BY <1>5, <1>6, <1>7

\* One more waits, or runs.
OneMore(waits) ==
  /\ Cardinality(Waiting(waits)') = Cardinality(Waiting(waits)) + 1
  /\ Waiting(~waits)' = Waiting(~waits)

LEMMA WaitingAdded ==
  ASSUME Typed, NEW r, r \notin DOMAIN requests, NEW new, new.queued \in BOOLEAN, Entered(r, new)
  PROVE  OneMore(new.queued)
<1>1. /\ DOMAIN requests' = DOMAIN requests \cup {r}
      /\ requests'[r] = new /\ \A x \in DOMAIN requests : requests'[x] = requests[x]
  BY DEF Entered
<1>2. IsFiniteSet(Waiting(TRUE)) /\ IsFiniteSet(Waiting(FALSE)) /\ r \notin Waiting(TRUE) /\ r \notin Waiting(FALSE)
  BY FS_Subset DEF Typed, Waiting
<1>3. CASE new.queued
  <2>1. Waiting(TRUE)' = Waiting(TRUE) \cup {r} /\ Waiting(FALSE)' = Waiting(FALSE)
    BY <1>1, <1>3 DEF Waiting, Typed
  <2>2. Cardinality(Waiting(TRUE)') = Cardinality(Waiting(TRUE)) + 1
    BY <1>2, <2>1, FS_AddElement
  <2>3. OneMore(TRUE)
    BY <2>1, <2>2 DEF OneMore
  <2> QED
    BY <1>3, <2>3
<1>4. CASE ~new.queued
  <2>1. Waiting(FALSE)' = Waiting(FALSE) \cup {r} /\ Waiting(TRUE)' = Waiting(TRUE)
    BY <1>1, <1>4 DEF Waiting, Typed
  <2>2. Cardinality(Waiting(FALSE)') = Cardinality(Waiting(FALSE)) + 1
    BY <1>2, <2>1, FS_AddElement
  <2>3. OneMore(FALSE)
    BY <2>1, <2>2 DEF OneMore
  <2> QED
    BY <1>4, <2>3
<1> QED
  BY <1>3, <1>4

LEMMA WaitingDropped ==
  ASSUME Typed, NEW r \in DOMAIN requests, NEW t, Departed(r, t)
  PROVE  /\ requests[r].queued => /\ Cardinality(Waiting(TRUE)') = Cardinality(Waiting(TRUE)) - 1
                                  /\ Waiting(FALSE)' = Waiting(FALSE)
         /\ ~requests[r].queued => /\ Cardinality(Waiting(FALSE)') = Cardinality(Waiting(FALSE)) - 1
                                   /\ Waiting(TRUE)' = Waiting(TRUE)
<1>1. /\ DOMAIN requests' = DOMAIN requests \ {r}
      /\ \A x \in DOMAIN requests' : requests'[x] = requests[x]
  BY DEF Departed
<1>2. IsFiniteSet(Waiting(TRUE)) /\ IsFiniteSet(Waiting(FALSE))
  BY FS_Subset DEF Typed, Waiting
<1>3. CASE requests[r].queued
  <2>1. Waiting(TRUE)' = Waiting(TRUE) \ {r} /\ r \in Waiting(TRUE) /\ Waiting(FALSE)' = Waiting(FALSE)
    BY <1>1, <1>3 DEF Waiting, Typed
  <2> QED
    BY <1>2, <1>3, <2>1, FS_RemoveElement
<1>4. CASE ~requests[r].queued
  <2>1. Waiting(FALSE)' = Waiting(FALSE) \ {r} /\ r \in Waiting(FALSE) /\ Waiting(TRUE)' = Waiting(TRUE)
    BY <1>1, <1>4 DEF Waiting, Typed
  <2> QED
    BY <1>2, <1>4, <2>1, FS_RemoveElement
<1> QED
  BY <1>3, <1>4

LEMMA AdmitBooks == ASSUME IInv, Books, NEW r \in Requests, NEW q \in Specs, Admit(r, q) PROVE Books'
<1>1. PICK t : t = q.tenant
  OBVIOUS
<1>2. PICK late, new, j : Taken(r, q, t, late, new, j)
  BY <1>1, AdmitFacts
<1>3. /\ Typed /\ t \in DOMAIN tenants /\ late \in BOOLEAN /\ new.queued = late /\ Entered(r, new)
      /\ r \notin DOMAIN requests /\ Room(t, q, late)
      /\ j \in TenantStates /\ Takes(tenants[t], j, q, late) /\ Becomes(t, j) /\ usage' = usage
  BY <1>2 DEF IInv, Taken, Takes
<1>4. \A count \in Counts : /\ Total(count)' = Total(count) - tenants[t][count] + j[count]
                            /\ Total(count) \in Nat /\ tenants[t][count] \in Nat
  BY <1>3, TotalMoves, CountType DEF Books, Typed
<1>5. /\ tenants[t].active \in Nat /\ tenants[t].queued \in Nat /\ tenants[t].gpu \in Nat
      /\ j.gpu = tenants[t].gpu
      /\ late => j.active = tenants[t].active /\ j.queued = tenants[t].queued + 1
      /\ ~late => j.active = tenants[t].active + 1 /\ j.queued = tenants[t].queued
  BY <1>3, TenantParts DEF Takes
<1>6. /\ Total("gpu")' = Total("gpu") - tenants[t].gpu + j.gpu
      /\ Total("active")' = Total("active") - tenants[t].active + j.active
      /\ Total("queued")' = Total("queued") - tenants[t].queued + j.queued
      /\ Total("gpu") \in Nat /\ Total("active") \in Nat /\ Total("queued") \in Nat
  BY <1>4 DEF Counts
<1>7. /\ Total("gpu")' = Total("gpu")
      /\ late => Total("active")' = Total("active") /\ Total("queued")' = Total("queued") + 1
      /\ ~late => Total("active")' = Total("active") + 1 /\ Total("queued")' = Total("queued")
  BY ONLY <1>3, <1>5, <1>6
<1>8. /\ late => /\ Cardinality(Waiting(TRUE)') = Cardinality(Waiting(TRUE)) + 1
                 /\ Waiting(FALSE)' = Waiting(FALSE)
      /\ ~late => /\ Cardinality(Waiting(FALSE)') = Cardinality(Waiting(FALSE)) + 1
                  /\ Waiting(TRUE)' = Waiting(TRUE)
  <2>1. OneMore(late)
    BY <1>3, WaitingAdded
  <2> QED
    BY <1>3, <2>1 DEF OneMore
<1>9. /\ late => Total("queued") < Limit.queued
      /\ ~late => Total("active") < Limit.active
  BY <1>3, <1>6, Limited DEF Room
<1>10. /\ IsFiniteSet(DOMAIN tenants') /\ DOMAIN usage' \subseteq Requests /\ \A x \in DOMAIN usage' : usage'[x] \in Nat
       /\ Total("gpu")' = SumFunction(usage)'
  BY <1>3, <1>7 DEF Books, Becomes
<1>11. /\ Total("active")' = Cardinality(Waiting(FALSE))' /\ Total("queued")' = Cardinality(Waiting(TRUE))'
  BY <1>3, <1>7, <1>8 DEF Books
<1>12. Total("active")' <= Limit.active /\ Total("queued")' <= Limit.queued
  BY <1>3, <1>6, <1>7, <1>9, Limited DEF Books
<1> QED
  BY <1>10, <1>11, <1>12 DEF Books

LEMMA LeaveBooks ==
  ASSUME IInv, Books, NEW r, NEW t, NEW new, NEW tokens, NEW time \in Nat, Gone(r, t, new, tokens, time),
         DOMAIN usage' \subseteq Requests, \A x \in DOMAIN usage' : usage'[x] \in Nat,
         SumFunction(usage)' = SumFunction(usage) + time
  PROVE  Books'
<1>1. /\ Typed /\ r \in DOMAIN requests /\ t \in DOMAIN tenants /\ requests[r].queued \in BOOLEAN
      /\ Departed(r, t) /\ Leaves(tenants[t], new, requests[r].queued, tokens, time) /\ Becomes(t, new)
      /\ new \in TenantStates
  BY DEF IInv, Gone, Leaves
<1>2. PICK waits \in BOOLEAN : waits = requests[r].queued
  BY <1>1
<1>3. \A count \in Counts : /\ Total(count)' = Total(count) - tenants[t][count] + new[count]
                            /\ Total(count) \in Nat
  BY <1>1, TotalMoves DEF Books
<1>4. /\ tenants[t].active \in Nat /\ tenants[t].queued \in Nat /\ tenants[t].gpu \in Nat
      /\ new.gpu = tenants[t].gpu + time
      /\ waits => new.active = tenants[t].active /\ new.queued = tenants[t].queued - 1
      /\ ~waits => new.active = tenants[t].active - 1 /\ new.queued = tenants[t].queued
  BY <1>1, <1>2, TenantParts DEF Leaves
<1>5. /\ Total("gpu")' = Total("gpu") - tenants[t].gpu + new.gpu
      /\ Total("active")' = Total("active") - tenants[t].active + new.active
      /\ Total("queued")' = Total("queued") - tenants[t].queued + new.queued
      /\ Total("gpu") \in Nat /\ Total("active") \in Nat /\ Total("queued") \in Nat
  BY <1>3 DEF Counts
<1>6. /\ Total("gpu")' = Total("gpu") + time
      /\ waits => Total("active")' = Total("active") /\ Total("queued")' = Total("queued") - 1
      /\ ~waits => Total("active")' = Total("active") - 1 /\ Total("queued")' = Total("queued")
  BY ONLY time \in Nat, <1>4, <1>5
<1>7. /\ waits => /\ Cardinality(Waiting(TRUE)') = Cardinality(Waiting(TRUE)) - 1
                  /\ Waiting(FALSE)' = Waiting(FALSE)
      /\ ~waits => /\ Cardinality(Waiting(FALSE)') = Cardinality(Waiting(FALSE)) - 1
                   /\ Waiting(TRUE)' = Waiting(TRUE)
  BY <1>1, <1>2, WaitingDropped
<1>8. IsFiniteSet(DOMAIN tenants') /\ Total("gpu")' = SumFunction(usage)'
  BY <1>1, <1>6 DEF Books, Becomes
<1>9. /\ Total("active")' = Cardinality(Waiting(FALSE))' /\ Total("queued")' = Cardinality(Waiting(TRUE))'
  BY <1>2, <1>6, <1>7 DEF Books
<1>10. Total("active")' <= Limit.active /\ Total("queued")' <= Limit.queued
  BY <1>2, <1>5, <1>6, Limited DEF Books
<1> QED
  BY <1>8, <1>9, <1>10 DEF Books

LEMMA RegisterBooks == ASSUME IInv, Books, NEW t \in Tenants, RegisterTenant(t) PROVE Books'
<1> DEFINE new == [active |-> 0, queued |-> 0, prompt |-> 0, completion |-> 0, gpu |-> 0]
<1>1. /\ Typed /\ t \notin DOMAIN tenants /\ tenants' = Put(tenants, t, new) /\ UNCHANGED <<requests, usage>>
  BY DEF IInv, RegisterTenant
<1>2. new \in TenantStates /\ \A count \in Counts : new[count] = 0
  BY DEF TenantStates, Counts
<1> HIDE DEF new
<1>3. /\ DOMAIN tenants' = DOMAIN tenants \cup {t} /\ tenants'[t] = new
      /\ \A x \in DOMAIN tenants : tenants'[x] = tenants[x]
  BY <1>1 DEF Put
<1>4. ASSUME NEW count \in Counts PROVE Total(count)' = Total(count)
  <2>1. PICK f : f = [x \in DOMAIN tenants |-> tenants[x][count]]
    OBVIOUS
  <2>2. PICK g : g = [x \in DOMAIN tenants' |-> tenants'[x][count]]
    OBVIOUS
  <2>3. \A x \in DOMAIN tenants : tenants[x][count] \in Nat
    BY <1>1, CountType DEF Typed
  <2>4. /\ DOMAIN f = DOMAIN tenants /\ DOMAIN g = DOMAIN f \cup {t} /\ g[t] = 0
        /\ \A x \in DOMAIN f : g[x] = f[x] /\ f[x] \in Nat
    BY <1>2, <1>3, <2>1, <2>2, <2>3
  <2>5. SumFunction(g) = SumFunction(f) + g[t] /\ SumFunction(f) \in Nat
    BY <1>1, <2>4, SumPut DEF Books
  <2>6. Total(count) = SumFunction(f) /\ Total(count)' = SumFunction(g)
    BY <2>1, <2>2 DEF Total
  <2> QED
    BY <2>4, <2>5, <2>6
<1>5. IsFiniteSet(DOMAIN tenants')
  BY <1>3, FS_AddElement DEF Books
<1>6. Waiting(TRUE)' = Waiting(TRUE) /\ Waiting(FALSE)' = Waiting(FALSE)
  BY <1>1 DEF Waiting
<1>7. Total("gpu")' = Total("gpu") /\ Total("active")' = Total("active") /\ Total("queued")' = Total("queued")
  BY <1>4 DEF Counts
<1> QED
  BY <1>1, <1>5, <1>6, <1>7 DEF Books

LEMMA OthersBooks == ASSUME Books, UNCHANGED <<tenants, requests, usage>> PROVE Books'
<1>1. Waiting(TRUE)' = Waiting(TRUE) /\ Waiting(FALSE)' = Waiting(FALSE)
  BY DEF Waiting
<1>2. Total("gpu")' = Total("gpu") /\ Total("active")' = Total("active") /\ Total("queued")' = Total("queued")
  BY DEF Total
<1> QED
  BY <1>1, <1>2 DEF Books

LEMMA NextBooks == IInv /\ Books /\ [Next]_vars => Books'
<1> SUFFICES ASSUME IInv, Books, [Next]_vars PROVE Books'
  OBVIOUS
<1>1. CASE \E t \in Tenants : RegisterTenant(t)
  BY <1>1, RegisterBooks
<1>2. CASE \E w \in Workers, birth \in Births : RegisterWorker(w, birth)
  BY <1>2, OthersBooks DEF RegisterWorker
<1>3. CASE \E r \in Requests, q \in Specs : Admit(r, q)
  BY <1>3, AdmitBooks
<1>4. CASE \E r \in Requests, tokens \in Generated, time \in GpuTimes : Complete(r, tokens, time)
  <2>1. PICK r \in Requests, tokens \in Generated, time \in GpuTimes : Complete(r, tokens, time)
    BY <1>4
  <2>2. PICK t, new : Gone(r, t, new, tokens, time)
    BY <2>1, CompleteFacts
  <2>3. /\ r \notin DOMAIN usage /\ time \in Nat /\ DOMAIN usage' = DOMAIN usage \cup {r}
        /\ usage'[r] = time /\ \A x \in DOMAIN usage : usage'[x] = usage[x]
    BY <2>1, SchedulerConstants DEF Complete, Put
  <2>4. IsFiniteSet(DOMAIN usage) /\ \A x \in DOMAIN usage : usage[x] \in Nat
    BY DEF IInv, Typed, Books
  <2>5. SumFunction(usage') = SumFunction(usage) + time
    <3>1. PICK f, g : f = usage /\ g = usage'
      OBVIOUS
    <3>2. SumFunction(g) = SumFunction(f) + g[r]
      BY <2>3, <2>4, <3>1, SumPut
    <3> QED
      BY <2>3, <3>1, <3>2
  <2>6. DOMAIN usage' \subseteq Requests /\ \A x \in DOMAIN usage' : usage'[x] \in Nat
    BY <2>3, <2>4 DEF Books
  <2> QED
    BY <2>2, <2>3, <2>5, <2>6, LeaveBooks
<1>5. CASE \E r \in Requests : Cancel(r)
  <2>0. PICK r \in Requests : Cancel(r)
    BY <1>5
  <2>1. PICK t, new : Gone(r, t, new, 0, 0)
    BY <2>0, CancelFacts
  <2>2. usage' = usage
    BY <2>0 DEF Cancel
  <2>3. SumFunction(usage) \in Nat
    BY SumType DEF IInv, Typed, Books, SumFunction
  <2>4. SumFunction(usage)' = SumFunction(usage) + 0
    BY <2>2, <2>3
  <2> QED
    BY <2>1, <2>2, <2>4, LeaveBooks DEF Books
<1>6. CASE \E w \in Workers : OpenCircuit(w) \/ RecoverCircuit(w) \/ DrainWorker(w)
  BY <1>6, OthersBooks DEF OpenCircuit, RecoverCircuit, DrainWorker
<1>7. CASE ShutdownAudit
  BY <1>7, OthersBooks DEF ShutdownAudit
<1>8. CASE UNCHANGED vars
  BY <1>8, OthersBooks DEF vars
<1> QED
  BY <1>1, <1>2, <1>3, <1>4, <1>5, <1>6, <1>7, <1>8 DEF Next

LEMMA InitBooks == Init => Books
<1> SUFFICES ASSUME Init PROVE Books
  OBVIOUS
<1>1. DOMAIN tenants = {} /\ DOMAIN requests = {} /\ DOMAIN usage = {}
  BY DEF Init, Empty
<1>2. SumFunction(usage) = 0
  BY <1>1, SumOfNone DEF SumFunction
<1>3. \A count : Total(count) = 0
  <2> TAKE count
  <2>1. PICK f : f = [t \in DOMAIN tenants |-> tenants[t][count]]
    OBVIOUS
  <2>2. DOMAIN f = {}
    BY <1>1, <2>1
  <2> QED
    BY <2>1, <2>2, SumOfNone DEF Total, SumFunction
<1>4. Waiting(TRUE) = {} /\ Waiting(FALSE) = {}
  BY <1>1 DEF Waiting
<1>5. IsFiniteSet({}) /\ Cardinality({}) = 0 /\ 0 <= Limit.active /\ 0 <= Limit.queued
  BY FS_EmptySet, Limited
<1> QED
  BY <1>1, <1>2, <1>3, <1>4, <1>5 DEF Books

LEMMA Invariants == Spec => [](IInv /\ Placed /\ Books)
  BY InitSound, NextSound, InitPlaces, NextPlaces, InitBooks, NextBooks, PTL DEF Spec

LEMMA CountsHold == IInv /\ Placed /\ Books => AdmissionSound
<1> SUFFICES ASSUME IInv, Placed, Books PROVE TypeOK /\ BooksBalance /\ WithinLimits
  BY DEF AdmissionSound
<1>1. TypeOK
  BY DEF TypeOK, IInv, Typed, Placed, Books, TenantStates
<1>2. BooksBalance
  BY DEF BooksBalance, IInv, Books
<1>3. WithinLimits
  <2>1. \A r \in DOMAIN requests : requests[r].queued \in BOOLEAN
    BY DEF IInv, Typed
  <2>2. /\ {r \in DOMAIN requests : ~requests[r].queued} = Waiting(FALSE)
        /\ {r \in DOMAIN requests : requests[r].queued} = Waiting(TRUE)
    BY <2>1 DEF Waiting
  <2> QED
    BY <2>2, Limits DEF WithinLimits, Books
<1> QED
  BY <1>1, <1>2, <1>3

\* The books of the scheduler balance: for any tenants, workers, policies and order of
\* the calls, also with request ids used again, the counts that admission is decided
\* on are the numbers of requests that run and wait, these are within the limits of
\* each tenant and of the cluster, every request taken is running, waiting, completed
\* once or cancelled, and the GPU time charged is the GPU time on record.
THEOREM AdmissionCounts == Spec => []AdmissionSound
  BY Invariants, CountsHold, PTL

---------------------------------------------------------------------------
(* The release gates: ReleaseGates, for any policy, limits and samples. *)

References == [pages : Nat, snapshots : Nat, leases : Nat, requests : Nat]

Faults == SUBSET UNION {event.faults : event \in Events}
Rc1States == [requests : Nat, slow : Nat, stalled : Nat, faults : Faults,
              memory : {"none", "within", "beyond"}, refs : Nat, sample : References]
Series == SUBSET {<<m.trace, m.error>> : m \in Measurements}
QualStates == [samples : Nat, slow : Nat, stalled : Nat, errors : Nat, series : Series,
               redacted : BOOLEAN, bounded : BOOLEAN, refs : References]

\* No more samples are above a limit than there are samples.
Rc1Inv ==
  /\ rc1 \in Rc1States
  /\ rc1.slow <= rc1.requests /\ rc1.stalled <= rc1.requests
  /\ rc1.refs = Gates!Sum(rc1.sample) % RefLimit

\* Every decode a verdict should not miss has been counted among the stalled ones.
QualInv ==
  /\ qual \in QualStates
  /\ qual.slow <= qual.samples /\ qual.stalled <= qual.samples /\ qual.errors <= qual.samples
  /\ over \in Nat /\ over <= qual.stalled
  /\ qual.bounded => Gates!Cardinality(qual.series) <= MaxSeries

\* What the percentile admits is at most one sample in twenty.
LEMMA OneInTwenty ==
  ASSUME NEW count \in Nat, NEW above \in Nat, above <= count, Gates!WithinP95(count, above)
  PROVE  20 * above <= count
<1>1. count = 0 \/ (95 * count + 99) \div 100 - 1 < count - above
  BY DEF Gates!WithinP95, Gates!Percentile95
<1> QED
  BY <1>1

LEMMA BitIs == \A b \in BOOLEAN : Gates!Bit(b) \in {0, 1} /\ (Gates!Bit(b) = 1 <=> b)
  BY DEF Gates!Bit

LEMMA ReferencesTyped ==
  /\ ReferenceSamples \subseteq References /\ Gates!NoReferences \in References
  /\ Gates!Sum(Gates!NoReferences) = 0 /\ \A refs \in References : Gates!Sum(refs) \in Nat
  BY GateConstants DEF References, Gates!NoReferences, Gates!Sum

LEMMA Rests == ASSUME NEW x \in Nat PROVE x % RefLimit \in Nat /\ (x < RefLimit => x % RefLimit = x)
<1>1. RefLimit \in Nat /\ RefLimit > 0
  BY GateConstants
<1>2. PICK q, r : q = x \div RefLimit /\ r = x % RefLimit
  OBVIOUS
<1>3. q \in Int /\ r \in 0 .. RefLimit - 1 /\ x = RefLimit * q + r
  BY <1>1, <1>2
<1>4. ASSUME x < RefLimit PROVE q = 0
<2>1. q >= 1 => RefLimit * q >= RefLimit
  BY <1>1, <1>3
<2>2. q <= -1 => RefLimit * q <= -RefLimit
  BY <1>1, <1>3
<2> QED
  BY <1>1, <1>3, <1>4, <2>1, <2>2
<1> QED
  BY <1>1, <1>2, <1>3, <1>4

\* Rounding the time to a token down hides nothing that reaches the next unit.
LEMMA NothingHidden ==
  ASSUME NEW decode \in Nat, NEW tokens \in Nat, NEW limit \in Nat,
         decode >= (limit + 1) * tokens, tokens > 0
  PROVE  Gates!PerToken(decode, tokens) > limit
<1> DEFINE time == decode \div tokens
<1>1. time \in Nat /\ decode < tokens * (time + 1)
  OBVIOUS
<1>2. tokens * (limit + 1) < tokens * (time + 1)
  BY <1>1
<1>3. limit + 1 < time + 1
  BY <1>1, <1>2
<1> QED
  BY <1>1, <1>3 DEF Gates!PerToken

\* The three reports a harness makes to the RC1 gate.
LEMMA Rc1Step ==
  ASSUME Rc1Inv, Gates!Rc1Next
  PROVE  Rc1Inv' /\ UNCHANGED <<qual, over>>
<1>1. ASSUME NEW event \in Events, Gates!RecordRequest(event)
      PROVE  Rc1Inv' /\ UNCHANGED <<qual, over>>
<2>1. PICK a, b \in {0, 1} : a = Gates!Bit(event.slow) /\ b = Gates!Bit(event.stalled)
  BY BitIs, GateConstants
<2>2. /\ rc1' = [rc1 EXCEPT !.requests = @ + 1, !.slow = @ + a, !.stalled = @ + b, !.faults = @ \cup event.faults]
      /\ UNCHANGED <<qual, over>>
  BY <1>1, <2>1 DEF Gates!RecordRequest
<2>3. rc1.faults \cup event.faults \in Faults
  BY DEF Rc1Inv, Rc1States, Faults
<2>4. rc1 \in Rc1States
  BY DEF Rc1Inv
<2>5. rc1' = [requests |-> rc1.requests + 1, slow |-> rc1.slow + a, stalled |-> rc1.stalled + b,
              faults |-> rc1.faults \cup event.faults, memory |-> rc1.memory, refs |-> rc1.refs, sample |-> rc1.sample]
  BY ONLY <2>2, <2>3, <2>4 DEF Rc1States
<2>6. rc1' \in Rc1States
  BY <2>3, <2>4, <2>5 DEF Rc1States
<2>7. /\ rc1'.slow = rc1.slow + a /\ rc1'.stalled = rc1.stalled + b /\ rc1'.requests = rc1.requests + 1
      /\ rc1'.refs = rc1.refs /\ rc1'.sample = rc1.sample
  BY <2>5
<2> QED
  BY <2>2, <2>4, <2>6, <2>7 DEF Rc1Inv, Rc1States
<1>2. ASSUME NEW accounted \in BOOLEAN, Gates!RecordMemory(accounted)
      PROVE  Rc1Inv' /\ UNCHANGED <<qual, over>>
  BY <1>2 DEF Gates!RecordMemory, Rc1Inv, Rc1States
<1>3. ASSUME NEW refs \in ReferenceSamples, Gates!RecordReferences(refs)
      PROVE  Rc1Inv' /\ UNCHANGED <<qual, over>>
<2> DEFINE sum == Gates!Sum(refs) % RefLimit
<2>1. refs \in References /\ Gates!Sum(refs) \in Nat
  BY ReferencesTyped
<2>2. sum \in Nat
  BY <2>1, Rests
<2>3. rc1' = [rc1 EXCEPT !.refs = sum, !.sample = refs] /\ UNCHANGED <<qual, over>>
  BY <1>3 DEF Gates!RecordReferences
<2> HIDE DEF sum
<2>4. /\ rc1' \in Rc1States
      /\ rc1'.refs = sum /\ rc1'.sample = refs
      /\ rc1'.slow = rc1.slow /\ rc1'.stalled = rc1.stalled /\ rc1'.requests = rc1.requests
  BY <2>1, <2>2, <2>3 DEF Rc1Inv, Rc1States
<2> QED
  BY <2>3, <2>4 DEF Rc1Inv, sum
<1> QED
  BY <1>1, <1>2, <1>3 DEF Gates!Rc1Next

LEMMA RecordSound ==
  ASSUME QualInv, NEW x \in Measurements, Gates!Record(x)
  PROVE  QualInv' /\ UNCHANGED rc1
<1> DEFINE all     == qual.series \cup {<<x.trace, x.error>>}
           late    == Gates!PerToken(x.decode, x.tokens) > TokenLimit
           missed  == x.decode >= (TokenLimit + 1) * x.tokens /\ x.tokens > 0
           within  == Gates!Cardinality(all) <= MaxSeries
<1>1. PICK a, b, c, m \in {0, 1} : /\ a = Gates!Bit(x.slow) /\ b = Gates!Bit(x.error # "none")
                                   /\ c = Gates!Bit(late) /\ m = Gates!Bit(missed)
  BY DEF Gates!Bit
<1>2. missed => late
  BY NothingHidden, GateConstants
<1>3. m <= c
  BY <1>1, <1>2 DEF Gates!Bit
<1>4. PICK kept, clean \in BOOLEAN : kept = (qual.bounded /\ within) /\ clean = (qual.redacted /\ ~x.content)
  OBVIOUS
<1>5. /\ qual' = [qual EXCEPT !.samples = @ + 1, !.slow = @ + a, !.errors = @ + b, !.series = all,
                              !.stalled = @ + c, !.bounded = kept, !.redacted = clean]
      /\ over' = over + m /\ UNCHANGED rc1
  BY <1>1, <1>4 DEF Gates!Record
<1>6. all \in Series
  BY DEF QualInv, QualStates, Series
<1> HIDE DEF late, missed, within, all
<1>7. qual \in QualStates
  BY DEF QualInv
<1>8. qual' = [samples |-> qual.samples + 1, slow |-> qual.slow + a, stalled |-> qual.stalled + c,
                errors |-> qual.errors + b, series |-> all, redacted |-> clean, bounded |-> kept, refs |-> qual.refs]
  BY ONLY <1>5, <1>6, <1>7 DEF QualStates
<1>9. /\ qual' \in QualStates
      /\ qual'.samples = qual.samples + 1 /\ qual'.slow = qual.slow + a
      /\ qual'.errors = qual.errors + b /\ qual'.stalled = qual.stalled + c
      /\ qual'.series = all /\ qual'.bounded = kept
  BY <1>6, <1>7, <1>8 DEF QualStates
<1>10. /\ qual'.slow <= qual'.samples /\ qual'.stalled <= qual'.samples /\ qual'.errors <= qual'.samples
      /\ over' \in Nat /\ over' <= qual'.stalled
  BY <1>3, <1>5, <1>9 DEF QualInv, QualStates
<1>11. qual'.bounded => Gates!Cardinality(qual'.series) <= MaxSeries
  BY <1>4, <1>9 DEF within
<1> QED
  BY <1>5, <1>9, <1>10, <1>11 DEF QualInv

LEMMA QualificationStep ==
  ASSUME QualInv, Gates!QualificationNext
  PROVE  QualInv' /\ UNCHANGED rc1
<1>1. ASSUME NEW refs \in ReferenceSamples, Gates!SetReferenceState(refs) PROVE QualInv' /\ UNCHANGED rc1
  BY <1>1, ReferencesTyped DEF Gates!SetReferenceState, QualInv, QualStates
<1> QED
  BY <1>1, RecordSound DEF Gates!QualificationNext

\* A sum of references that does not wrap is zero for no references only.
LEMMA NoneLeft ==
  ASSUME Rc1Inv, rc1.refs = 0
  PROVE  rc1.sample = Gates!NoReferences \/ Gates!Sum(rc1.sample) >= RefLimit
<1>1. rc1.sample \in References /\ Gates!Sum(rc1.sample) \in Nat /\ RefLimit \in Nat
  BY ReferencesTyped, GateConstants DEF Rc1Inv, Rc1States
<1>2. CASE Gates!Sum(rc1.sample) < RefLimit
<2>1. Gates!Sum(rc1.sample) = 0
  BY <1>1, <1>2, Rests DEF Rc1Inv
<2>2. rc1.sample.pages = 0 /\ rc1.sample.snapshots = 0 /\ rc1.sample.leases = 0 /\ rc1.sample.requests = 0
<3>1. PICK a, b, c, d \in Nat : /\ a = rc1.sample.pages /\ b = rc1.sample.snapshots
                               /\ c = rc1.sample.leases /\ d = rc1.sample.requests
  BY <1>1 DEF References
<3>2. a + b + c + d = 0
  BY <2>1, <3>1 DEF Gates!Sum
<3>3. a = 0 /\ b = 0 /\ c = 0 /\ d = 0
  BY ONLY <3>2, a \in Nat, b \in Nat, c \in Nat, d \in Nat
<3> QED
  BY <3>1, <3>3
<2> QED
  BY <1>1, <2>2 DEF References, Gates!NoReferences
<1> QED
  BY <1>1, <1>2

LEMMA Verdicts == Rc1Inv /\ QualInv => Gates!VerdictsSound
<1> SUFFICES ASSUME Rc1Inv, QualInv PROVE Gates!VerdictsSound
  OBVIOUS
<1>1. ASSUME Gates!Decision = "PASS"
      PROVE  /\ rc1.requests > 0 /\ 20 * rc1.slow <= rc1.requests /\ 20 * rc1.stalled <= rc1.requests
             /\ rc1.faults = {} /\ rc1.memory = "within"
             /\ rc1.sample = Gates!NoReferences \/ Gates!Sum(rc1.sample) >= RefLimit
<2>1. /\ rc1.requests # 0 /\ rc1.faults = {} /\ rc1.refs = 0 /\ rc1.memory = "within"
      /\ Gates!WithinP95(rc1.requests, rc1.slow) /\ Gates!WithinP95(rc1.requests, rc1.stalled)
  BY <1>1 DEF Gates!Decision
<2>2. rc1.requests \in Nat /\ rc1.slow \in Nat /\ rc1.stalled \in Nat
  BY DEF Rc1Inv, Rc1States
<2>3. 20 * rc1.slow <= rc1.requests /\ 20 * rc1.stalled <= rc1.requests
  BY <2>1, <2>2, OneInTwenty DEF Rc1Inv
<2> QED
  BY <2>1, <2>2, <2>3, NoneLeft
<1>2. ASSUME Gates!Passed
      PROVE  /\ 20 * qual.slow <= qual.samples /\ 20 * over <= qual.samples
             /\ 100 * qual.errors <= (100 - Availability) * qual.samples
             /\ Gates!Cardinality(qual.series) <= MaxSeries
<2>1. /\ qual.samples \in Nat /\ qual.slow \in Nat /\ qual.stalled \in Nat /\ qual.errors \in Nat /\ over \in Nat
      /\ qual.slow <= qual.samples /\ qual.stalled <= qual.samples /\ qual.errors <= qual.samples
      /\ over <= qual.stalled /\ Availability \in Nat
  BY GateConstants DEF QualInv, QualStates
<2>2. 20 * qual.slow <= qual.samples /\ 20 * qual.stalled <= qual.samples
  BY <1>2, <2>1, OneInTwenty DEF Gates!Passed
<2>3. 100 * qual.errors <= (100 - Availability) * qual.samples
<3>1. CASE qual.samples = 0
  BY <2>1, <3>1
<3>2. CASE qual.samples # 0
<4>1. 100 * (qual.samples - qual.errors) >= Availability * qual.samples
  BY <1>2, <3>2 DEF Gates!Passed
<4> QED
  BY <2>1, <4>1
<3> QED
  BY <3>1, <3>2
<2>4. Gates!Cardinality(qual.series) <= MaxSeries
  BY <1>2 DEF Gates!Passed, QualInv
<2> QED
  BY <2>1, <2>2, <2>3, <2>4
<1> QED
  BY <1>1, <1>2 DEF Gates!VerdictsSound

LEMMA GatesOpen == Gates!GateInit => Rc1Inv /\ QualInv
<1> SUFFICES ASSUME Gates!GateInit PROVE Rc1Inv /\ QualInv
  OBVIOUS
<1>1. Rc1Inv
<2>1. 0 % RefLimit = 0
  BY GateConstants, Rests
<2> QED
  BY <2>1, ReferencesTyped DEF Gates!GateInit, Rc1Inv, Rc1States, Faults
<1>2. Gates!Cardinality({}) = 0
  BY FS_EmptySet DEF Gates!Cardinality, Cardinality
<1>3. QualInv
  BY <1>2, GateConstants, ReferencesTyped DEF Gates!GateInit, QualInv, QualStates, Series
<1> QED
  BY <1>1, <1>3

\* A verdict that opens a release is sound, for any policy, limits, samples and order of
\* the reports: at most one sample in twenty is above a latency limit, errors and series
\* are within the policy, and no fault, memory or reference is left, but for a sum of
\* references that wraps.
THEOREM VerdictsHold == ControlSpec => []VerdictsSound
<1>1. ControlInit => Rc1Inv /\ QualInv
  BY GatesOpen DEF ControlInit
<1>2. Rc1Inv /\ QualInv /\ [ControlNext]_<<control, vars, gateVars>> => Rc1Inv' /\ QualInv'
<2> SUFFICES ASSUME Rc1Inv, QualInv, [ControlNext]_<<control, vars, gateVars>>
             PROVE  Rc1Inv' /\ QualInv'
  OBVIOUS
<2>1. CASE Gates!Rc1Next
  BY <2>1, Rc1Step DEF QualInv
<2>2. CASE Gates!QualificationNext
  BY <2>2, QualificationStep DEF Rc1Inv
<2>3. CASE UNCHANGED gateVars
  BY <2>3 DEF gateVars, Rc1Inv, QualInv
<2> QED
  BY <2>1, <2>2, <2>3 DEF ControlNext
<1>3. Rc1Inv /\ QualInv => VerdictsSound
  BY Verdicts DEF VerdictsSound
<1> QED
  BY <1>1, <1>2, <1>3, PTL DEF ControlSpec
=============================================================================
