---------------------------- MODULE ServerSlots ----------------------------
(***************************************************************************)
(* The llama-server bridge of the host cache: src/integrations/llama.cpp/  *)
(* multisequence/llama_server_multisequence_bridge.cpp.  A slot is mapped  *)
(* to a sequence of the cache; every call holds the bridge mutex and makes *)
(* its cache calls inside, so it is one action.  Of the cache only which   *)
(* sequences exist matters, and by a ghost which object ("life") is under  *)
(* an id.  Partial removal, shift and batch attention change neither and   *)
(* are left out with the reclaim, which finds nothing to do.               *)
(***************************************************************************)
EXTENDS Integers, FiniteSets

CONSTANTS
  SlotIds,  \* slot ids of the server
  Seqs,     \* sequence ids
  MaxLives  \* bound: sequence objects built

VARIABLES
  slots, \* bridge->slots: the sequence of a slot, or None
  cache, \* cache[s]: life of the cache's sequence s, 0 when it has none
  bound, \* bound[k]: life of the sequence when slot k was mapped to it
  lives, \* sequence objects built so far
  loose  \* slots whose sequence a call that was not their own has replaced or removed

slotVars == <<slots, cache, bound, lives, loose>>

None == "none"
Mapped == {k \in SlotIds : slots[k] # None}
Exists(s) == cache[s] # 0
Namers(s) == {k \in Mapped : slots[k] = s}

\* Slots that were given the sequence object now under s.
Owners(s) == {k \in Namers(s) : bound[k] = cache[s]}

SlotsInit ==
  /\ slots = [k \in SlotIds |-> None]
  /\ cache = [s \in Seqs |-> 0]
  /\ bound = [k \in SlotIds |-> 0]
  /\ lives = 0 /\ loose = {}

\* cf_llama_server_slot_create
SlotCreate(k, s) ==
  /\ slots[k] = None /\ ~Exists(s) /\ lives < MaxLives
  /\ slots' = [slots EXCEPT ![k] = s]
  /\ cache' = [cache EXCEPT ![s] = lives + 1]
  /\ bound' = [bound EXCEPT ![k] = lives + 1]
  /\ lives' = lives + 1 /\ UNCHANGED loose

ResetKeepsSlot(k) ==
  /\ k \in Mapped /\ Exists(slots[k])
  /\ cache' = [cache EXCEPT ![slots[k]] = 0]
  /\ UNCHANGED <<lives, slots, bound, loose>>

\* cf_llama_server_slot_reset_async: fails when the sequence has gone, and takes
\* the sequence from every other slot that names it.
SlotReset(k) ==
  /\ k \in Mapped /\ Exists(slots[k])
  /\ cache' = [cache EXCEPT ![slots[k]] = 0]
  /\ slots' = [slots EXCEPT ![k] = None]
  /\ bound' = [bound EXCEPT ![k] = 0]
  /\ loose' = (loose \cup Namers(slots[k])) \ {k}
  /\ UNCHANGED lives

\* cf_llama_server_sequence_copy_async
SequenceCopy(a, d) ==
  /\ Exists(a) /\ a # d /\ lives < MaxLives
  /\ cache' = [cache EXCEPT ![d] = lives + 1]
  /\ lives' = lives + 1
  /\ loose' = loose \cup Namers(d)
  /\ UNCHANGED <<slots, bound>>

\* cf_llama_server_sequence_remove_async with both positions negative
SequenceRemove(s) ==
  /\ Exists(s)
  /\ cache' = [cache EXCEPT ![s] = 0]
  /\ loose' = loose \cup Namers(s)
  /\ UNCHANGED <<slots, bound, lives>>

\* cf_llama_server_cancel_sequence_async: unmaps every slot of s, then removes
\* s, whether or not the cache still has it.
CancelSequence(s) ==
  /\ slots' = [k \in SlotIds |-> IF slots[k] = s THEN None ELSE slots[k]]
  /\ bound' = [k \in SlotIds |-> IF slots[k] = s THEN 0 ELSE bound[k]]
  /\ cache' = [cache EXCEPT ![s] = 0]
  /\ loose' = loose \ Namers(s)
  /\ UNCHANGED lives

SlotsNext ==
  \/ \E k \in SlotIds, s \in Seqs : SlotCreate(k, s)
  \/ \E k \in SlotIds : SlotReset(k)
  \/ \E a, d \in Seqs : SequenceCopy(a, d)
  \/ \E s \in Seqs : SequenceRemove(s)
  \/ \E s \in Seqs : CancelSequence(s)

---------------------------------------------------------------------------
(* Properties. *)

TypeOK ==
  /\ slots \in [SlotIds -> Seqs \cup {None}] /\ cache \in [Seqs -> 0 .. MaxLives]
  /\ bound \in [SlotIds -> 0 .. MaxLives] /\ lives \in 0 .. MaxLives /\ loose \subseteq Mapped
  /\ \A k \in SlotIds : k \in Mapped <=> bound[k] # 0

\* A slot from which no other call has taken its sequence owns the sequence under
\* its id, and is alone in owning it: its reset removes nobody else's.
SlotsOwn == \A k \in Mapped \ loose : Owners(slots[k]) = {k}

\* No two slots are ever given the same sequence object, whatever is copied,
\* removed and created again under the id of an old slot.
OneOwner == \A s \in Seqs : Cardinality(Owners(s)) <= 1

\* Slots own their sequences until a copy, a plain removal or the reset of another
\* slot on the same id takes them away.  The slot then stays mapped to the id, and
\* its own reset may remove what was created there since: the code does that.
MappingSound == TypeOK /\ SlotsOwn /\ OneOwner
=============================================================================
