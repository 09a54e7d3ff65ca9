----------------------------- MODULE CacheBridge -----------------------------
(* The host cache and the slot map of the llama-server bridge over it.  Slots  *)
(* see of the cache which sequences there are, and the cache nothing of slots, *)
(* so a behaviour is of one of the two.                                        *)
EXTENDS MultisequenceCache

CONSTANTS SlotIds, SlotSeqs, MaxLives

VARIABLES bridge, slots, cache, bound, lives, loose

Server == INSTANCE ServerSlots WITH Seqs <- SlotSeqs

ASSUME SlotConstants == MaxLives \in Nat /\ Server!None \notin SlotSeqs

slotVars == <<slots, cache, bound, lives, loose>>
cacheVars == <<present, tail, topo, spec, global, nextSpec, ok, born, opened>>

NoSlots == slots = <<>> /\ cache = <<>> /\ bound = <<>> /\ lives = 0 /\ loose = {}

CallsInit ==
  /\ Init
  /\ \/ bridge = FALSE /\ NoSlots
     \/ bridge = TRUE /\ Server!SlotsInit

CallsNext ==
  \/ ~bridge /\ Next /\ UNCHANGED <<bridge, slotVars>>
  \/ bridge /\ Server!SlotsNext /\ UNCHANGED <<bridge, cacheVars>>

CallsSpec == CallsInit /\ [][CallsNext]_<<bridge, cacheVars, slotVars>>

-----------------------------------------------------------------------------

\* ServerSlots' MappingSound: a slot owns its sequence alone until a call that is
\* not its own takes it away, and no two slots own one.
MappingSound == bridge => Server!MappingSound
=============================================================================
