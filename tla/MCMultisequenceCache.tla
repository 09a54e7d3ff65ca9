----------------------- MODULE MCMultisequenceCache -----------------------
(* CacheBridge with two sequences in the cache and three under the slots; ids *)
(* are interchangeable.                                                       *)
EXTENDS CacheBridge, TLC

UnitShifts == {-1, 1}

SeqSymmetry == Permutations(Seqs) \cup Permutations(SlotIds) \cup Permutations(SlotSeqs)
=============================================================================
