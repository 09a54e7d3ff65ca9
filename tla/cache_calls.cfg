SPECIFICATION CallsSpec
CONSTANTS
  Seqs = {s1, s2}
  SlotIds = {k1, k2, k3}
  SlotSeqs = {q1, q2, q3}
  MaxLives = 6
  NLayers = 2
  PageSize = 2
  MaxGen = 6
  MaxSpecs = 1
  MaxPos = 3
  Deltas <- UnitShifts
INVARIANTS CacheSound MappingSound
PROPERTIES StepsKeepTokens RollbackRestoresLength
SYMMETRY SeqSymmetry
CHECK_DEADLOCK FALSE
