SPECIFICATION Spec
CONSTANTS
  s1 = s1
  s2 = s2
  w1 = w1
  w2 = w2
  Seqs <- TwoSeqs
  Layers <- TwoLayers
  Workers <- OneWorker
  MaxPages = 2
  MaxSnaps = 1
  MaxBatch = 1
  MaxStream = 1
  MaxInc = 1
  MaxTokens = 3
  MaxFaults = 1
  MinCapacity = 1
  PageSize = 2
  Calls <- Shifting
SYMMETRY SeqSymmetry
INVARIANT NoDanglingReference
