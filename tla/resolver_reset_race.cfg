SPECIFICATION Spec
CONSTANTS
  s1 = s1
  s2 = s2
  w1 = w1
  w2 = w2
  Seqs <- TwoSeqs
  Layers <- OneLayer
  Workers <- OneWorker
  MaxPages = 1
  MaxSnaps = 1
  MaxBatch = 1
  MaxStream = 2
  MaxInc = 1
  MaxTokens = 2
  MaxFaults = 0
  MinCapacity = 2
  PageSize = 1
  Calls <- Resetting
INVARIANT HeldStorageAllocated
