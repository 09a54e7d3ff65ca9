SPECIFICATION Spec
CONSTANTS
  s1 = s1
  s2 = s2
  w1 = w1
  w2 = w2
  Seqs <- TwoSeqs
  Layers <- OneLayer
  Workers <- OneWorker
  MaxPages = 1
  MaxSnaps = 2
  MaxBatch = 2
  MaxStream = 3
  MaxInc = 1
  MaxTokens = 2
  MaxFaults = 1
  MinCapacity = 2
  PageSize = 1
  Calls <- Faulting
SYMMETRY SeqSymmetry
INVARIANTS LogicalRefsCover InFlightExact SnapshotPagesKept
PROPERTIES ImplementsSharing OnlyOwnersFree
