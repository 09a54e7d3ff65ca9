SPECIFICATION Spec
CONSTANTS
  s1 = s1
  s2 = s2
  w1 = w1
  w2 = w2
  Seqs <- TwoSeqs
  Layers <- OneLayer
  Workers <- TwoWorkers
  MaxPages = 2
  MaxSnaps = 2
  MaxBatch = 2
  MaxStream = 3
  MaxInc = 1
  MaxTokens = 2
  MaxFaults = 0
  MinCapacity = 1
  PageSize = 1
  Calls <- Serving
SYMMETRY BothSymmetry
INVARIANTS TypeOK AuditPasses KernelPagesKept TableCurrent NothingLeaks
PROPERTY ReclaimSettles
