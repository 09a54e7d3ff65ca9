SPECIFICATION FleetSpec
CONSTANTS
  Seqs = {s1, s2}
  Threads = {w1, w2}
  MaxLives = 2
  MaxTail = 1
  MaxSnaps = 2
  MaxFaults = 1
  Pages = {p1}
  Nodes = {w1, w2}
  Duration = 2
  MaxTime = 5
  MaxGen = 4
  Devices <- ThreeDevices
  Group <- Groups
  LayerCount = 5
  TensorParallelSize = 2
  SeqIds = {0}
  MaxGeneration = 3
  MaxBatches = 1
  Items <- SomeItems
  MaxItems = 2
  Gpus = {0, 1}
  Shards <- SomeShards
  MaxShards = 2
  PageSources <- TwoSources
  FailingCalls <- AnyCall
  MaxCalls = 2
PROPERTY BatchValidatedFirst
CHECK_DEADLOCK FALSE
