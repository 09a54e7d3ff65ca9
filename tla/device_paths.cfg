SPECIFICATION PathsSpec
CONSTANTS
  T = 4
  S = 2
  K = 2
  CB = 3
  W = 6
  SB = 2
  DeltaSpan = 16
  KeySpan = 100
  SaSample = 3
  Vocab = 3
  TextLengths = {1, 19}
  MaxPattern = 2
  PagedHeads = 2
  GroupSize = 2
  TokenMax = 5
  Capacity = 2
  MaxViews = 3
  MaxScore = 5
  Unit = 1778
  Grain = 889
  Count = 3
  Multiples <- SomeMultiples
  Configs <- SomeConfigs
  MaxOps = 3
  WordBits = 8
  Widths = {2, 4}
  Tokens = 2
  Dim = 3
  Values <- SomeValues
  BlockSizes = {1, 2, 4}
  CodeBook <- Codes
  Freq <- Frequencies
  L = 16
  Radix = 4
  MaxSymbols = 4
  Layers = {l1, l2}
  PageSize = 2
  FirstCapacity = 1
  MaxPages = 2
  MaxFaults = 1
  Begins = {0, 1}
  KvHeads = 2
  HeadDim = 2
  Strides = {2, 4, 5, 12}
  Lengths = {1, 2}
  Word = 8
  MaxAppends = 3
  NLayers = 2
  NHeads = 2
  MaxBatch = 3
  MaxTokens = 5
  MaxMade = 6
  MaxRejects = 1
  MaxHanded = 3
  MaxUploadFaults = 1
  Succeeding = {0, 1}
SYMMETRY LayerSymmetry
INVARIANTS
  RanksOrderPrefixes
  ReadersAgree
  SearchExact
  LayoutsDisjoint
  AttentionExact
  PageFaithful
  DecodersExact
  StorageSound
  ActivePageExact
  StatsExact
  ClientsInStep
  ServedExact
PROPERTIES
  ImplementsHistory
  AppendRecovers
CHECK_DEADLOCK FALSE
