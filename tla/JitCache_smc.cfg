CONSTANTS
  Parts = {"cache", "debug", "calls"}
  Bits = 4
  Half = 2
  AfBit = 1
  DeferScan = 2
  Programs <- MCPrograms
  Inputs <- MCInputs
  Forms <- Exact
  UnsavedUse = {}
  MAX_EXC_DEPTH = 2
  MAX_IDENTICAL_DELIVERIES = 2
  MAX_CHAIN_DELIVERIES = 3
  MaxContexts = 2
  Text <- MCText
  Armable = {1, 2}
  Words = {11}
  BloomBits <- MCBloom
  BlockMax = 2
  BudgetMax = 3
  StaleLoads = FALSE
  MaxArms = 2
  MaxActive = 2
  MaxList = 2
  Unbalanced <- MCUnbalanced
  NumPages = 3
  PageSize = 2
  RegionOf <- WithData
  Insns <- AllInsns
  Zero <- Plain
  Modes = {"long"}
  MaxInsns = 2
  Capacity = 4
  LinkBlocks = 2
  EpochDead = 3
  GenWrap = 3
  NumLines = 2
  PageBit <- Colliding
  MaxBudget = 4
  MaxGen = 1
  MaxLayout = 2
  Values <- PlainOrOther
  Widths = {1}
  NativeStores = {0, 2, 4}
  HostStores = {0}
  Protections = {{"R", "W"}, {"R", "W", "X"}}
  Remappable = {"data"}
  Targets = {2}
  Handlers = {3}
  Debugging = FALSE
  InitRams <- SmcRams
SPECIFICATION ProcessorSpec
INVARIANTS
  
  
  TlbIsCurrent
PROPERTIES
  RunsAsInterpreted
