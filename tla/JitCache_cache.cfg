CONSTANTS
  Parts = {"cache", "flags", "faults"}
  Bits = 4
  Half = 2
  AfBit = 1
  DeferScan = 2
  Programs <- MCPrograms
  Inputs <- MCInputs
  Forms <- Exact
  UnsavedUse = {}
  MAX_EXC_DEPTH = 2
  MAX_IDENTICAL_DELIVERIES = 2
  MAX_CHAIN_DELIVERIES = 3
  MaxContexts = 2
  Text <- MCText
  Armable = {1, 2}
  Words = {11}
  BloomBits <- MCBloom
  BlockMax = 2
  BudgetMax = 3
  StaleLoads = FALSE
  MaxArms = 2
  MaxActive = 2
  MaxList = 2
  Unbalanced <- MCUnbalanced
  NumPages = 2
  PageSize = 1
  RegionOf <- OneRegion
  Insns <- AllInsns
  Zero <- Plain
  Modes = {"long", "prot"}
  MaxInsns = 2
  Capacity = 3
  LinkBlocks = 2
  EpochDead = 3
  GenWrap = 3
  NumLines = 2
  PageBit <- Identity
  MaxBudget = 3
  MaxGen = 1
  MaxLayout = 0
  Values <- PlainOrOther
  Widths = {1, 2}
  NativeStores = {0, 1}
  HostStores = {1}
  Protections = {}
  Remappable = {}
  Targets = {0, 1}
  Handlers = {0}
  Debugging = TRUE
  InitRams <- CacheRams
SPECIFICATION ProcessorSpec
INVARIANTS
  LeftAsInterpreted
  RestartIsExact
  LinksLive
  BudgetCeiling
  CacheCoherent
PROPERTIES
  EntersFresh
