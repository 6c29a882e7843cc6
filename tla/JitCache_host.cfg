CONSTANTS
  NumPages = 2
  PageSize = 2
  RegionOf <- OneRegion
  Insns <- AllInsns
  Zero <- Plain
  Modes = {"long"}
  MaxInsns = 2
  Capacity = 9
  LinkBlocks = 3
  EpochDead = 9
  GenWrap = 9
  NumLines = 2
  PageBit <- Identity
  MaxBudget = 6
  MaxGen = 1
  MaxLayout = 0
  Values <- PlainOrOther
  Widths = {1}
  NativeStores = {}
  HostStores = {0, 1, 2, 3}
  Protections = {}
  Remappable = {}
  Targets = {0, 1, 2, 3}
  Handlers = {0, 1, 2, 3}
  Debugging = FALSE
  InitRams <- LoopRams
SPECIFICATION Spec
INVARIANTS
  NativeIsFresh
