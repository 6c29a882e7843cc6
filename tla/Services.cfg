SPECIFICATION ServicesSpec
CONSTANTS
  Gran = 2
  LowCeiling = 7
  ArenaBase = 8
  MaxPage = 12
  MaxBlocks = 4
  MaxEnded = 1
  TwiceEnded = FALSE
  FreesViews = FALSE
  Sizes = {1, 2}
  Asked = {5}
  Prots <- MCProts
  ImageRegions <- MCImage
  MAX_SPAWN_DEPTH = 1
  ExitCodes = {"code"}
  MaxChildren = 2
  MaxObjects = 4
  Subkeys <- MCSubs
  ValueNames <- MCNames
  Datas = {1, 2}
  Handle = {1}
  MaxPath = 3
  MaxKeys = 2
  MaxValues = 2
  MaxFrames = 5
  MaxRaises = 2
  HandlersRaise = FALSE
  Slice = 4
  Refresh = 3
  MaxSteps = 10
  MaxDepth = 2
  Threads = {1, 2}
  Breaks = {2, 7}
  ChainMax = 5
  Window = 1
  MaxStreams = 2
  MaxBuffer = 2
  MaxStaged = 2
  HostFrames = 1
  MaxSent = 3
  MaxSockets = 2
  MaxConns = 2
  MaxBytes = 1
  Paths <- MCPaths
  MaxFiles = 2
  MaxSize = 1
  MaxOpen = 1
  UnwindPrograms <- MCUnwindPrograms
  StackSlots = 34
  MaxInterrupts = 1
  DllNames = {"a", "b", "c"}
  Imports <- MCImports
  Arena = 4
  Guests = {1, 2}
  MainGuest = 1
  MaxRefs = 2
  LoadsAfterFree = FALSE
INVARIANTS BooksAgree QueryTiles ExitIsTold StopsExactly PlaysTheTail AcceptedInOrder ReadyMeansNow UnwindFindsCallers 
PROPERTIES ProtectKeepsToRange RegistryKeepsPromise CleanupsRun RunsInStep CreateIsTrue
CHECK_DEADLOCK FALSE
