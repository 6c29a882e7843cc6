CONSTANTS
  MaxThreads = 3
  MaxHandles = 4
  TIMESLICE = 2
  MaxSuspend = 1
  GuestOps = {"create", "exit", "reset"}
  Kinds = {"Mutex", "AutoEvent", "ManualEvent"}
  Timeouts = {"infinite"}
  Apis = {"nt"}
  Names = {}
  Releases = {1}
  SemaphoreArgs <- SemArgs
  MaxCount = 1
  MaxHold = 1
  MaxWait = 1
  n1 = n1
SPECIFICATION FairSpec
INVARIANTS
  DeadlockIsReal
PROPERTIES
  PromiseKept
  SatisfiedWakes
