CONSTANTS
  MaxThreads = 2
  MaxHandles = 3
  TIMESLICE = 2
  MaxSuspend = 1
  GuestOps = {"create"}
  Kinds = {"Mutex"}
  Timeouts = {"infinite"}
  Apis = {"win32"}
  Names = {}
  Releases = {1}
  SemaphoreArgs <- SemArgs
  MaxCount = 1
  MaxHold = 1
  MaxWait = 1
  n1 = n1
SPECIFICATION Spec
PROPERTIES
  PromiseKept
