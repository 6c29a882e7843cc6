CONSTANTS
  MaxThreads = 2
  MaxHandles = 3
  TIMESLICE = 2
  MaxSuspend = 1
  GuestOps = {"create", "close", "dup"}
  Kinds = {"Mutex", "Semaphore"}
  Timeouts = {"poll", "finite", "infinite"}
  Apis = {"nt", "afd"}
  Names = {n1}
  Releases = {1, 2}
  SemaphoreArgs <- SemArgs
  MaxCount = 2
  MaxHold = 2
  MaxWait = 2
  n1 = n1
SPECIFICATION Spec
INVARIANTS
  MutexAsGranted
  SignalsConserved
