CONSTANTS
  MaxThreads = 3
  MaxHandles = 2
  TIMESLICE = 2
  MaxSuspend = 1
  GuestOps = {"exit", "terminate", "suspend", "sleep", "close"}
  Kinds = {}
  Timeouts = {"infinite"}
  Apis = {"win32", "server"}
  Names = {}
  Releases = {1}
  SemaphoreArgs <- SemArgs
  MaxCount = 1
  MaxHold = 1
  MaxWait = 2
  n1 = n1
SPECIFICATION FairSpec
INVARIANTS
  TypeOK
  JoinWakes
PROPERTIES
  TerminatedIsFinal
  WokenIsSatisfied
  ReadyRuns
