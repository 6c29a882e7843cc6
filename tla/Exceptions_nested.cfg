SPECIFICATION ExcSpec
CONSTANTS
  MaxFrames = 5
  MaxRaises = 2
  HandlersRaise = TRUE
INVARIANTS DispatchIsKept
CHECK_DEADLOCK FALSE
