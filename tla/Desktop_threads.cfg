SPECIFICATION DesktopSpec
CONSTANTS
  t1 = t1
  t2 = t2
  GuiThreads = {t1, t2}
  SwitchesInCallbacks = TRUE
  HasInput = TRUE
  Styles <- MCStyles
  HostEvents <- MCEvents
  HitRounds = 8
  MaxWindow = 2
  MaxEvent = 0
  MaxDepth = 2
  MaxQueue = 1
  MaxCalls = 3
  FirstSlot = 1
  TableSlots = 4
  Surfaces = {1}
  Colours = {1, 2}
  SysColours = {1}
  MaxMade = 1
  Panes = {1, 2, 3}
  Strokes <- MCStrokes
  BitmapWidth = 2
  MaxDcs = 0
  MaxPaints = 0
PROPERTY HandleReachesItsCaller
CHECK_DEADLOCK FALSE
