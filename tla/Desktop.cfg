SPECIFICATION DesktopSpec
CONSTANTS
  t1 = t1
  t2 = t2
  GuiThreads = {t1, t2}
  SwitchesInCallbacks = FALSE
  HasInput = TRUE
  Styles <- MCStyles
  HostEvents <- MCEvents
  HitRounds = 8
  MaxWindow = 2
  MaxEvent = 1
  MaxDepth = 2
  MaxQueue = 1
  MaxCalls = 3
  FirstSlot = 1
  TableSlots = 4
  Surfaces = {1}
  Colours = {1, 2}
  SysColours = {1}
  MaxMade = 3
  Panes = {1, 2, 3}
  Strokes <- MCStrokes
  BitmapWidth = 2
  MaxDcs = 2
  MaxPaints = 2
INVARIANTS PaintIsShown ClicksLand SlotsConserved
PROPERTIES HandleReachesItsCaller DialogsCloseFirst PaintStaysInside
CHECK_DEADLOCK FALSE
