CONSTANTS
  Rows = 3
  Delays = {2}
  ActiveLow = TRUE
  MaxLost = 2
  Slots = 2
  MaxPid = 2
  None = None
  Clients = {c1, c2}
  Fingers = {f1}
  MaxTries = 3
  MaxInbox = 2
  MaxUsers = 2
  MaxDepth = 2
  MaxFailed = 1
  MaxBinds = 2
SPECIFICATION MCSpec
CHECK_DEADLOCK FALSE
INVARIANTS RailsBalanced TouchesMatch IrqBalanced ReportsToCurrentHal ToldIsTrue OffIsOff TouchIsTold SetupIsUndone
PROPERTIES CallsReturn ComesBack
