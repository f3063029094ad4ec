CONSTANTS
  PulseCount = 5
  RetryMax = 3
  Worlds <- IdealWorlds
SPECIFICATION Spec
INVARIANT SettledAgrees
CHECK_DEADLOCK FALSE
