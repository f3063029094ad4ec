CONSTANTS
  Users = {u1, u2}
  Wrap = 16
  Low <- Lows
  High <- Highs
  Spaces <- MCSpaces
  Volumes = {v1, v2}
  Callers = {"caller"}
  MaxFails = 1
  MaxFaults = 1
  Lists <- MCLists
  MaxAddr = 2
  ManyTimes = 2
  MaxBad = 1
  MaxLate = 1
  Commands = {"top_read", "host_read", "tune", "seek"}
  MaxCommands = 2
  MaxCuts = 1
  MaxRds = 1
  Readers = {"reader"}
  MaxCalls = 1
  MaxMishaps = 1
SPECIFICATION MCSpec
INVARIANTS CallsRecover FastBusOnPll
  ShownIsWhole ListIsStations EveryCallReturns OwnAnswer NoUpdateIsMissed
PROPERTY SeekStaysInBand
CHECK_DEADLOCK FALSE
