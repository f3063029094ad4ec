CONSTANTS
  Rows = 100
  DtVolt <- Millivolts
  DtTemps <- StockTemps
  DtCells <- ThreeCells
  TableUnit = 1000
  ReadsMayFail = TRUE
  Voltages <- MCVoltages
  Temperatures <- MCTemperatures
  Users <- TwoUsers
  Gap <- TwoGaps
  Restarts <- Both
  Off = Off
  NoTh = NoTh
  Far = 3
  CarLimit = 2
  MaxDrift = 1
  MaxCalls = 2
  Timers = {"a", "b"}
  Intervals = {1, 2}
  MaxTime = 5
  MaxDeaths = 1
  MaxSleeps = 1
  AtOnce = 2
  Currents = {0, 5000, 30000}
  Callers = {"charger"}
  bat_cycle_thr = 2
  MaxOut = 3
  MaxResets = 1
  Limit = 2
  MaxWrites = 2
SPECIFICATION MCSpec
CHECK_DEADLOCK FALSE
INVARIANTS AccurateWithinThree NoPollAfterRemove HeadsAreWatched FirstIsArmed NoSourceIsForgotten ReadingIsRight CycleIsDischarged BlamedWhenStill
