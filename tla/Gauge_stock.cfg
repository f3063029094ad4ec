CONSTANTS
  Rows = 100
  DtVolt <- Stock
  DtTemps <- StockTemps
  DtCells <- StockCells
  TableUnit = 100
  ReadsMayFail = TRUE
  Voltages <- StockVoltages
  Temperatures <- StockTemperatures
SPECIFICATION Spec
INVARIANT AccurateWithinThree
