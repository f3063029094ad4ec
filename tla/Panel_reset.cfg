CONSTANTS
  Rows = 3
  Delays = {2}
  ActiveLow = TRUE
  MaxLost = 2
SPECIFICATION Spec
INVARIANT OutOfReset
