CONSTANTS
  PulseCount = 5
  RetryMax = 3
  Worlds <- AllWorlds
SPECIFICATION Spec
CHECK_DEADLOCK FALSE
INVARIANTS NoStrandedNegotiation SettledIsTrue
PROPERTIES PeAdapterIsBoosted SessionSpec
