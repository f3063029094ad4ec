CONSTANTS
  FirstMJD = 59580
  FirstYear = 2022
  LastMJD = 60310
SPECIFICATION Spec
INVARIANT NewDateIsRight
CHECK_DEADLOCK FALSE
