CONSTANTS
  Users = {"u1", "u2"}
  MaxFaults = 0
SPECIFICATION Spec
INVARIANT OneCallInside
