SPECIFICATION MCSpec
CONSTANTS
  Teams <- MCTeams
  MaxFails = 1
  Callers = {c1, c2}
  Clients = {"right"}
  Threads = {t1, t2}
  Units = {n1}
  Files = {f1, f2}
  Scenes = {s1}
  Users = {"sampler", "socket"}
  Params = {p1, p2}
  Daemons = {d1, d2}
  MaxCmds = 4
  Normal = 4
CHECK_DEADLOCK FALSE
INVARIANTS OffIsFenced InUseIsReachable WaitsCanEnd AmpsAreTwo VoltageIsFresh CommandsMeet NoCrossedAnswers
