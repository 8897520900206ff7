SPECIFICATION NightSpec
CONSTANTS
  Worker = {w1, w2}
  NightWorker = {w1}
  User = {u1}
  Request = {r1, r2}
  NMonths = 1
  Period = {"WY1"}
  PeriodOf <- OneMonth
  NoPeriod = NoPeriod
  Reason = {}
  Plain = Plain
  NoWorker = NoWorker
  NoRequest = NoRequest
  MaxSaves = 1
  MaxFaults = 0
  MaxCrashes = 1
  MaxToggles = 0
  MaxCommands = 0
INVARIANTS OneAtATime
PROPERTIES FiguresCatchUp
CHECK_DEADLOCK FALSE
