SPECIFICATION Spec
CONSTANTS
  Worker = {w1}
  NightWorker = {}
  User = {u1}
  Request = {r1, r2}
  NMonths = 2
  Period = {"WY1", "WY2"}
  PeriodOf <- OneMonthEach
  NoPeriod = NoPeriod
  Reason = {why}
  Plain = Plain
  NoWorker = NoWorker
  NoRequest = NoRequest
  MaxSaves = 1
  MaxFaults = 1
  MaxCrashes = 0
  MaxToggles = 1
  MaxCommands = 1
INVARIANTS SameReason NoLostRecord RequestsTold
PROPERTIES CalculatesSerially
CHECK_DEADLOCK FALSE
