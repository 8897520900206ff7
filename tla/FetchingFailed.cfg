SPECIFICATION Spec
CONSTANTS
  Station = {a, b}
  Press = {p}
  Sync = {y}
  Nobody = Nobody
  NoStation = NoStation
  Versions = 1
  Blanks = {}
  AlertAfter = 1
  MaxFaults = 1
  MaxDeaths = 0
PROPERTY FailedMeansNoneAnswered
CHECK_DEADLOCK FALSE
