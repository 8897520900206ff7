SPECIFICATION OutsideSpec
CONSTANTS
  Upload = {u, v}
  Session = {s}
  Worker = {w, x}
  NoUpload = NoUpload
  MaxErrors = 1
  MaxCrashes = 1
  Station = {a, b}
  quiet = b
  Press = {p}
  Sync = {y}
  Nobody = Nobody
  NoStation = NoStation
  Versions = 2
  Blanks = {1}
  AlertAfter = 2
  MaxFaults = 1
  MaxDeaths = 1
INVARIANTS ToldAsSaved NoFileLeft RevisionsSound
PROPERTIES PollingEnds LogTellsWhatHappened LogsEnd CatchesUp OutageAlerts
CHECK_DEADLOCK FALSE
