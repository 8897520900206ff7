SPECIFICATION CorrectionsSpec
CONSTANTS
  Zone = {a, b}
  Account = {k}
  Nobody = nobody
  NEvents = 2
  Figure <- Figures
  MaxMoves = 1
  Person = {s}
  Typist = {s}
  NMeterReadings = 5
  NMeterDays = 4
  InOrder = TRUE
  Session = {s, t}
  NReadings = 3
  NDays = 2
  Value = {1, 2}
INVARIANTS
  FiguredFromLast
  PoolHoldsWhatCounts
  ChartReadsWhatWasTyped
PROPERTY MonthsCoverWhatMoved
CHECK_DEADLOCK FALSE
