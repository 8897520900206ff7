SPECIFICATION KeepsSpec
CONSTANTS
  Year = {y}
  Record = {r}
  Linked = {}
  Value = {v}
  Elsewhere = Elsewhere
  Blank = Blank
  Unread = Unread
  NoCode = NoCode
  Session = {p, q}
  Nobody = Nobody
  Writer = {w}
  MaxStatements = 2
  Entry = {e}
  Keep = 2
  MaxBackups = 2
  MaxFaults = 2
INVARIANTS
  FiledAsRead
  CodeCoversStatements
  HalfBuiltLeftAlone
  ToldBackupsHold
PROPERTIES
  OneStatementEach
  CodeKept
