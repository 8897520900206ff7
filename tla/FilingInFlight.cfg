SPECIFICATION Spec
CONSTANTS
  Year = {y}
  Record = {r}
  Linked = {}
  Value = {v}
  Elsewhere = Elsewhere
  Blank = Blank
  Unread = Unread
  NoCode = NoCode
  Session = {p}
  Nobody = Nobody
  Writer = {w}
  MaxStatements = 1
PROPERTY ClosedToChange
