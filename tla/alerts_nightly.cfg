SPECIFICATION FairSpec
CONSTANTS
  Owners = {a, b}
  Rows = {e, f, g}
  Workers = {w}
  NoRow = NoRow
  MaxDay = 0
  Targets = {s}
  MaxEdits = 1
  MaxChanges = 1
PROPERTIES NoRefire CatchesUp
CHECK_DEADLOCK FALSE
