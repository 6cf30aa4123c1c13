SPECIFICATION Spec
CONSTANTS
  a = a
  v = v
  w = w
  b = b
  one = one
  two = two
  Cells = {a, b}
  Values = {one}
  Blank = Blank
  Workers = {v}
  MaxEdits = 2
  MaxFilings = 2
  MaxLosses = 0
  Admins = {x}
  Weighty = {a}
  NoAsk = NoAsk
  Workbook = FALSE
  Essential = FALSE
INVARIANTS CorrectedRatiosFollow
CHECK_DEADLOCK FALSE
