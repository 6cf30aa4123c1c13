SPECIFICATION Spec
CONSTANTS
  a = a
  v = v
  w = w
  b = b
  one = one
  two = two
  Cells = {a}
  Values = {one}
  Blank = Blank
  Workers = {v, w}
  MaxEdits = 1
  MaxFilings = 2
  MaxLosses = 1
  Admins = {x}
  Weighty = {a}
  NoAsk = NoAsk
  Workbook = TRUE
  Essential = TRUE
SYMMETRY Alike
INVARIANTS HandValuesStand
CHECK_DEADLOCK FALSE
