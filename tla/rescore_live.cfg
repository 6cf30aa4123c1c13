SPECIFICATION FairSpec
CONSTANTS
  a = a
  v = v
  w = w
  b = b
  Cells = {a, b}
  Values = {one, two}
  Blank = Blank
  Workers = {v, w}
  MaxEdits = 1
  MaxFilings = 0
  Admins = {x}
  Weighty = {a}
  NoAsk = NoAsk
  Workbook = FALSE
  Essential = FALSE
  MaxLosses = 1
  one = one
  two = two
INVARIANTS ChainIsLinear
PROPERTIES ScoreCatchesUp
CHECK_DEADLOCK FALSE
