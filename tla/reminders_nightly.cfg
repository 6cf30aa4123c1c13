SPECIFICATION Spec
CONSTANTS
  Owners = {a}
  Rows = {e, f}
  Workers = {v, w}
  NoRow = NoRow
  NoDate = NoDate
  MaxDay = 2
  Leads = {1, 2}
  Dates = {2, 3}
SYMMETRY Symmetric
INVARIANTS OneRowPerOccurrence MailedOnceADay
PROPERTIES EveryWindowFires
CHECK_DEADLOCK FALSE
