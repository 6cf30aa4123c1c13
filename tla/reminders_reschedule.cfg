SPECIFICATION Spec
CONSTANTS
  Owners = {a}
  Rows = {e, f}
  Workers = {w}
  NoRow = NoRow
  NoDate = NoDate
  MaxDay = 2
  Leads = {1, 2}
  Dates = {2, 3}
PROPERTIES FollowsReschedule
CHECK_DEADLOCK FALSE
