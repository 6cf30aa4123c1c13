CONSTANTS
  a = a  b = b  p = p  q = q  NoJob = NoJob
  Jobs = {a, b}
  Procs = {p}
  Cancellable = {a}
  NoHandler = {b}
  Legacy = {a}
  MaxAttempts <- OneEach
  Prio <- UrgentB
  Requeueable = {a}
  MaxReclaims = 2
  MaxBoots = 2
  MaxFaults = 1
  BeatLoss = TRUE
  Grace = TRUE
SPECIFICATION Spec
INVARIANTS TypeOK Bookkeeping RunsBounded HooksFollowSuccess
PROPERTIES SettledStaysSettled
CHECK_DEADLOCK FALSE
