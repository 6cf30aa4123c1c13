CONSTANTS
  a = a  b = b  p = p  q = q  NoJob = NoJob
  Jobs = {a}
  Procs = {p, q}
  Cancellable = {a}
  NoHandler = {}
  Legacy = {}
  MaxAttempts <- JustA
  Prio <- SamePrio
  Requeueable = {a}
  MaxReclaims = 1
  MaxBoots = 2
  MaxFaults = 1
  BeatLoss = FALSE
  Grace = FALSE
SPECIFICATION FairSpec
PROPERTIES LiveRunNotReclaimed GhostsReclaimed EveryJobSettles
CHECK_DEADLOCK FALSE
