SPECIFICATION Spec
CONSTANTS
  zerodha = zerodha
  mock = mock
  d1 = d1
  d2 = d2
  p = p
  u = u
  None = None
  Conns = {c1,c2}
  Accts = {a1,a2}
  States = {s1,s2}
  Demats <- MCTwoDemats
  Brokers <- MCTwoBrokers
  BrokerOf <- MCSameBroker
  OneShot <- MCShot
  Positions <- MCPositions
  Unmapped <- MCUnmapped
  Http = {h1}
  Sweeps = {}
SYMMETRY Symmetric
INVARIANTS NoZombie LinkedIsBrokerOnly NothingStranded DeadIsDead
PROPERTIES RescueKeepsAll BindingIsAnchor ReconnectIsExact FrozenWhileSevered KeepsAnAccount ForgetsDeliberately
CHECK_DEADLOCK FALSE
