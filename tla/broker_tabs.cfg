SPECIFICATION Spec
CONSTANTS
  zerodha = zerodha
  mock = mock
  d1 = d1
  d2 = d2
  p = p
  u = u
  None = None
  Conns = {c1}
  Accts = {a1,a2}
  States = {s1}
  Demats <- MCOneDemat
  Brokers <- MCOneBroker
  BrokerOf <- MCBrokerOne
  OneShot <- MCNoShot
  Positions <- MCMapped
  Unmapped <- MCNoShot
  Http = {h1,h2}
  Sweeps = {w1}
SYMMETRY Symmetric
INVARIANTS OneAccountPerConnection StateSpentOnce RescuedOnce
CHECK_DEADLOCK FALSE
