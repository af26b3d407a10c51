SPECIFICATION Spec
CONSTANTS
  a = a  b = b  a1 = a1  a2 = a2  b1 = b1
  loop = loop  event = event  hook = hook  admin = admin  None = None
  Pools <- TwoPools
  Runners <- ThreeRunners
  PoolOf <- PoolLabel
  Procs = {loop, event, hook}
  Roles <- SteadyRoles
  PoolConfigs <- StandardConfigs
  InitialDB <- TwoRows
  InitialMax = 2
  Settings = {2}
  MaxPolled = 0
  MaxQueue = 2
  BootFirst = TRUE
  World = {"crash", "auditFails"}
SYMMETRY Interchangeable
INVARIANTS AbsoluteMaximum
