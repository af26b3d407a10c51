SPECIFICATION Spec
CONSTANTS
  a = a  b = b  a1 = a1  a2 = a2  b1 = b1
  loop = loop  event = event  hook = hook  admin = admin  None = None
  Pools <- TwoPools
  Runners <- ThreeRunners
  PoolOf <- PoolLabel
  Procs = {loop, hook, admin}
  Roles <- ShutdownRoles
  PoolConfigs <- StandardConfigs
  InitialDB <- TwoRows
  InitialMax = 3
  Settings = {3}
  MaxPolled = 0
  MaxQueue = 2
  BootFirst = TRUE
  World = {}
SYMMETRY Interchangeable
PROPERTIES NothingStartsStopped
CHECK_DEADLOCK FALSE
