SPECIFICATION FairSpec
CONSTANTS
  a = a  b = b  a1 = a1  a2 = a2  b1 = b1
  loop = loop  event = event  hook = hook  admin = admin  None = None
  Pools <- TwoPools
  Runners <- ThreeRunners
  PoolOf <- PoolLabel
  Procs = {loop, event}
  Roles <- EventRoles
  PoolConfigs <- EditedConfigs
  InitialDB <- EditedRows
  InitialMax = 2
  Settings = {2}
  MaxPolled = 0
  MaxQueue = 1
  BootFirst = TRUE
  World = {"exit", "manual", "edit"}
PROPERTIES ViewConverges Replenished RemovedPoolDrains
