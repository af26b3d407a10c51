SPECIFICATION FairSpec
CONSTANTS
  a = a  b = b  a1 = a1  a2 = a2  b1 = b1
  loop = loop  event = event  hook = hook  admin = admin  None = None
  Pools <- TwoPools
  Runners <- ThreeRunners
  PoolOf <- PoolLabel
  Procs = {loop, hook, admin}
  Roles <- ShutdownRoles
  PoolConfigs <- EditedConfigs
  InitialDB <- EditedRows
  InitialMax = 1
  Settings = {1}
  MaxPolled = 0
  MaxQueue = 1
  BootFirst = TRUE
  World = {"exit", "jobs", "pause", "cancel", "terminateFails", "auditFails"}
PROPERTIES StoppedStays ShutdownEnds
CHECK_DEADLOCK FALSE
