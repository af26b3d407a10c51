SPECIFICATION Spec
CONSTANTS
  a = a  b = b  a1 = a1  a2 = a2  b1 = b1
  loop = loop  event = event  hook = hook  admin = admin  None = None
  Pools <- TwoPools
  Runners <- ThreeRunners
  PoolOf <- PoolLabel
  Procs = {loop, hook}
  Roles <- LoopRoles
  PoolConfigs <- ScalingConfigs
  InitialDB <- ScalingRows
  InitialMax = 2
  Settings = {1, 2}
  MaxPolled = 2
  MaxQueue = 1
  BootFirst = TRUE
  World = {"exit", "vanish", "age", "jobs", "spawnFails"}
SYMMETRY Interchangeable
INVARIANTS CapCheckHolds QuotaCheckHolds
