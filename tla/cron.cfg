SPECIFICATION FairSpec
CONSTANTS
  p = p  s1 = s1  s2 = s2  s3 = s3  None = None
  Pools = {p}
  Slots = {s1, s2, s3}
  Schedules <- TwoSchedules
  MaxTime = 3
  NoOrigin = NoOrigin
  Heads <- SomeHeads
  Loops = {"retention"}
  Mixes = {"life", "cron"}
INVARIANTS RunningFlagExact OpenWhileUsed
PROPERTIES DueJobFires DaemonExits KeepsTaskGroup
CHECK_DEADLOCK FALSE
