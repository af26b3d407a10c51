SPECIFICATION FairSpec
CONSTANTS
  pool1 = pool1  cron = cron  rpc = rpc  c1 = c1  c2 = c2  None = None
  Pools = {pool1}
  Tasks = {cron}
  Callers = {rpc}
  Containers = {c1, c2}
  MaxRuns = 2
  NoFile = NoFile
  SeedFiles <- AtBoot
  CommandFiles <- ByCommand
  NewProfiles <- AddedProfiles
  NewPools <- AddedPools
  Environment <- Variables
  MaxRows = 2
  loop = loop  command = command
  Writers = {loop, command}
  Retention = 2
  MaxSecond = 3
  r1 = r1  r2 = r2  NoLog = NoLog
  Runners = {r1, r2}
  Outputs <- AllOutputs
  PageSize = 1
  MaxDay = 2
  MaxJobs = 3
  MaxHung = 2
  Now = 9
  Mixes = {"renovate", "seed", "backups", "logs", "outputs", "browse", "watch", "export"}
INVARIANTS
  OutcomeTruthful SeedOnce GoodBackupKept RowsHaveLogs
  AnalyticsComplete LogsInOrder RoundTrip
PROPERTIES RecordedRunEnds
CHECK_DEADLOCK FALSE
