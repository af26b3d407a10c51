------------------------------ MODULE Records ------------------------------
(***************************************************************************)
(* What the supervisor keeps: Renovate runs, seeded configuration, job     *)
(* history with its logs, and backups.  The four share the database and    *)
(* little else, so `mix' says which of them is looked at: the history by   *)
(* those who write it, by a client who pages through it, or by one who     *)
(* asks for statistics; and the logs of every output there is.             *)
(***************************************************************************)
EXTENDS RenovateRuns, Seed, Backups, History

CONSTANT Mixes

VARIABLE mix

vars == <<renovateVars, tables, seedVars, backupVars, historyVars, mix>>

\* The tables when history is looked at: a pool, and a day's retention.
OnePool ==
  LET profile == [name |-> "ci", method |-> "pat", app |-> 0, key |-> "", token |-> "t"]
      pool == [name |-> "web", provider |-> "github", url |-> "u", scope |-> "repo",
               auth |-> 1, idle |-> 1, max |-> 1,
               labels |-> [form |-> "comma", labels |-> {{"a"}}], image |-> "aio"]
  IN  SetAppSetting(CreateRunnerPool(CreateAuthProfile(EmptyTables, profile), pool),
                    "job_retention_days", 1)

Init ==
  /\ mix \in Mixes
  /\ RenovateInit /\ SeedInit /\ BackupInit /\ HistoryInit
  /\ boot = IF mix = "export" THEN "up" ELSE "off"
  /\ tables = IF mix \in {"logs", "outputs", "browse", "watch"} THEN OnePool ELSE EmptyTables
  /\ \E o \in IF mix = "outputs" THEN Outputs ELSE {CHOOSE o \in Outputs : TRUE} :
       output = [r \in Runners |-> o]

Renovates ==
  /\ mix = "renovate"
  /\ RenovateNext
  /\ UNCHANGED <<tables, seedVars, backupVars, historyVars, mix>>

\* The daemon boots while files are imported; or it is up, and its
\* configuration is exported.
Seeds ==
  /\ \/ mix = "seed" /\ Boots
     \/ mix \in {"seed", "export"} /\ Imports
     \/ mix = "export" /\ Exporting
  /\ UNCHANGED <<renovateVars, backupVars, historyVars, mix>>

Snapshots ==
  /\ mix = "backups"
  /\ BackupNext
  /\ UNCHANGED <<renovateVars, tables, seedVars, historyVars, mix>>

Histories ==
  /\ \/ mix \in {"logs", "browse", "watch"} /\ Retaining
     \/ mix = "logs" /\ Capturing
     \/ mix = "outputs" /\ ReapContainer(CHOOSE r \in Runners : TRUE)
     \/ mix \in {"browse", "watch"} /\ Recorded
     \/ mix = "browse" /\ Browsing
     \/ mix = "watch" /\ Watching
  /\ UNCHANGED <<renovateVars, seedVars, backupVars, mix>>

Next == Renovates \/ Seeds \/ Snapshots \/ Histories

Spec == Init /\ [][Next]_vars

\* Only Renovate runs have a promise of progress: see RenovateRuns.
FairSpec == Spec /\ RenovateFairness

\* Type correctness of what is kept.
TypeOK == RenovateTypeOK /\ SeedTypeOK /\ BackupTypeOK /\ HistoryTypeOK
=============================================================================
