------------------------------- MODULE Tables -------------------------------
(***************************************************************************)
(* The statements of internal/db/*.sql.go that import, export, history and *)
(* analytics use, as operators on the tables.  A table is a set of rows    *)
(* with the identifiers AUTOINCREMENT gave them; a query is a set of rows, *)
(* and a statement that the schema refuses leaves the tables as they are.  *)
(* Of a pool's numbers and texts each kind is there once: the others are   *)
(* copied the same way.                                                    *)
(***************************************************************************)
EXTENDS Integers, Sequences, FiniteSets

VARIABLE tables    \* what is committed

\* ids: the last identifier of each table.
EmptyTables ==
  [settings |-> [seed_imported |-> 0, total_allowed_runners |-> 20,
                 job_retention_days |-> 30],
   profiles |-> {}, pools |-> {}, targets |-> {}, renovate |-> {}, jobs |-> {},
   ids |-> [profile |-> 0, pool |-> 0, job |-> 0]]

ById(rows, id) == CHOOSE r \in rows : r.id = id
Named(rows, name) == {r \in rows : r.name = name}

----------------------------------------------------------------------------
(* app_settings.sql.go.  "true" is 1.                                      *)

GetAppSetting(t, key) == t.settings[key]
ListAppSettings(t) == t.settings
SetAppSetting(t, key, value) == [t EXCEPT !.settings[key] = value]

----------------------------------------------------------------------------
(* auth_profiles.sql.go.  UNIQUE(name); runner_pools refer to profiles.    *)

CountAuthProfiles(t) == Cardinality(t.profiles)
ListAuthProfiles(t) == t.profiles
GetAuthProfileByName(t, name) == Named(t.profiles, name)

\* `p' has the columns but the identifier.
CreateAuthProfile(t, p) ==
  LET id == t.ids.profile + 1
  IN  IF Named(t.profiles, p.name) # {} THEN t
      ELSE [t EXCEPT !.ids.profile = id,
              !.profiles = @ \cup {[id |-> id, name |-> p.name, method |-> p.method,
                                    app |-> p.app, key |-> p.key, token |-> p.token]}]

UpdateAuthProfile(t, id, p) ==
  [t EXCEPT !.profiles = {r \in @ : r.id # id} \cup
     {[id |-> id, name |-> p.name, method |-> p.method, app |-> p.app,
       key |-> p.key, token |-> p.token]}]

DeleteAuthProfile(t, id) ==
  IF \E p \in t.pools : p.auth = id THEN t
  ELSE [t EXCEPT !.profiles = {r \in @ : r.id # id}]

----------------------------------------------------------------------------
(* runner_pools.sql.go, pool_targets.sql.go and renovate_configs.sql.go.   *)
(* What belongs to a pool is deleted with it.                              *)

CountRunnerPools(t) == Cardinality(t.pools)
ListRunnerPools(t) == t.pools
GetRunnerPoolByName(t, name) == Named(t.pools, name)

PoolRow(id, p) ==
  [id |-> id, name |-> p.name, provider |-> p.provider, url |-> p.url, scope |-> p.scope,
   auth |-> p.auth, idle |-> p.idle, max |-> p.max, labels |-> p.labels,
   image |-> p.image]

CreateRunnerPool(t, p) ==
  LET id == t.ids.pool + 1
  IN  IF Named(t.pools, p.name) # {} \/ \A r \in t.profiles : r.id # p.auth THEN t
      ELSE [t EXCEPT !.ids.pool = id, !.pools = @ \cup {PoolRow(id, p)}]

UpdateRunnerPool(t, id, p) ==
  [t EXCEPT !.pools = {r \in @ : r.id # id} \cup {PoolRow(id, p)}]

DeleteRunnerPool(t, id) ==
  [t EXCEPT !.pools = {r \in @ : r.id # id},
            !.targets = {r \in @ : r.pool # id},
            !.renovate = {r \in @ : r.pool # id},
            !.jobs = {r \in @ : r.pool # id}]

ListPoolTargetsByPoolId(t, id) == {r \in t.targets : r.pool = id}
DeletePoolTargetsByPoolId(t, id) == [t EXCEPT !.targets = {r \in @ : r.pool # id}]
AddPoolTarget(t, id, url) == [t EXCEPT !.targets = @ \cup {[pool |-> id, url |-> url]}]

GetRenovateConfigByPoolId(t, id) == {r \in t.renovate : r.pool = id}

Configured(id, r) ==
  [pool |-> id, enabled |-> r.enabled, cron |-> r.cron, image |-> r.image]
CreateRenovateConfig(t, id, r) == [t EXCEPT !.renovate = @ \cup {Configured(id, r)}]
UpdateRenovateConfig(t, id, r) ==
  [t EXCEPT !.renovate = {x \in @ : x.pool # id} \cup {Configured(id, r)}]

----------------------------------------------------------------------------
(* job_history.sql.go.  A row is created when its job is over, so one time *)
(* is completed_at and created_at.                                         *)

CreateJobHistory(t, pool, runner, status, path, time) ==
  LET id == t.ids.job + 1
  IN  IF \A p \in t.pools : p.id # pool THEN t
      ELSE [t EXCEPT !.ids.job = id,
              !.jobs = @ \cup {[id |-> id, pool |-> pool, runner |-> runner,
                                status |-> status, path |-> path, at |-> time]}]

Expired(t, cutoff) == {r \in t.jobs : r.at < cutoff}

\* The statement returns the rows it deletes.
PruneJobHistoryOlderThan(t, cutoff) == [t EXCEPT !.jobs = @ \ Expired(t, cutoff)]

GetJobHistoryById(t, id) == {r \in t.jobs : r.id = id}

\* Zero, or an empty text, filters nothing.
Searched(t, q) ==
  {r \in t.jobs : (q.pool = 0 \/ r.pool = q.pool) /\ (q.status = "" \/ r.status = q.status)
                   /\ (q.search = "" \/ r.runner = q.search)}

CountSearchJobHistory(t, q) == Cardinality(Searched(t, q))

\* Variant: the oldest row first.
Older(rows, r) == {x \in rows : x.id < r.id}

\* ORDER BY id DESC: what comes before a row.
RowsBefore(rows, r) == {x \in rows : x.id > r.id}

\* LIMIT and OFFSET.
SearchJobHistory(t, q, limit, offset) ==
  LET rows == Searched(t, q)
  IN  {r \in rows : Cardinality(RowsBefore(rows, r)) \in offset..(offset + limit - 1)}

ListJobHistory(t, limit) ==
  SearchJobHistory(t, [pool |-> 0, status |-> "", search |-> ""], limit, 0)

\* COUNT(*) and the sums by status; `failed' is no status of the schema.
Counts(rows) ==
  [total |-> Cardinality(rows),
   successful |-> Cardinality({r \in rows : r.status = "success"}),
   failed |-> Cardinality({r \in rows : r.status = "failure"})]

GetJobStatsSince(t, cutoff) == Counts({r \in t.jobs : r.at >= cutoff})

\* GROUP BY the hour.
GetHourlyJobStatsSince(t, cutoff) ==
  LET rows == {r \in t.jobs : r.at >= cutoff}
  IN  [h \in {r.at : r \in rows} |-> Counts({r \in rows : r.at = h})]
=============================================================================
