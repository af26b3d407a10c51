-------------------------------- MODULE Seed --------------------------------
(***************************************************************************)
(* Seed import and export: internal/db/seed.go, the commands import and    *)
(* export, and the seed at boot (checkAndImportSeed of daemon.go).         *)
(*                                                                         *)
(* An import is one transaction: it is there as a whole or not at all, and *)
(* then the setting seed_imported is written by a statement of its own.    *)
(* An export is a series of queries without one.  Commands are processes   *)
(* of their own, and any process may be killed between two statements.     *)
(* A label is the set of the words between its commas.                     *)
(***************************************************************************)
EXTENDS Tables, SequencesExt

CONSTANTS
  SeedFiles,     \* configurations found at boot; NoFile if there is none
  CommandFiles,  \* configurations given to the import command
  NewProfiles,   \* profiles an administrator creates
  NewPools,      \* pools an administrator creates
  Environment,   \* profile name -> the value of SUPERVISOR_<NAME>_TOKEN
  MaxRows,       \* bound on the identifiers of profiles and pools
  NoFile

\* A file is YAML that could be parsed: profiles are a map, and have names that
\* the environment may know.  What a request creates has passed the service's
\* validation, which asks for no image and for no labels; that an application's
\* number is not negative, and that the first target of a request is not blank,
\* is up to who writes them.  Joined labels that happen to be JSON read as such.
LabelSets == {l \in SUBSET (SUBSET STRING) : l # {} /\ IsFiniteSet(l)}
Names == STRING \ {""}
Methods == {"github_app", "gitea_token", "forgejo_token", "pat"}
Providers == {"github", "gitea", "forgejo"}
Scopes == {"repo", "org", "global"}

RenovateFields == [enabled : BOOLEAN, cron : STRING, image : STRING]

FileProfiles ==
  [name : DOMAIN Environment, method : STRING, app : Nat, key : STRING, keyPath : STRING,
   token : STRING, tokenEnv : DOMAIN Environment \cup {""}]
FilePools ==
  [name : STRING, provider : STRING, url : STRING, scope : STRING, auth : STRING,
   idle : Int, max : Int, labels : LabelSets \cup {{}}, image : STRING,
   renovate : RenovateFields]

IsFile(cfg) ==
  /\ \A key \in {"total_allowed_runners", "job_retention_days"} : cfg.global[key] \in Int
  /\ IsFiniteSet(cfg.profiles) /\ cfg.profiles \subseteq FileProfiles
  /\ cfg.pools \in Seq(FilePools)

ASSUME SeedAssumption ==
  /\ \A cfg \in CommandFiles : IsFile(cfg)
  /\ \A name \in DOMAIN Environment : Environment[name] \in STRING
  /\ \A p \in NewProfiles :
       /\ p.name \in DOMAIN Environment \ {""} /\ p.method \in Methods
       /\ p.app \in Nat /\ (p.method = "github_app" => p.app # 0)
       /\ p.key \in STRING /\ p.token \in STRING
  /\ \A p \in NewPools :
       /\ p \in [name : Names, provider : Providers, url : Names, scope : Scopes \cup {""},
                 idle : Int, max : Int,
                 labels : [form : {"comma", "json"}, labels : LabelSets \cup {{}}],
                 image : STRING, renovate : RenovateFields]
       /\ p.renovate.image # ""

VARIABLES
  boot,          \* where the daemon is in checkAndImportSeed
  importer,      \* where the import command is
  exporter,      \* where the export command is and what it has
  passed,        \* history: a daemon got past checkAndImportSeed
  overlooked     \* history: an import was not marked when it was killed, or when
                 \* a booting daemon looked, or the mark could not be read

seedVars == <<boot, importer, exporter, passed, overlooked>>

----------------------------------------------------------------------------
(* ImportSeedConfig.  A configuration has settings, profiles by name and a *)
(* sequence of pools; "" and 0 stand for what is left out.                 *)

Validate(cfg) ==
  /\ \A p \in cfg.profiles :
       p.name # "" /\ p.method \in Methods /\ (p.method = "github_app" => p.app # 0)
  /\ \A i \in DOMAIN cfg.pools :
       LET p == cfg.pools[i]
       IN  /\ p.name # "" /\ p.provider \in Providers /\ p.url # ""
           /\ p.scope \in Scopes \cup {""}
           /\ p.labels # {} /\ p.image # "" /\ p.auth # ""
           /\ \A j \in DOMAIN cfg.pools : p.name = cfg.pools[j].name => i = j

\* The key is given, read from its file, or redacted; the token is given or
\* comes from the environment, by one of three names, which may not have it.
ResolveCredentials(p) ==
  [key |-> CASE p.key # "" -> p.key
             [] p.key = "" /\ p.keyPath \in {"", "${REDACTED}"} -> ""
             [] OTHER -> p.keyPath,
   token |-> CASE p.token # "" -> p.token
               [] p.token = "" /\ p.tokenEnv # "" -> Environment[p.tokenEnv]
               [] OTHER -> ""]

\* The file of a key can be read.
Readable(p) == p.key # "" \/ p.keyPath # "missing"

\* Variant: what is given replaces what is stored.
KeepNothing(given, stored) == given

\* "Preserve existing encrypted secrets if incoming credentials are empty or
\* redacted".
KeepSecret(given, stored) == IF given = "" THEN stored ELSE given

\* A profile of the configuration is updated or created.
ImportProfile(t, p) ==
  LET secrets == ResolveCredentials(p)
      row(key, token) == [name |-> p.name, method |-> p.method,
                          app |-> IF p.app > 0 THEN p.app ELSE 0,
                          key |-> key, token |-> token]
      old == GetAuthProfileByName(t, p.name)
  IN  IF old = {} THEN CreateAuthProfile(t, row(secrets.key, secrets.token))
      ELSE LET r == CHOOSE x \in old : TRUE
           IN  UpdateAuthProfile(t, r.id, row(KeepSecret(secrets.key, r.key),
                                              KeepSecret(secrets.token, r.token)))

ImportSettings(t, global) ==
  LET set(u, key) == IF global[key] > 0 THEN SetAppSetting(u, key, global[key]) ELSE u
  IN  set(set(t, "total_allowed_runners"), "job_retention_days")

Default(n, d) == IF n <= 0 THEN d ELSE n
ScopeOr(scope, default) == IF scope = "" THEN default ELSE scope

ImportPool(t, p) ==
  LET auth == CHOOSE r \in t.profiles : r.name = p.auth
      row == [name |-> p.name, provider |-> p.provider, url |-> p.url,
              scope |-> ScopeOr(p.scope, "repo"), auth |-> auth.id,
              idle |-> Default(p.idle, 1), max |-> Default(p.max, 5),
              labels |-> [form |-> "json", labels |-> p.labels], image |-> p.image]
      old == GetRunnerPoolByName(t, p.name)
      t1 == IF old = {} THEN CreateRunnerPool(t, row)
            ELSE UpdateRunnerPool(t, (CHOOSE x \in old : TRUE).id, row)
      id == (CHOOSE x \in t1.pools : x.name = p.name).id
      found == \E r \in ListPoolTargetsByPoolId(t1, id) : r.url = p.url
      t2 == IF found THEN t1 ELSE AddPoolTarget(t1, id, p.url)
      config == [p.renovate EXCEPT !.image = IF @ = "" THEN "latest" ELSE @]
  IN  IF p.renovate.image = "none" THEN t2
      ELSE IF GetRenovateConfigByPoolId(t2, id) # {} THEN UpdateRenovateConfig(t2, id, config)
      ELSE CreateRenovateConfig(t2, id, config)

\* ImportModeOverwrite deletes every pool with all it has, then every profile,
\* to which no pool refers any more.
Emptied(t) ==
  LET orphans(rows) == {r \in rows : \A p \in ListRunnerPools(t) : r.pool # p.id}
  IN  [t EXCEPT !.pools = {}, !.targets = orphans(@), !.renovate = orphans(@),
                !.jobs = orphans(@), !.profiles = {}]

\* The tables an import starts its pools with.
Prepared(t, cfg, mode) ==
  FoldSet(LAMBDA p, u : ImportProfile(u, p),
          ImportSettings(IF mode = "overwrite" THEN Emptied(t) ELSE t, cfg.global),
          cfg.profiles)

\* No step of the transaction fails on what the configuration says.
Importable(t, cfg, mode) ==
  /\ Validate(cfg)
  /\ \A p \in cfg.profiles : Readable(p)
  /\ \A i \in DOMAIN cfg.pools :
       GetAuthProfileByName(Prepared(t, cfg, mode), cfg.pools[i].auth) # {}

\* Profiles and pools leave the settings alone, and of the history an import
\* only deletes what belongs to a pool it deletes.
ImportSeedConfig(t, cfg, mode) ==
  LET done == FoldLeft(ImportPool, Prepared(t, cfg, mode), cfg.pools)
  IN  [ImportSettings(t, cfg.global) EXCEPT
         !.profiles = done.profiles, !.pools = done.pools, !.targets = done.targets,
         !.renovate = done.renovate, !.jobs = @ \cap done.jobs,
         !.ids.profile = done.ids.profile, !.ids.pool = done.ids.pool]

MarkSeedImported(t) == SetAppSetting(t, "seed_imported", 1)

----------------------------------------------------------------------------
(* ExportSanitizedConfig.                                                  *)

\* The environment variable is named after the profile.
Sanitized(p) ==
  [name |-> p.name, method |-> p.method, app |-> p.app,
   key |-> "", keyPath |-> IF p.key # "" THEN "${REDACTED}" ELSE "",
   token |-> "", tokenEnv |-> IF p.token # "" THEN p.name ELSE ""]

\* A column that is no JSON array is one label, commas and all.
ExportedLabels(column) ==
  IF column.form = "json" THEN column.labels ELSE {UNION column.labels}

NoRenovate == [enabled |-> FALSE, cron |-> "", image |-> "none"]

\* The name of a profile that was not listed is empty.
ExportedPool(p, profiles) ==
  [name |-> p.name, provider |-> p.provider, url |-> p.url, scope |-> p.scope,
   auth |-> IF \E r \in profiles : r.id = p.auth THEN ById(profiles, p.auth).name ELSE "",
   idle |-> p.idle, max |-> p.max, labels |-> ExportedLabels(p.labels), image |-> p.image,
   renovate |-> NoRenovate]

----------------------------------------------------------------------------

NoConfig == [global |-> <<>>, profiles |-> {}, pools |-> <<>>]
NoExport == [pc |-> "idle", cfg |-> NoConfig, rows |-> {}, ids |-> <<>>, clean |-> TRUE]

SeedTypeOK ==
  /\ boot \in {"off", "setting", "pools", "profiles", "import", "mark", "up"}
  /\ importer \in {"idle", "mark"}
  /\ exporter.pc \in {"idle", "profiles", "pools", "renovate", "done"}
  /\ tables.ids.profile \in 0..MaxRows /\ tables.ids.pool \in 0..MaxRows
  /\ \A p \in tables.pools : \E r \in tables.profiles : r.id = p.auth
  /\ passed \in BOOLEAN /\ overlooked \in BOOLEAN

SeedInit ==
  /\ importer = "idle"
  /\ exporter = NoExport
  /\ passed = FALSE
  /\ overlooked = FALSE

\* A statement or a transaction of somebody else than the export.
Writes(t) ==
  /\ t.ids.profile <= MaxRows /\ t.ids.pool <= MaxRows
  /\ tables' = t
  /\ exporter' = IF exporter.pc = "idle" THEN exporter ELSE [exporter EXCEPT !.clean = FALSE]

Reads(pc) ==
  /\ boot' = pc
  /\ passed' = (passed \/ pc = "up")
  /\ overlooked' = (overlooked \/ importer = "mark")
  /\ UNCHANGED <<tables, importer, exporter>>

BootStarts == boot = "off" /\ Reads("setting")

\* Variant: only the counts are looked at.
SettingIgnored == boot = "setting" /\ Reads("pools")

\* ShouldAutoImportSeed: the setting, of which an error reads as no setting, then
\* the two counts.
ReadSeedImported ==
  \/ boot = "setting"
     /\ Reads(IF GetAppSetting(tables, "seed_imported") = 1 THEN "up" ELSE "pools")
  \/ /\ boot = "setting" /\ boot' = "pools"
     /\ overlooked' = TRUE
     /\ UNCHANGED <<tables, importer, exporter, passed>>

CountPools == boot = "pools" /\ Reads(IF CountRunnerPools(tables) = 0 THEN "profiles" ELSE "up")

\* checkAndImportSeed: without a file the evaluation is marked at once.
CountProfiles ==
  /\ boot = "profiles"
  /\ \E file \in SeedFiles :
       Reads(IF CountAuthProfiles(tables) # 0 THEN "up"
             ELSE IF file = NoFile THEN "mark"
             ELSE "import")

\* The import at boot; a file that cannot be imported ends the daemon.
BootImports ==
  /\ boot = "import"
  /\ \E file \in SeedFiles \ {NoFile} :
       \/ /\ Importable(tables, file, "merge")
          /\ Writes(ImportSeedConfig(tables, file, "merge"))
          /\ boot' = "mark"
       \/ boot' = "off" /\ UNCHANGED <<tables, exporter>>
  /\ UNCHANGED <<importer, passed, overlooked>>

\* MarkSeedImported, at the end of ImportSeedConfig or without a file.
BootMarks ==
  /\ boot = "mark"
  /\ Writes(MarkSeedImported(tables))
  /\ boot' = "up"
  /\ passed' = TRUE
  /\ UNCHANGED <<importer, overlooked>>

\* The daemon is killed or stops, or its marking fails.
BootEnds ==
  /\ boot # "off"
  /\ boot' = "off"
  /\ overlooked' = (overlooked \/ boot = "mark")
  /\ UNCHANGED <<tables, importer, exporter, passed>>

\* supervisor import, in either mode.
ImportCommand(mode) ==
  /\ importer = "idle"
  /\ \E file \in CommandFiles :
       Importable(tables, file, mode) /\ Writes(ImportSeedConfig(tables, file, mode))
  /\ importer' = "mark"
  /\ UNCHANGED <<boot, passed, overlooked>>

\* It marks, or is killed.
ImportCommandMarks ==
  /\ importer = "mark"
  /\ importer' = "idle"
  /\ \/ Writes(MarkSeedImported(tables)) /\ UNCHANGED overlooked
     \/ UNCHANGED <<tables, exporter>> /\ overlooked' = TRUE
  /\ UNCHANGED <<boot, passed>>

\* What an administrator's request writes into runner_pools.
Asked(p, profile, default) ==
  [name |-> p.name, provider |-> p.provider, url |-> p.url,
   scope |-> ScopeOr(p.scope, default), auth |-> profile.id, idle |-> p.idle,
   max |-> p.max, labels |-> p.labels, image |-> p.image]

\* The requests of the services, each as a whole: see Administration.
AddProfile ==
  \E p \in NewProfiles :
    Named(tables.profiles, p.name) = {} /\ Writes(CreateAuthProfile(tables, p))

RemoveProfile ==
  \E r \in tables.profiles :
    (\A p \in tables.pools : p.auth # r.id) /\ Writes(DeleteAuthProfile(tables, r.id))

AddPool ==
  \E p \in NewPools, r \in tables.profiles :
    LET t1 == CreateRunnerPool(tables, Asked(p, r, "repo"))
        t2 == IF p.renovate.image = "none" THEN t1
              ELSE CreateRenovateConfig(t1, t1.ids.pool, p.renovate)
    IN  Named(tables.pools, p.name) = {} /\ Writes(AddPoolTarget(t2, t1.ids.pool, p.url))

\* The row, the Renovate configuration if one is given, and the targets.
ChangePool ==
  \E p \in NewPools, r \in tables.profiles, q \in tables.pools :
    LET t1 == UpdateRunnerPool(tables, q.id, Asked(p, r, q.scope))
        t2 == IF p.renovate.image = "none" THEN t1
              ELSE UpdateRenovateConfig(t1, q.id, p.renovate)
    IN  /\ Named(tables.pools, p.name) \subseteq {q}
        /\ Writes(AddPoolTarget(DeletePoolTargetsByPoolId(t2, q.id), q.id, p.url))

RemovePool == \E q \in tables.pools : Writes(DeleteRunnerPool(tables, q.id))

Administer ==
  /\ boot = "up"
  /\ AddProfile \/ RemoveProfile \/ AddPool \/ ChangePool \/ RemovePool
  /\ UNCHANGED <<boot, importer, passed, overlooked>>

Exports(r) ==
  exporter' = r /\ UNCHANGED <<tables, boot, importer, passed, overlooked>>

\* ListAppSettings.
ExportCommand ==
  /\ exporter.pc = "idle"
  /\ Exports([NoExport EXCEPT !.pc = "profiles", !.cfg.global = ListAppSettings(tables)])

ExportProfiles ==
  /\ exporter.pc = "profiles"
  /\ Exports([exporter EXCEPT !.pc = "pools", !.rows = ListAuthProfiles(tables),
                              !.cfg.profiles = {Sanitized(p) : p \in ListAuthProfiles(tables)}])

\* ListRunnerPools sorts by name; the model lets the rows come in any order.
ExportPools ==
  /\ exporter.pc = "pools"
  /\ \E rows \in Bijection(1..CountRunnerPools(tables), ListRunnerPools(tables)) :
       Exports([exporter EXCEPT !.pc = "renovate",
                  !.ids = [i \in DOMAIN rows |-> rows[i].id],
                  !.cfg.pools = [i \in DOMAIN rows |-> ExportedPool(rows[i], exporter.rows)]])

\* GetRenovateConfigByPoolId for each pool in turn.
ExportRenovate ==
  LET i == Len(exporter.cfg.pools) - Len(exporter.ids) + 1
      found == GetRenovateConfigByPoolId(tables, Head(exporter.ids))
      r == CHOOSE x \in found : TRUE
  IN  /\ exporter.pc = "renovate"
      /\ IF exporter.ids = <<>> THEN Exports([exporter EXCEPT !.pc = "done", !.rows = {}])
         ELSE Exports([exporter EXCEPT !.ids = Tail(@),
                !.cfg.pools[i].renovate =
                   IF found = {} THEN NoRenovate
                   ELSE [enabled |-> r.enabled, cron |-> r.cron, image |-> r.image]])

\* The file is written; what happens to it is the administrator's business.
ExportEnds == exporter.pc = "done" /\ Exports(NoExport)

Boots ==
  \/ BootStarts \/ ReadSeedImported \/ CountPools \/ CountProfiles
  \/ BootImports \/ BootMarks \/ BootEnds

Imports ==
  \/ \E mode \in {"merge", "overwrite"} : ImportCommand(mode)
  \/ ImportCommandMarks \/ Administer

Exporting ==
  ExportCommand \/ ExportProfiles \/ ExportPools \/ ExportRenovate \/ ExportEnds

----------------------------------------------------------------------------
(* Properties.                                                             *)

\* "Once evaluated or imported, YAML is never re-read on subsequent boots",
\* also when an administrator has deleted every pool and profile since, unless
\* an import was killed, or was still to be marked at a boot, after its commit,
\* or a boot could not read the mark: an error of GetAppSetting is taken for a
\* missing row.
SeedOnce == boot = "import" => ~passed \/ overlooked

\* What a merge may change: numbers that are not positive, the column of the
\* labels, and a token that the environment has.
Kept(before, after) ==
  /\ {[r EXCEPT !.idle = Default(@, 1), !.max = Default(@, 5), !.labels = {}] : r \in before.pools}
       = {[r EXCEPT !.labels = {}] : r \in after.pools}
  /\ \A p \in before.pools, q \in after.pools :
       p.id = q.id /\ (p.labels.form = "json" \/ Cardinality(p.labels.labels) = 1)
         => p.labels.labels = q.labels.labels
  /\ {[r EXCEPT !.token = IF @ # "" /\ Environment[r.name] # "" THEN Environment[r.name] ELSE @]
        : r \in before.profiles} = after.profiles
  /\ before.targets \subseteq after.targets
  /\ before.renovate = after.renovate /\ before.jobs = after.jobs
  /\ before.settings = after.settings

\* A pool that the import takes: it has an image and a label, which the service
\* asks nobody for.
Filled(p) == p.image # "" /\ ExportedLabels(p.labels) # {}

\* Export is a backup that a merge can take back: an export during which
\* nothing was written can be imported exactly if all its pools have images and
\* labels, and then changes no row, secret, target, Renovate configuration or
\* job, but for defaults and for the labels of pools the UI wrote with several
\* labels, which become one.
RoundTrip ==
  exporter.pc = "done" /\ exporter.clean =>
    /\ Importable(tables, exporter.cfg, "merge") <=> \A p \in tables.pools : Filled(p)
    /\ Importable(tables, exporter.cfg, "merge")
         => Kept(tables, ImportSeedConfig(tables, exporter.cfg, "merge"))
=============================================================================
