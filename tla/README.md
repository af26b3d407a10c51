# gh-runner: TLA+ verification project

gh-runner is a supervisor that keeps pools of ephemeral CI runners (containers
on one host engine) for GitHub, Gitea and Forgejo. A long-running Go process
holds an in-memory view of its containers, a SQLite database with the pools,
settings, sessions and histories, a ConnectRPC server with an embedded web UI,
a webhook endpoint, a cron scheduler and Renovate task containers.

The project models the parts of the supervisor whose correctness depends on
the order in which things happen. Paths below are relative to `src/`.

## Inventory

| Component | State it keeps | Operations | Interacts with | What makes it correct |
|---|---|---|---|---|
| Pool controller (`internal/orchestrator/controller.go`) | `state`, `queue`, `globalMaxRunners`, `provisionMu` | Boot, Reconcile, Reload, HandleContainerEvent, CheckHungRunners, GracefulShutdown, ImmediateShutdown, Pause, Resume, TerminateRunner | Reconciler, engine, database, Git providers, task exit handler | one writer; quota and caps hold at the spawn, not only at the check; pools converge; shutdown ends and is final |
| Reconciler (`auditor.go`) | `tracked`: pool -> ID -> status with busy and on-demand flags | Audit, RebuildState, TrackRunner, UntrackRunner, MarkRunnerBusy | engine listing, controller | the view misses no running container and keeps no ghost |
| Webhook scaling (`webhook_scaling.go`) | none of its own | HandleWorkflowJob, pool matching | controller, webhook receiver | capacity re-checked under the lock; the best matching pool is chosen |
| Container engine client (`docker/docker.go`) | Docker client, health | spawn, TerminateRunner, AuditRunners, Events, health monitor | Docker daemon | a failed start leaves no container; termination is idempotent |
| Event listener and deduplicator (`events.go`) | reaped IDs with a TTL | Listen (with reconnect), ShouldReap | engine events, controller | an exit is handled once |
| Engine health tracker (`degraded.go`) | when failures began, whether the alert was raised | RecordFailure, RecordSuccess, CanSpawn, the monitor's ping | engine client | an outage is alerted to, and spawning resumes after it |
| Renovate executor (`internal/renovate/executor.go`) | `renovate_runs` rows | Execute, HandleContainerExit | scheduler, controller events, engine, database | a run never stays `running` for ever |
| Cron scheduler (`internal/cron`) | job entries, running flags, wake-up token | RegisterJob, UnregisterJob, SyncFromDB, Start, Stop | clock, Renovate executor | a due job fires; the running flag is exact; Stop waits for every task |
| Rate-limit transport (`internal/provider/ratelimit.go`) | attempts of a call; per-provider tracker | RoundTrip with retries, RecordRateLimit, RecordSuccess | provider clients | bounded delays; an alert has its reason; a caller comes back |
| Provider clients (`internal/provider/{github,gitea,forgejo}`) | installation-token cache | registration tokens, deregistration, polling | Git servers | no stale token is used |
| Webhook receiver (`internal/webhook/webhook.go`) | none | headers, signature, body, acknowledge, dispatch | controller | only signed events reach the controller; busy marks follow the job |
| Registry client (`internal/registry`) | none | GetRemoteImageDigest: HEAD, token challenge, GET | registries | the digest is one the tag had during the call |
| Image updates (`server/image_update.go`) | one notification per pool, pulls in progress | check, pull, flag, dismiss | engine, registry client | no notification is stuck; a check puts the list right |
| Pool and profile services (`server/pool.go`, `auth_profile.go`) | pools, targets, Renovate configurations, profiles | create, update, delete; DiscoverTargets | database, provider clients | no dangling references; a pool is what its last request asked for; discovery lists every target once |
| Sessions, administrator, onboarding (`server/auth.go`, `onboarding.go`) | administrators, sessions, settings | SetupAdmin, Login, the interceptor, onboarding status and completion | database | one administrator; no status that was never true |
| Logs, history, analytics (`server/log.go`, `analytics.go`, `orchestrator/logs.go`) | compressed log files, `job_history` | capture, live stream, pages, totals and trend | engine, controller, database | lines whole and in order; no row without its log; no row between two pages |
| HTTP server (`server/server.go`) | listener, requests in flight | middleware, probes, Start, Shutdown | daemon, services | what the drain waited for is over; the drain ends |
| Seed import and export (`db/seed.go`, commands) | `seed_imported` | import (merge, overwrite), export, the seed at boot | database, daemon | a seed is imported once; an export can be taken back |
| Database (`internal/db`) | SQLite file, snapshots | migrations, encryption, backup, retention | everything | a whole snapshot is always there; rows go before files |
| Daemon (`cmd/supervisor`) | process lifecycle | start, signal, server failure, stop | all | the scheduler and the handlers it waited for end before the database; a signal ends the process |
| Web UI (`web/`) | browser state | forms, streams | services | not modelled |

What is hard here: the controller is called from the ticker, the event
listener, webhook handlers, administrators and the signal handler, and holds
`provisionMu` in most but not all of them; `c.mu` and `Reconciler.mu` are
released between a check and its use; the engine's listing is taken before the
lock under which it is merged; events are lost while the stream reconnects;
terminations, spawns and database calls fail halfway; and a restart loses the
view, the queue and the busy flags. The services use no transactions, so any
two requests interleave statement by statement; import, retention and backup
are cut short by crashes; lists are read page by page while they change; and
clients are shared by goroutines while what they talk to throttles or goes
away. `PROJECT.json` lists each such place under
`hazards`.

## Modules

### Fleet

The containers on the host (`ctr`, `working`, `age`) and the Reconciler's view
of them (`tracked`, `busy`, `onDemand`). A runner is a container ID; its pool
is a label fixed at creation (`PoolOf`). The operators are the critical
sections of `Reconciler.mu` and the engine calls: `TrackRunner`,
`UntrackRunners`, `MarkRunnerBusy`, `MergeAudit` (the locked half of `Audit`),
`Terminate`, `SpawnRunner`, and what containers do by themselves.

`age` abstracts `time.Since(SpawnedAt)`: young, past the scale-to-zero grace
period, past the lifetime limit. A termination that fails (`stuck`) leaves the
container as it was; one that stops the container and then fails to remove it
is a `stuck` termination followed by `ContainerExit`. A failed
`ContainerStart` removes the created container, so a failed spawn leaves
nothing and is `SpawnFails`.

### PoolController

Each goroutine that calls the controller is a process with a label `pc[p]` and
records of its Go locals: `loc` (operation, container and pool at hand),
`plan` (rows loaded, pools left, `activeCount`, `needed`), `drain`
(`queueCopy`, `remaining`, `poolMap`) and `snap` (an audit's listing). `Roles`
says which operations a goroutine calls, and `lock` is `provisionMu`.

One step is one critical section of `c.mu` or `Reconciler.mu`, or one engine or
database call. So the audit is two steps (`AuditList`, `AuditMerge`), a drain
is a copy, one step per request and a store (`DrainQueue`, `DrainRequest`,
`DrainStore`), a spawn is create then track (`Spawn`, `Track`), and webhook and
event handlers check the state before they wait for the lock (`QueuedJob` then
`QueuedJobLocked`, `ContainerEvent` then `EventLock`).

| Code | Actions |
|---|---|
| `Boot` | Boot, AuditList, AuditMerge, BootLoad, then the pools |
| `Reconcile`, `Reload` | Reconcile, AuditList, AuditMerge, Reap, RefreshSettings, drain, LoadPools, DrainPool, FindHung, KillHung, HungDone, then the pools |
| `CheckHungRunners` | CheckHungRunners, LoadPools, FindHung, KillHung, HungDone |
| `reconcilePoolWithProvider` | SkipPool, PlanPool, Cull, CullDone, Fill, Spawn, Track, PoolsDone |
| `HandleContainerEvent` | ContainerEvent, EventLock, Reap, EventPool, then the pool |
| `HandleWorkflowJob` | QueuedJob, QueuedJobLocked, Spawn, Track; JobProgress, MarkBusy |
| `drainQueue` | DrainQueue, DrainRequest, Spawn, Track, DrainStore |
| `GracefulShutdown` | GracefulShutdown, ShutdownIdle, ShutdownClean, ShutdownPoll (audit and reap), ShutdownCheck, ShutdownTimeout |
| `ImmediateShutdown`, `Pause`, `Resume`, `TerminateRunner`, end of `Start` | ImmediateShutdown, Pause, Resume, ManualTerminate, StartCancelled |
| restart of the process | Crash |

`World` selects what may go wrong or happen outside: container exits and
disappearances, ageing, jobs, manual terminations, pauses, database edits, a
cancelled loop, crashes, and failures of terminations, spawns, audits and
database reads. `BootFirst` says whether other callers wait until `Boot` has
returned; nothing in the controller enforces it.

Abstracted: registration tokens, container names, environment and image;
round-robin over a pool's targets; provider-side deregistration; log capture
and `job_history` rows, which the controller writes and never reads; the
heartbeat. A `HandleContainerEvent` for a Renovate task container is not part
of this module.

### Scheduler

`internal/cron/scheduler.go`. Job entries are objects: a task goroutine keeps a
pointer to the entry it was started for, and a later `RegisterJob` of the pool
replaces the entry while the task runs. `task[s].own` says whether the entry is
still the registered one. Each critical section of `Scheduler.mu` is a step:
`RegisterJob`, `UnregisterJob`, `SyncFromDB` (before `Start`, as the daemon
calls it), `Start`, `LoopPlan` (earliest fire time), `LoopWake`, `LoopFire` (the
locked half of `fireDueJobs`), `LoopLaunch` (its unlocked half, goroutine by
goroutine), `LoopExit`, `TaskReturns`, `Cancel` (the signal), and `Stop` with its
two waits (`StopLoopDone`, `StopReturns`).

Time is a bounded clock and a schedule is the set of its fire times; the
parser of cron expressions is a library's. The missed-fire policy is
`MissedFirePolicyRunImmediately`, which `SyncFromDB` always passes.

### RenovateRuns

A run from trigger to history: `Execute` call by call (`GetToken`,
`CreateRenovateRun`, `SpawnTask`, `RecordContainer`), entered by a cron task
without any check (`CronTask`) or by `TriggerRenovateRun` after its look at the
latest row; the task containers; the event stream with its breaks; `Receive` and
`ShouldReap` of the listener; and `HandleContainerEvent`, which completes the
run and removes the container, or drops the event because the controller is
paused or a call failed. The pool controller appears only as `AuditReaps`: its
audit lists task containers too, because they carry the same label.

Any call may fail in any step, since the context of a cron task or of a request
may be done. `missed` is a history variable: the containers of which an event
was lost or not acted upon. The properties are stated relative to it, so they
say that a missed event is the only thing that can make the history wrong.

### ProviderClient

A goroutine that needs a registration token makes a chain of calls to a
provider that throttles: `findInstallationID` asks up to three endpoints, a token
is minted and cached, and then used. Each call is a `RoundTrip` of
`RateLimitTransport` under the timeout of the http client: `Send`, the arrival of
an answer (`Answered`, `Limited`) or none (`Unreachable`), its record in the tracker
under `t.mu` some time later (`Answer`, `BackOff`), the end of a back-off (`Wake`) and
the timeout (`Expire`), which runs across all attempts. `GetRegistrationToken` begins the
chain. Every resolution of an auth profile builds a new client, so the token
cache is one caller's; the `RateLimitTracker` is the process's.

Time passes in ticks (`Tick`). Every instant is kept as the ticks left until it
or gone since it, so runs of any length are covered. `Headers` is what the server
may ask for. `healthy` is history: the time since the last answer that was no rate
limit. `RetryAfter` is the same specification with `barred`, what is left of the
delays asked for.

### EngineClient

`docker.go` and `degraded.go`: a spawn call by call (`Spawn`, `ListNetworks`,
`CreateNetwork`, `ListAgain` after a conflict, `CreateContainer`,
`StartContainer`, `RemoveUnstarted`), a termination (`Terminate`,
`StopContainer`, `ForceRemove`, `RemoveContainer`), and the monitor (`Ping`, then
`CheckHealth` records what it said). The engine goes and comes between any two
calls; it refuses connections (`away`) or takes them and does not answer
(`hung`), in which case the monitor's ping, which has no deadline, does not return.
The answer of a call that was carried out may be lost. A spawn also fails when its
pool's limits cannot be parsed, which nothing checked before. `Spawners` and
`Killers` are goroutines.

### Registry

`GetRemoteImageDigest`: HEAD, at most one token challenge and a second HEAD, and
a GET whose body is hashed if the header with the digest is missing. `Hash` is
the digest of the version, or of a cut body that no tag ever named if the manifest
is one of those beyond 4 MiB (`Oversized`). The tag moves at any moment (`Push`), and
any answer may be an error.

### Discovery

`DiscoverTargets` and the clients' lists: installations page by page, for each a
token (`MintToken`) and its repositories page by page, or one list of a user. The
lists are ordered by update; `Touch` moves an entry to the front, `Appear` and
`Disappear` change them, all between two pages. A server gives pages of the size
asked for (`PageOf`); one that gives fewer ends the walk after its first page.

### Forges

The clients of Gitea and Forgejo in one pass of `reconcilePoolWithProvider` over
one pool: the poll of each target (`PollQueuedJobs`), the token of the target
that gets a runner (`GetForgeToken`, `ExecuteTokenRequest`), the parsing of target
URLs as the code does it, and the base URL, which is pinned by the first call.
`Waiting` has the statuses of an instance's tasks, empty ones included, which the
code counts as waiting; an answer of an unknown form counts 0 and is no error.

### Clients

Puts ProviderClient, EngineClient, Registry, Discovery and Forges side by side.
They share no state; `mix` chooses one per behaviour.

### Tables, Seed, Backups, Logs, History, Records

`Tables` has the SQL statements the others use, as operators on one record of
tables with the schema's constraints.

`Seed` is `ImportSeedConfig` (validation, credentials, settings, profiles, pools,
one transaction), the mark after it, `checkAndImportSeed` at boot (`BootStarts`,
`ReadSeedImported`, `CountPools`, `CountProfiles`, `BootImports`, `BootMarks`), the
import command, and the export query by query, while an administrator creates,
changes and deletes profiles and pools. `Validate` has the import's checks of
profiles and pools, among them the image and labels that the services ask nobody
for; `ReadSeedImported` may fail, which the code takes for a missing mark.
Any process may be killed between two statements.

`Backups` is `Snapshot` of the daemon's loop and of the command: the name is the
second, an old file of that name is removed, `VACUUM INTO` writes under the final
name, and the prune lists and then removes file by file.

`Logs` is what is done to a container's output: demultiplexing by
`lineCollector`s, the first timestamp of a line cut off and to seconds, those of
its later frames left in the text, the stable sort, and the live stream's
frame-by-frame reading, which keeps fractions of seconds. `History` has the log files, `job_history`, the
controller's two steps with a hung runner, the retention's two steps, a client
that pages, and the two queries of the dashboard, with crashes.

`Records` composes them with RenovateRuns; `mix` chooses the subsystem, and for
the history who is looked at (writers, a paging client, the dashboard, or every
output of a container once).

### TaskGroup, HTTPServer, Daemon

`TaskGroup` is the abstract specification of what a scheduler promises about its
tasks: they begin while it is open, it drains when no more begin, it closes when
the last has ended, and it does close. `Scheduler` implements it
(`KeepsTaskGroup`): a slot is busy from the moment `fireDueJobs` marks it, the
group drains when `Stop` has seen the loop end, and is closed when it returns.

`HTTPServer` is what the middleware lets in, the requests in flight, and the
listener, which may fail to bind, break later, and be drained or closed; streams do
not end by themselves. The probes keep nothing and are requests like others.
`Daemon` is `runDaemonContext` with
every error path: open, seed, clients, `SyncFromDB`, `Start`, serve, `select`,
`Shutdown` with its deadline, and the deferred calls in their order, over the
whole of `Scheduler`. `mix` is the life of a daemon, or a daemon that is up and
whose scheduler runs longer.

### Administration, ImageUpdates, Sessions, Webhooks, Services

`Administration` has the tables of pools, targets, Renovate configurations and
profiles, and the requests that write them, one SQL statement per step, because
the services use no transaction:

| Code | Actions |
|---|---|
| `CreatePool` | CreatePool, CreateRenovateConfig, AddPoolTarget per target, PoolWritten |
| `UpdatePool` | UpdatePool (the look-up), UpdateRunnerPool, UpdateRenovateConfig, CreateRenovateConfig, ClearTargets, AddPoolTarget per target, PoolWritten |
| `DeletePool` | DeletePool (the look-up), DeleteTargets, DeleteRunnerPool |
| `CreateAuthProfile` | CreateAuthProfile |
| `DeleteAuthProfile` | DeleteAuthProfile (the look-up), ListRunnerPools, DeleteProfileRow |

Every statement may fail; where the code ignores the error the handler goes on.
The guards `ProfileExists`, `DeleteAllowed` and `rows[p] # None`, and `Cascade`, are the
schema's foreign keys and unique indexes (migrations 001 and 003, with
`PRAGMA foreign_keys` on). `Requests` are payloads that pass `validatePoolInput`. The
history variables `asked` and `damaged` hold what the last writer of a pool's row
wanted, and whether requests overlapped on the pool or an ignored statement
failed; `WrittenAsAsked` is stated relative to them, so it says that those are
the only two ways for a pool to end up different from its last request.

`ImageUpdates` is the notification of one pool: a check reads the local and the
remote digest without the lock and applies them under it (`ReadLocal`,
`ReadRemote`, `ApplyCheck`), a pull marks the entry, runs in the background and
ends with or without an error (`PullImage`, `StoreImage`, `PullSucceeds`,
`PullFails`), and an administrator dismisses it. A digest is a version number.
`wired` has the options the server was given: without a registry the remote
digest is the image's reference, without an inspector there is no local one, and
without a puller a pull does nothing. The daemon of this commit sets none of them.

`Sessions` has administrators, sessions and onboarding, statement by statement:
`SetupAdmin` (the count; the password is hashed between the two), `CreateAdminUser`,
`CreateSession`, `Login`, the interceptor (`Protected`, `Handle`),
`CompleteOnboarding`, `SetCompleted`, and the reads of `GetOnboardingStatus`
(`CountRunnerPools`, `ReadSetting`, `AnswerStatus`). Tokens are numbers, expire, and
are never revoked. `raced`, `told` and the field `true` of a status request are
history.

`Webhooks` has the receiver (`Answer` is the status of a request, refused in the
code's order), the choice of a pool for a queued job
(`MatchPoolForEventWithTargets` over normalized URLs and labels), and a runner's
job whose deliveries are repeated, overtake each other and meet a controller that
is paused. A delivery is handled in two steps, the look at the controller's state
(`Deliver`) and the mark under the reconciler's lock (`MarkRunnerBusy`), between
which handlers overtake each other. A signature is good, bad or missing; strangers
have no good one. A URL is a scheme, segments and the suffix it was written with.

`Services` puts the four side by side; the image service reads whether a pool
exists and nothing else. `mix` chooses which services a behaviour uses, so that
TLC does not multiply parts that share no state; the course of a job and the
choice of a pool, which share only the pause, are two such parts.

## Runs

| Run | Specification | What TLC shows |
|---|---|---|
| `steady` | PoolController | types; one writer (`SingleWriter`); the host never runs more than the quota (`AbsoluteMaximum`); no running container is missing from a rebuilt view (`NoOrphans`) |
| `scaling` | PoolController | with culling, polling, ageing, a lowered quota and failing spawns, the cap and the quota that were checked still hold at the spawn (`CapCheckHolds`, `QuotaCheckHolds`) |
| `shutdown` | PoolController, fair | a shutdown that began ends (`ShutdownEnds`), a stopped controller stays stopped (`StoppedStays`) |
| `convergence` | PoolController, fair | view and host come together (`ViewConverges`), pools are replenished (`Replenished`), deleted pools drained (`RemovedPoolDrains`) |
| `cron` | Daemon, fair | no due job is passed over (`DueJobFires`), the running flag is exact (`RunningFlagExact`), the scheduler implements the task group (`KeepsTaskGroup`), no task and no handler that was waited for is left when the database is closed (`OpenWhileUsed`), a signal ends the daemon (`DaemonExits`) |
| `renovate` | Records, fair | a success is a clean exit (`OutcomeTruthful`), a recorded run ends (`RecordedRunEnds`), a seed is imported once (`SeedOnce`), an undisturbed export can be merged back exactly if its pools have images and labels (`RoundTrip`), a whole snapshot is kept (`GoodBackupKept`), a row has its log (`RowsHaveLogs`), pages and trend are complete (`AnalyticsComplete`), log lines keep their order (`LogsInOrder`) |
| `throttle` | Clients, fair | no expired token is sent (`TokenValidWhenSent`), an alert has its reason (`AlertJustified`), every caller comes back (`CallerReturns`), spawns do not disturb each other (`SpawnUndisturbed`), nothing is left of a failed spawn or a termination (`NothingLeftBehind`), outages in which the engine refuses connections are noticed and forgotten (`OutageNoticed`), digests are of the call (`DigestOfCall`), targets are discovered once (`DiscoveredOnce`), a pool asks its own forge (`AsksOwnForge`) |
| `services` | Services | no dangling reference (`References`), a pool is as its last request asked (`WrittenAsAsked`), one administrator (`OneAdministrator`), a status that was true (`CompleteWasTrue`), the most specific pool that covers the job's repository (`MostSpecificPool`), busy marks follow the job (`BusyTruthful`), a check puts the list right (`CheckIsRight`) |
| `lost_request` | violation | a webhook's request is erased by `drainQueue` |
| `stop_race` | violation | a webhook starts a container of a stopped controller |
| `restart_quota` | violation | Boot after a failed audit doubles the fleet |
| `retry_after` | violation | a throttled caller asks the next endpoint before the delay is over |

The four violations are disagreements between the code and what the
repository says of it; `findings` in `PROJECT.json` quotes both sides.

Many properties name their exceptions: two set-ups that counted together, two
snapshots of one second, a log captured twice, an export during which somebody
wrote, a mark of the seed that could not be read. Those are what the code really does in these cases; each such property
says that there is no other way to get there. The type invariants of `Daemon`,
`Records` and `Clients` are stated for the reader and are not among the runs'
properties; those of PoolController, ProviderClient, Services and Daemon are proved.

### Other disagreements seen while modelling

These have no run of their own; `hazards` in `PROJECT.json` lists most of them.

- `Boot` provisions without `provisionMu` and ends by setting the state to
  running, so a shutdown during `Boot` is undone (`controller.go:272`, `:279`).
  The other runs exclude it with `BootFirst`.
- In pools that poll instead of using webhooks nothing marks a runner busy, so
  a graceful shutdown and a drain terminate runners with a job
  (`controller.go:611`, `:928`).
- `reapContainer` calls `drainQueue` during a graceful shutdown, which may
  start runners (`controller.go:671`).
- A graceful shutdown terminates the idle runners under the read lock and
  forgets the ones that are idle when it takes the write lock: a `completed`
  delivery between the two leaves a runner that is neither terminated nor
  tracked (`controller.go:606`, `:622`). The next audit finds it again.
- A container whose termination fails is untracked all the same
  (`controller.go:520`) and comes back with the next audit.
- A Renovate container that ends before its ID is recorded leaves its run
  `running`, and every later manual trigger is refused; so does a missed event.
- `TriggerRenovateRun` checks and then acts, and cron tasks do not check, so two
  runs of one pool may overlap; registering a job again while its task runs has
  the same effect.
- No caller of `NewRateLimitTracker` sets an alert handler, so a persistent rate
  limit is recorded and never shown; and because every resolution of a profile
  builds a client, a cached installation token is seldom used twice.
- Two overlapping `UpdatePool` requests leave the targets of both, and the
  Renovate configuration of either; a statement that fails after the first is
  ignored and the request answered with success (`pool.go:324`, `:340`, `:442`).
- A check that read its digests before a pull ended flags an update that is
  installed; a pull that ends deletes a notification recorded for a version
  pushed after the pull began (`image_update.go:166`, `:275`).
- Two `SetupAdmin` requests that count before either writes create two
  administrators, if their names differ (`auth.go:244`).
- A schedule edited in the UI is stored and not given to the scheduler: it holds
  from the next start of the daemon (`pool.go:411`).
- A paused controller drops deliveries that mark runners busy or idle, and a
  delivery of `in_progress` after `completed` marks a runner busy for good
  (`webhook_scaling.go:233`, `:338`).
- The 202 of a webhook stays in the response's buffer until the handler has
  waited for `provisionMu` and spawned (`webhook.go:287`), so a provider may give
  up and deliver again; nothing remembers delivery IDs.
- Only a runner over its lifetime gets a row in `job_history`; the logs of the
  others have no row, and the retention never removes them (`controller.go:510`).
- A snapshot that is under way or was cut short looks like any other and counts
  among those the prune keeps; of two in one second the second removes the
  first (`backup.go:70`, `:100`).
- Labels that are no JSON array are exported as one label (`seed.go:538`).
- `CreatePool` and `UpdatePool` store a pool without an image or labels, the export
  writes it, and `Validate` refuses the file (`seed.go:156`), although
  `docs/02-architecture-design.md:197` calls YAML a format for backup.
- The monitor's ping has no deadline, so an engine that takes connections and does
  not answer stops the monitor, and no alert is raised (`docker.go:633`), although
  `docker.go:609` says that it "raises alerts if down > 5m".
- `NormalizeRepositoryURL` cuts `.git` before it lowers the letters, so a target that
  ends in `.GIT` fits no job, although its comment says that both are done
  (`webhook_scaling.go:15`, `:32`).
- The daemon gives the server neither a registry nor an inspector, and every image
  check then notifies, also of an image that is up to date (`image_update.go:159`).
- An error of the read of `seed_imported` is taken for a missing row, so the boot
  may look at the seed again (`seed.go:168`); an error of a retention setting falls
  back to the default (`retention.go:50`, `:57`).
- A container's output is asked for with timestamps, one per frame; a line of
  several frames keeps those of the later ones in its text (`logs.go:169`).
- A name of a repository or owner fits the end of a target on any host, so a job
  of one forge may take a runner of a namesake on another (`webhook_scaling.go:153`, `:174`).
- A pool's CPU and memory limits are validated by nobody before the spawn, which
  then fails each time (`docker.go:281`).
- A manifest of more than 4 MiB is cut and hashed all the same, and the digest is
  none that a tag has (`registry/client.go:216`).
- An answer of a forge that is neither of the forms the client knows counts as no
  queued job (`forgejo.go:243`).
- `Peek(8)` at the end of a plain stream drops a last line of fewer than eight
  bytes (`log.go:86`).
- Errors inside the progress messages of a pull are not looked at, so a failed
  pull counts as a success (`docker.go:712`); the next check flags the update
  again.
- The base URL of a Gitea or Forgejo client is that of the first target it is
  used for, so a pool with targets on two instances asks one for both
  (`forgejo.go:119`); and an instance that caps the page size below what is asked
  for ends discovery after one page (`forgejo.go:408`).
- Three kinds of work may go on over the closed database, because nobody waits for
  them: the backup and retention goroutines (`daemon.go:82`), handlers of which
  `Shutdown` gave up waiting, and the background goroutine of an image pull, whose
  context nobody cancels (`image_update.go:234`). A manual Renovate run is part of
  its handler and is waited for like one.
- At this commit the daemon starts the scheduler, the services and the
  Renovate executor, but not the pool controller, the event listener, the
  webhook receiver or the health monitor: those are modelled from their code
  and tests.

## Bounds

- PoolController: two pools, three container IDs (two of one pool, so that a
  replacement, a cull and a cap of two are possible), a quota of one or two,
  queues of one or two requests, two to three goroutines. A container that is
  gone frees its ID, so the number of containers over time is not bounded.
  Every race between two goroutines and the environment occurs; races that need
  four goroutines do not.
- Scheduler: one pool, because entries of different pools share nothing but the
  wake-up token and the timer, whose minimum is over one entry; three tasks, so
  that a replaced entry can be replaced again while its task runs; a clock of
  three ticks with a schedule that fires at every tick and one that fires once.
- RenovateRuns: one pool, one cron task and one caller, two containers, two rows.
- ProviderClient: two goroutines, because a third only repeats what a second can
  record in the tracker; two endpoints and one retry; a timeout of two ticks and a
  token life of four, so that a token can expire between two uses; an alert after
  one tick; a server that asks for no delay, or for one that outlasts the timeout.
  `retry_after` has the third endpoint and a delay beyond the cap.
- Records: one cron task, one caller and two rows of Renovate; a seed file and an
  administrator's requests that differ in profile, target, image and labels, two
  rows of each table; two writers of
  snapshots, a retention of two and four seconds, so that the prune removes one;
  two runners, two days, three jobs and a page of one row, so that a client reads
  several pages; every output of up to three frames over two streams, with
  timestamps that are missing, equal or different and lines cut or whole.
- Daemon: one of the two loops, since they have the same states; a request of
  every path with and without an origin, one call and one stream in flight.
- Clients: two spawners and two killers, because network and containers are raced
  on pairwise; a threshold of two ticks; two lookups of a tag with three pushes, one of a manifest that is too large;
  two accounts, pages of two entries, two pages and two changes of the lists;
  seven forge pools (both scopes, spellings, configured and pinned base URLs, two
  instances), tasks with and without a status, and the four forms of an answer, one
  of them unknown to the client.
- Services: two clients with two names and passwords, two tokens that live for one
  tick; five lists of pools with every scope and form of labels, namesakes and
  spellings, five queued jobs, two copies of a delivery, requests of strangers
  with every provider, kind of body and wrong signature; servers with all, some and
  none of their options; three handlers (an update, a deletion and a profile deletion at once),
  one pool ID (an ID is never used again, so pools do not meet), two profiles,
  three payloads that differ in every field the code distinguishes; two checks,
  two pulls, two versions, three notifications.

## Fairness

- Every goroutine of the controller that has begun an operation takes its next
  step if it can (`WF`), and gets `provisionMu` if it is released again and
  again (`SF`: a Go mutex does not starve its waiters). The loop reconciles
  again and again because it is driven by a ticker. Nothing is assumed of
  webhooks, administrators or events.
- In `convergence` the engine answers: no failing terminations or audits there,
  because a failure that persists for ever prevents convergence in any code.
  Lost events are allowed.
- In `cron` the loop, the tasks and the caller of `Stop` run. `select` picks among
  ready channels at random, hence `SF` for the timer and for the exit.
  The goroutine of `runDaemonContext` runs (`WF`); the client of a stream need not
  go away.
- In `renovate` the listener and the goroutines in `Execute` run, and a Renovate
  process ends. The stream may break for ever.
- In `throttle` time passes, timers fire and goroutines run; a server need not
  answer. The monitor pings and records (`WF`); a ping returns unless the engine
  hangs, because the step is not enabled then. Time passes for the engine although
  pings interleave with it (`SF`). `services` has no liveness property.

## Proofs

Every theorem holds for every value of the constants that satisfies the named
assumptions: any number of goroutines, pools, containers, requests, retries and
faults, files of any content, lists and outputs of any length. Each proof module
states its inductive invariants at the top of the part that proves them; TLC
checked them on an instance before they were proved. Every safety property of a
passing run is stated by a theorem.

### Induction

What a fold, a sort or a list of pages computes is settled by induction over its
data. The library's induction theorems take an operator as a parameter, which the
provers cannot instantiate, so `Induction` states induction with sets instead, for
the other proof modules:

- `LeastNumber` and `NatSet`: a set of numbers has a least element, and one that has 0
  and with n also n + 1 has them all. An induction of the other modules defines
  the set of the numbers for which its claim holds.
- `FoldExists` and `RecursionExists`: the function that a fold over a finite set, or a
  recursion along an interval, computes does exist. A `FoldSet` or `FoldLeft` of the
  model is a `CHOOSE` of such a function, of which nothing is known without this.
- `Ranks`: in a finite ordered set the number of elements below tells elements apart
  and takes every value up to the size. This is what a sort and an `OFFSET` rest on.
- `EnumerationsAgree`, `EnumerateMore`: a finite set of numbers has one ascending list, and what
  a greater number adds to it.

### PoolControllerProofs

| theorem | statement | needs |
|---|---|---|
| `Invariance`, `TypeCorrect` | `[]IInv`, `[]TypeOK` | |
| `OneWriter` | `[]SingleWriter` | `BootFirst` |
| `QuotaRespected` | `[]QuotaCheckHolds` | `BootFirst` |
| `StoppedIsFinal` | `StoppedStays`, an action property | `BootFirst` |
| `CapRespected` | `[]CapCheckHolds` | `BootFirst` |
| `NothingOrphaned` | `[]NoOrphans` | `Dependable` |
| `MaximumRespected` | `[]AbsoluteMaximum` | `Dependable`, no edit of the quota |

`TypeOK` alone is not inductive: a step uses the row, the container or the
counter that an earlier step left in the goroutine's locals, so a proof must
know what the locals hold at each label. `IInv` adds to `TypeOK`

- `ControlOK(p)` and `PlanOK(p)`: which locals of goroutine p are defined at its
  label, and that the pool it plans has a row and its counts are in range;
- `LockInv`: a goroutine is at a label inside an operation under `provisionMu`
  exactly if it holds the mutex;
- `BootInv`: until `Boot` has returned nobody else has begun.

The proof has one lemma per action (`...Keeps`), over a lemma that reduces a step
of one goroutine to what it does to that goroutine, the lock and the fleet
(`StepPreserves`). `SingleWriter` follows from `LockInv` and `BootInv`.
`QuotaCheckHolds` follows because every action that can raise the number of
active runners in the view happens under `provisionMu`, or only lowers it.

On top of `IInv`:

- `BootState`: a controller is `stopped` when its `Boot` begins and `booting`
  until it ends. `Boot` writes `running` without looking at the state; with
  `BootState` that write never meets a controller that somebody stopped.
- `CapInv` (`RefillOK`, `CapOK`): `activeCount` is counted once per refill and
  incremented by hand, so it is compared with the view at every label of the
  refill: it covers every tracked runner of the pool that is not about to be
  drained. Whatever raises the view, a merged audit or a spawn, happens under
  `provisionMu` and so never between the count and the spawn of somebody else.
- `ViewInv`: what executes on the host is tracked, or its goroutine is about to
  track it (`Recorded`), or `Boot` has not merged its first audit yet; and the
  snapshot of an audit that is about to be merged has everything that executes.
  The last part is why a merge loses nothing: `provisionMu` keeps every spawn out
  between the list and the merge, and `OneWriter` is what the proof uses there.
- `QuotaInv`: `AbsoluteMaximum` while the quota is its first value. With `ViewInv`
  the active runners of the view are what executes, so `QuotaCheckHolds` speaks
  of the host.

`Dependable` asks for what the code needs: a controller that has a `Boot`, which
returns before anybody calls it, no audit and no termination that fails, and
no graceful shutdown. The last three are not for the proof's convenience: TLC
finds `NoOrphans` violated on the instance of `steady` when audits may fail
(after a restart the view stays empty, `controller.go:246`), when terminations may
fail (what still executes is untracked, `controller.go:520`), and, with two
webhook deliveries in flight, when the controller may shut down gracefully: it
terminates the idle runners under the read lock and forgets, under the write
lock, those that are idle *then* (`controller.go:606`, `:622`), so a `completed`
delivery between the two makes it forget a runner that it did not terminate. The
instances of the runs have one delivery at a time, where this cannot happen; it
was found because the invariant would not go through that step.
`MaximumRespected` also asks that no edit changes the quota, since lowering it
terminates nothing. The run `restart_quota` is what becomes of `AbsoluteMaximum`
when the audit of a restart fails.

### ClientsProofs

Its first part is about `ProviderClient` alone: `TypeCorrect`, `TokensValid`
(`[]TokenValidWhenSent`) and `AlertsJustified`. Its `IInv` adds to the types that the
token of a caller that will use it outlives what is left of the call's timeout,
that a caller sleeps only with a retry left (`Sound`), and that the tracker has
been limited no longer than the provider has answered nothing else, unless a
goroutine has an answer in hand whose record clears it (`TrackerInv`): an answer
and its record are two steps. The rest is about the composition:

- `ClientsImplementProvider`: a behaviour of `Clients` is one of
  `ProviderClient`, so the three theorems above hold of it.
- `SpawnsUndisturbed`, `NothingIsLeftBehind`, `OutagesJustified`, from `EngineInv`: what
  a spawning goroutine knows of its container at each call (`SpawnInv`), what a
  terminating one has achieved (`KillInv`), and that the tracker never counts
  more than the time without a successful ping (`HealthInv`).
- `DigestsOfCall`, from `RegistryInv`: a call began when the tag named an older
  version or the present one; a digest that is none of a version comes from a
  body that was cut, so that the tag named a manifest of that size meanwhile.
- `PoolsAskTheirForge` (`[]AsksOwnForge`): a request carries the registration token of its
  own target, and what is polled is what waits for the pool's targets. `ForgeInv`
  says for a plain pool that the client's base URL is that of all its targets
  once it is set, which is what makes the URL built from it right. `CountInv`
  compares the sum of the answers so far with the tasks of the targets polled
  so far, a set of pairs, so that no task is counted for two targets.
- `TargetsDiscovered` (`[]DiscoveredOnce`), from `DiscoveryInv`: an entry that was there when
  the request began and was left alone since has been found, or is on a page that
  is still to be read: the next page of the list at hand or a later one
  (`Ahead`), or the list of an account whose installation is still to be read or
  worked through (`AccountAhead`). It is inductive because `Touch` and `Appear` only push
  an entry that was left alone towards later pages; a `Disappear` pulls entries
  to earlier ones, and the property excludes it (`cut`).

### ServicesProofs, SessionsProofs, WebhooksProofs

`ServicesProofs` proves `TypeCorrect`, `ReferencesHold` (`[]References`),
`WritesAsAsked` (`[]WrittenAsAsked`), `PullsEnd` (`[]NoStuckPull`), `ChecksAreRight`
(`CheckIsRight`, an action property), `AdministratorUnique`, `SetupIsHonest`,
`StatusWasTrue`, `OnboardingNeedsAdmin`, `BusyMarkTruthful` and `JobsFindTheirPool`
(`[]MostSpecificPool`). Its invariant is the conjunction of one per service
(`ServicesInv`).

`References` is not inductive: a handler between two statements writes targets and
configurations of the pool it remembers, so `AdminInv` adds what a handler knows at
each statement (`HandlerOK`). `WriteInv` relates the tables to the request last asked
for: unless requests overlapped or a statement failed, at most one handler
is writing a pool, and what it has still to write is exactly what the
tables lack (`Stage`). The proof has one lemma for each kind of write of the tables
and one for each way a handler goes on, and one case per action over them.
`CheckIsRight` needs that the registry always has a version (`ImageInv`), so that an
image that was never pulled is not taken for the newest one, and what a check
reads without a registry or an inspector (`ChecksRead`, `LocalRead`).

`SessionsProofs` proves `SessionInv` of `Sessions`. A status request has read what
may have changed since, so `CallOK` says what each of its reads implies now or for
its history field (administrators are only added, so what was read of them stays
true); `OwedTo` says that a client told of success, a session and a finished
onboarding have their administrator; `Single` says that without a race nobody is
about to create an administrator where there is one. `WebhooksProofs` proves
`WebhookInv` of `Webhooks`: `BusyTruthful` with the fact that nothing is under way, in
flight or in a handler, of what has not happened, and `MostSpecificPool`. `ServicesProofs` lifts both to `Services`.

`MostSpecificPool` is about a loop over pools and targets that keeps the best score
so far. One more pair keeps it the first of the greatest score among those seen, or
nothing if none matches (`BetterStep`), by induction for a list of any length
(`BestOfAll`). The property does not speak of scores: it says which targets cover
the place the job's URLs name. `ScoreOfCover` shows that, namesakes, schemes and
`.GIT` aside, a target has the score of its scope if it covers that place and none
if it does not, and `MatchSpecific` puts the two together.

### DaemonProofs

- `DaemonInvariance`, `DaemonTypeCorrect`: `[]DaemonInv`, `[]TypeOK`.
- `RunningFlagsExact` (`[]RunningFlagExact`), from `CronInv`: the goroutine that owns an
  entry is the one its flag speaks of, and no entry has two owners (`TaskInv`);
  `StopInv` is the order of `Start`, the loop and `Stop`.
- `DatabaseOpenWhileUsed` (`[]OpenWhileUsed`), from `LifeInv`: what `runDaemonContext` has
  reached says what runs and where the listener is. The deferred `Close` is the
  last one, and `Stop` has returned before it; requests are in flight only at a
  listener that listens, drains or broke, and by then it no longer listens.
- `DaemonImplementsTaskGroup`: `Spec => Group!GroupSafe`, the safety part of the
  refinement of `TaskGroup`. Its liveness part is checked by `cron`.

### RecordsProofs

- `OutcomesTruthful` (`[]OutcomeTruthful`), from `RunInv`: `ExecInv` says that every `Execute` works
  on a row of its own; `EventInv` says where the exit of a container is: in
  the stream before its `destroy`, or missed, so that `destroy` is the first event
  handled only if the exit was missed; `OutcomeInv` is what follows for the rows.
- `GoodBackupsKept` (`[]GoodBackupKept`), from `BackupInv`: a file somebody is about to delete has
  `retentionCount` newer ones. It stays so under concurrent prunes, because whoever
  deletes knows of as many that are newer still; it does not under two
  snapshots of one second, which the property excludes.
- `SeededOnce` (`[]SeedOnce`) and `RowsKeepLogs` (`[]RowsHaveLogs`), from `TableInv`. `SeedInv`: where
  there is configuration and nobody is between the import and the mark,
  the mark is set, unless the daemon was interrupted there or could not read it. `LogInv`: a row whose
  log was captured once owns its file, also against the rows the retention has
  deleted and whose files it has still to remove.
- `ReadersSeeAll` (`[]AnalyticsComplete`), from `ReaderInv`. The place of a row in `ORDER BY id
  DESC` is the number of rows with a greater identifier (`Rank`). `PagerInv`: a row that
  was there when the client began was seen, is in the page at hand, or has a
  rank that is not below the next offset (`Reached`). A new row raises ranks, and the
  retention takes the last rows, because a row with a greater identifier is of
  no earlier day (`Ordered`); only a deletion that cascades takes rows from the
  middle, and the property excludes it. `StatsInv`: between the two queries of the
  dashboard the totals are still those of the tables, unless somebody wrote; the
  sum over the hours of the trend is then the number of rows.
- `LogsKeepOrder` (`[]LogsInOrder`), from `StoreInv`: a stored log is what was captured of the
  output. That the capture keeps the words of each stream line by line and in
  order, and which lines have timestamps among them, for any
  output of any number of frames, is a chain of lemmas: the prefixes of
  the collectors' buffers, the lines of one stream as the enumeration of its
  line ends, the stable sort as the ranks of a strict total order, and a stream
  whose timestamps do not decrease as a subsequence that the sort leaves alone.
- `ExportsMergeBack` (`[]RoundTrip`), from `ExportInv`: an export during which nothing was
  written can be imported exactly if every pool has an image and labels
  (`Filled`), and the merge changes only what `Kept` names. The
  proof has three parts. Statement by statement the tables stay `Good`: rows have
  their shape, names and identifiers are unique and no identifier comes back, a
  pool has its profile and at most one Renovate configuration. An export that was
  not disturbed holds what the tables hold at each of its queries
  (`Undisturbed`, `Renovating`). And of `Good` tables the import of what they hold restores
  them profile by profile (`RestoredRow`: redacted secrets are kept, but for a token
  the environment has) and pool by pool (`ResetOne`), by induction along the folds
  of the import (`ProfileSteps`, `PoolSteps`).

### Assumptions

Those of `Fleet` and `PoolController` are that the sets of containers and pools are
finite, that a container has a pool, that rows have the right shape and that
bounds are numbers. `TimeoutAssumption`: the client's timeout (30 s) is not above
the margin of its token cache (2 min), and a token lives for two timeouts.
`PowerAssumption`: powers of two are natural numbers, which the provers do not know.
`EngineAssumption`, `SchedulerAssumption` and `ImageAssumption` are about bounds, finite
sets and that a value for "none" is none of the others. `ForgeAssumption`: a pool has
at least one target, because `URL` stands in for an empty list. `WaitingAssumption`:
an instance lists tasks with a status each, perhaps an empty one. `RegistryAssumption`:
manifests that are too large are among those pushed. `ListedAssumption`: an app's installations are
accounts. `HistoryAssumption`: a captured log, even an empty one, is not a missing one,
outputs are frames, and a client may ask for any page size, zero and negative
ones included. `LogsAssumption`: the present is a time. `WebhooksAssumption`: pools and events
have the fields the parser gives them, and strangers' signatures are not good.
`SeedAssumption`: files are parsed YAML, requests have passed the services' validation,
and `Environment` has an entry, perhaps an empty one, for every profile name. Images and
labels of a request may be missing, as in the services. It has two restrictions
that the code does not enforce, and without which an export may not be importable
for other reasons: the app number of a profile is not negative (a negative one is
stored as 0, and a profile of an app without a number is refused by the next
import), and the first target of a request is not blank. `Wirings` of `ImageAssumption`
is any set of options, none included. TLC evaluates them all:
those of the controller in every run of `MCPoolController`, those of the clients
in `throttle`, of `Scheduler` in `cron`, of `History`, `Logs` and `Seed` in `renovate` and of
the services in `services`.

### Only model-checked

- Liveness and everything that needs fairness: `Replenished`,
  `RemovedPoolDrains`, `ViewConverges`, `ShutdownEnds`, `DueJobFires`, `DaemonExits`, the
  liveness of `KeepsTaskGroup`, `RecordedRunEnds`, `CallerReturns` and `OutageNoticed`.
- The four violations.

## Not modelled

`PROJECT.json` lists every component. Left out for good: the web UI, the generated
RPC code (over a quarter of the lines), configuration and log formatting, encryption
and keys, migrations, `ValidateCredentials`, the rows of `audit_logs`, which every
request writes and no decision reads, and services that only read. SQLite is
taken at its word: a statement is atomic, a transaction too. The host
configuration of containers, the parsing of image references and of cron
expressions are data, and the libraries that do part of it are external.

### Steps that are kept together

A few pairs of critical sections are one step, where the state between them is
reached otherwise or shows nothing new:

- `Reap`, `KillHung`, `Cull`, `DrainPool` and `ManualTerminate` terminate a runner and
  untrack it. In between it is tracked and its container gone, which is also the
  state after `ContainerVanish`, which `scaling` and the theorems cover.
- `QueuedJob` reads the state, matches a pool and enqueues or waits for the lock. What
  lies between matters only to a stop in that gap, which is the run `stop_race`.
- `TaskReturns` resets the running flag and counts the task off; a `Stop` in between
  waits a moment longer.

## Open ends

- An abstract specification of the fleet (runners that appear and go under a quota
  and a cap per pool) that `PoolController` implements. `QuotaRespected`, `CapRespected` and
  `OneWriter` are what its proof would use.
- A narrower `Dependable`: with at most one delivery in flight `NoOrphans` seems to
  hold of a graceful shutdown too.
