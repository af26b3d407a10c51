--------------------------- MODULE PoolController ---------------------------
(***************************************************************************)
(* The pool lifecycle controller: PoolController of                        *)
(* internal/orchestrator/controller.go and its webhook half in             *)
(* internal/orchestrator/webhook_scaling.go.                               *)
(*                                                                         *)
(* Every goroutine that calls into the controller is a process with a      *)
(* program counter and records of Go locals.  A step is one critical      *)
(* section (of c.mu or Reconciler.mu) or one call to the engine or the     *)
(* database, so steps of different goroutines interleave wherever the code *)
(* lets them.  `lock' is provisionMu.                                      *)
(***************************************************************************)
EXTENDS Fleet, Integers, Sequences

CONSTANTS
  Procs,        \* goroutines calling the controller
  None,         \* nil: nobody, no container, no row
  Roles,        \* goroutine -> the operations it calls
  PoolConfigs,  \* the runner_pools rows an administrator may store
  InitialDB,    \* the contents runner_pools may start with
  InitialMax,   \* ControllerOptions.GlobalMaxRunners
  Settings,     \* the values app_settings.total_allowed_runners takes
  MaxPolled,    \* bound on the jobs PollQueuedJobs reports
  MaxQueue,     \* no "queued" webhook arrives at a queue this long
  BootFirst,    \* TRUE: callers wait for Boot to return
  World         \* the faults and outside events that may happen

Operations == {"boot", "reconcile", "event", "webhook", "hung", "graceful",
               "immediate"}

Happenings == {"exit", "vanish", "age", "jobs", "manual", "pause", "edit",
               "cancel", "crash", "terminateFails", "spawnFails",
               "auditFails", "dbFails"}

ConfigType == [min : Nat, max : Nat, lifetime : BOOLEAN, polling : BOOLEAN]

ASSUME ControllerAssumption ==
  /\ IsFiniteSet(Procs)
  /\ None \notin Procs \cup Runners \cup Pools \cup PoolConfigs
  /\ Roles \in [Procs -> SUBSET Operations]
  /\ \A p1, p2 \in Procs :
       "boot" \in Roles[p1] /\ "boot" \in Roles[p2] => p1 = p2
  /\ PoolConfigs \subseteq ConfigType
  /\ InitialDB \subseteq [Pools -> PoolConfigs \cup {None}]
  /\ InitialMax \in Nat \ {0}
  /\ Settings \subseteq Nat \ {0}
  /\ MaxPolled \in Nat
  /\ MaxQueue \in Nat
  /\ BootFirst \in BOOLEAN
  /\ World \subseteq Happenings

VARIABLES
  state,      \* c.state
  queue,      \* c.queue: the pools of the queued ProvisionRequests
  globalMax,  \* c.globalMaxRunners
  lock,       \* holder of provisionMu
  db,         \* table runner_pools
  setting,    \* app_settings.total_allowed_runners
  pc,         \* where each goroutine is
  loc,        \* the Go locals of each goroutine:
  plan,       \*   of Reconcile and reconcilePoolWithProvider,
  drain,      \*   of drainQueue,
  snap        \*   and the listing Audit works on

ctlVars == <<state, queue, globalMax, lock>>
dbVars == <<db, setting>>
shared == <<fleetVars, ctlVars, dbVars>>
locals == <<loc, plan, drain, snap>>
vars == <<shared, pc, locals>>

States == {"stopped", "booting", "running", "paused"}
Rows == [Pools -> PoolConfigs \cup {None}]

Labels == {"idle", "boot", "ended", "eventLock", "hookLock", "mark",
           "audit", "merge", "ping", "reap", "refresh", "drain", "drainNext", "load",
           "eventPool", "drainPool", "hung", "pools", "cull", "fill",
           "spawn", "track", "sdIdle", "sdClean", "sdWait", "sdCheck"}

\* Labels a goroutine can be at without having taken provisionMu.
Outside == {"idle", "boot", "ended", "eventLock", "hookLock", "mark"}

LocalType ==
  [op     : Operations \cup {"none"},  \* the operation being executed
   ret    : Labels,                    \* where drainQueue returns to
   r      : Runners \cup {None},       \* the container at hand
   pool   : Pools \cup {None},         \* the pool at hand
   kill   : SUBSET Runners,            \* containers still to remove
   demand : BOOLEAN]                   \* onDemand, or the busy flag to set

PlanType ==
  [cfg    : Rows,                      \* the rows loadPools returned
   pools  : SUBSET Pools,              \* pools still to process
   active : Int,                       \* activeCount
   need   : Int]                       \* effectiveTarget, then needed

DrainType ==
  [taken  : Nat,                       \* len(queueCopy)
   batch  : Seq(Pools),                \* queueCopy, what is not seen yet
   rest   : Seq(Pools),                \* remaining
   rows   : Rows]                      \* poolMap

NoRows == [q \in Pools |-> None]
NoSnap == [r \in Runners |-> "none"]

Blank == [op |-> "none", ret |-> "idle", r |-> None, pool |-> None,
          kill |-> {}, demand |-> FALSE]
NoPlan == [cfg |-> NoRows, pools |-> {}, active |-> 0, need |-> 0]
NoDrain == [taken |-> 0, batch |-> <<>>, rest |-> <<>>, rows |-> NoRows]

CtlTypeOK ==
  /\ state \in States
  /\ queue \in Seq(Pools)
  /\ globalMax \in Nat \ {0}
  /\ lock \in Procs \cup {None}
  /\ db \in Rows
  /\ setting \in Settings

ProcTypeOK ==
  /\ pc \in [Procs -> Labels]
  /\ loc \in [Procs -> LocalType]
  /\ plan \in [Procs -> PlanType]
  /\ drain \in [Procs -> DrainType]
  /\ snap \in [Procs -> [Runners -> Phases]]

\* Type correctness of the containers and the view, of the controller and of
\* the goroutines; a view entry that is gone leaves no busy or onDemand flag.
TypeOK == FleetTypeOK /\ CtlTypeOK /\ ProcTypeOK

\* A supervisor process starts with an empty view; its goroutine that calls
\* Start is about to boot.
FirstLabel(p) == IF "boot" \in Roles[p] THEN "boot" ELSE "idle"
FirstLocals(p) ==
  IF "boot" \in Roles[p] THEN [Blank EXCEPT !.op = "boot"] ELSE Blank

Init ==
  /\ ctr = NoSnap
  /\ age = [r \in Runners |-> 0]
  /\ working = {}
  /\ tracked = NoSnap
  /\ busy = {}
  /\ onDemand = {}
  /\ state = "stopped"
  /\ queue = <<>>
  /\ globalMax = InitialMax
  /\ lock = None
  /\ db \in InitialDB
  /\ setting \in Settings
  /\ pc = [p \in Procs |-> FirstLabel(p)]
  /\ loc = [p \in Procs |-> FirstLocals(p)]
  /\ plan = [p \in Procs |-> NoPlan]
  /\ drain = [p \in Procs |-> NoDrain]
  /\ snap = [p \in Procs |-> NoSnap]

----------------------------------------------------------------------------
(* Reading the shared state.                                               *)

\* Variants: the limits are off by one.
SaturatedOffByOne == TotalActiveRunners > globalMax
PoolFullOffByOne(c, n) == c.max > 0 /\ n > c.max

Saturated == TotalActiveRunners >= globalMax

QueueLengthForPool(q) == Cardinality({i \in DOMAIN queue : queue[i] = q})

PoolFull(c, n) == c.max > 0 /\ n >= c.max

PoolActiveCount(q) == Cardinality(TrackedPoolRunners(q))

\* Container IDs no part of the system has seen, or has forgotten.
FreshIDs(q) ==
  {r \in Runners :
     /\ PoolOf[r] = q /\ ctr[r] = "none" /\ tracked[r] = "none"
     /\ \A p \in Procs : loc[p].r # r /\ r \notin loc[p].kill
                         /\ snap[p][r] = "none"}

Serving == state \notin {"paused", "stopped"}

\* The goroutine is free to make a call (with BootFirst: once Boot is over).
Free(p, op) ==
  /\ pc[p] = "idle"
  /\ op \in Roles[p]
  /\ BootFirst => \A b \in Procs : loc[b].op # "boot"

\* Variant: the mutex is taken without waiting for its holder.
LockAtOnce(p) == lock' = p

Lock(p) == lock = None /\ lock' = p

Goto(p, label) == pc' = [pc EXCEPT ![p] = label]

\* Done with the pool at hand of reconcilePoolWithProvider.
NextPool(p) ==
  /\ plan' = [plan EXCEPT ![p].pools = @ \ {loc[p].pool}, ![p].active = 0,
                          ![p].need = 0]
  /\ loc' = [loc EXCEPT ![p].pool = None, ![p].demand = FALSE]
  /\ Goto(p, "pools")

\* Return from the operation, running the deferred provisionMu.Unlock.
Return(p, label) ==
  /\ Goto(p, label)
  /\ loc' = [loc EXCEPT ![p] = Blank]
  /\ plan' = [plan EXCEPT ![p] = NoPlan]
  /\ lock' = IF lock = p THEN None ELSE lock

----------------------------------------------------------------------------
(* Reconciler.Audit, as called by Boot, Reconcile and GracefulShutdown.    *)

\* Where the caller goes on when its audit, and the reaping, is over.
AfterAudit(p) ==
  CASE loc[p].op = "boot" -> "ping"
    [] loc[p].op = "reconcile" -> "refresh"
    [] loc[p].op = "event" -> "eventPool"
    [] OTHER -> "sdCheck"

\* provider.AuditRunners: list the managed containers.
AuditList(p) ==
  /\ pc[p] = "audit"
  /\ \/ /\ snap' = [snap EXCEPT ![p] = ctr]
        /\ Goto(p, "merge")
     \/ /\ "auditFails" \in World
        /\ Goto(p, AfterAudit(p))
        /\ UNCHANGED snap
  /\ UNCHANGED <<shared, loc, plan, drain>>

\* report.Exited.
Exited(listing) == {r \in Runners : listing[r] = "exited"}

\* Merge the listing into the view; Boot ignores report.Exited, the others
\* reap it.
AuditMerge(p) ==
  /\ pc[p] = "merge"
  /\ MergeAudit(snap[p])
  /\ snap' = [snap EXCEPT ![p] = NoSnap]
  /\ IF loc[p].op = "boot"
       THEN Goto(p, "ping") /\ UNCHANGED loc
       ELSE /\ Goto(p, "reap")
            /\ loc' = [loc EXCEPT ![p].kill = Exited(snap[p])]
  /\ UNCHANGED <<hostVars, ctlVars, dbVars, plan, drain>>

\* The failures engine.TerminateRunner may report for the containers of S.
Stuck(S) == IF "terminateFails" \in World THEN SUBSET S ELSE {{}}

\* reapContainer: remove the container, forget it, drain the queue.
Reap(p) ==
  /\ pc[p] = "reap"
  /\ IF loc[p].kill = {}
       THEN /\ Goto(p, AfterAudit(p))
            /\ UNCHANGED <<fleetVars, loc>>
       ELSE \E r \in loc[p].kill : \E stuck \in Stuck({r}) :
              /\ Terminate({r}, stuck)
              /\ UntrackRunners({r})
              /\ loc' = [loc EXCEPT ![p].kill = @ \ {r}, ![p].ret = "reap"]
              /\ Goto(p, "drain")
  /\ UNCHANGED <<ctlVars, dbVars, plan, drain, snap>>

----------------------------------------------------------------------------
(* drainQueue.                                                             *)

\* Copy the queue under c.mu, then load the pools.
DrainQueue(p) ==
  /\ pc[p] = "drain"
  /\ \/ /\ queue # <<>>
        /\ drain' = [drain EXCEPT ![p] = [taken |-> Len(queue), batch |-> queue,
                                          rest |-> <<>>, rows |-> db]]
        /\ Goto(p, "drainNext")
     \/ /\ queue = <<>> \/ "dbFails" \in World
        /\ Goto(p, loc[p].ret)
        /\ UNCHANGED drain
  /\ UNCHANGED <<shared, loc, plan, snap>>

\* One turn of the loop over queueCopy: keep the request while the quota or
\* its pool is full, discard it if the pool is gone, else try to spawn.
DrainRequest(p) ==
  LET q == Head(drain[p].batch)
      c == drain[p].rows[q]
      Skip == drain' = [drain EXCEPT ![p].batch = Tail(@)] /\ UNCHANGED pc
      Keep == /\ drain' = [drain EXCEPT ![p].batch = Tail(@),
                                        ![p].rest = Append(@, q)]
              /\ UNCHANGED pc
  IN  /\ pc[p] = "drainNext"
      /\ drain[p].batch # <<>>
      /\ IF Saturated THEN Keep
         ELSE IF c = None THEN Skip
         ELSE IF PoolFull(c, PoolActiveCount(q)) THEN Keep
         ELSE Goto(p, "spawn") /\ UNCHANGED drain
      /\ UNCHANGED <<shared, loc, plan, snap>>

\* c.queue = remaining, under a new critical section of c.mu.
DrainStore(p) ==
  /\ pc[p] = "drainNext"
  /\ drain[p].batch = <<>>
  /\ queue' = drain[p].rest
  /\ drain' = [drain EXCEPT ![p] = NoDrain]
  /\ Goto(p, loc[p].ret)
  /\ UNCHANGED <<fleetVars, state, globalMax, lock, dbVars, loc, plan, snap>>

----------------------------------------------------------------------------
(* spawnSingleRunner, called from drainQueue, from the refill of a pool    *)
(* and from HandleWorkflowJob.  drain[p].batch is non-empty exactly in the *)
(* first, loc[p].op is "webhook" exactly in the last.                      *)

Draining(p) == drain[p].batch # <<>>
SpawnPool(p) == IF Draining(p) THEN Head(drain[p].batch) ELSE loc[p].pool
SpawnOnDemand(p) == Draining(p) \/ loc[p].demand

\* Token, container create and start yield a new container.
Spawn(p) ==
  /\ pc[p] = "spawn"
  /\ \E r \in FreshIDs(SpawnPool(p)) :
       SpawnRunner(r) /\ loc' = [loc EXCEPT ![p].r = r]
  /\ Goto(p, "track")
  /\ UNCHANGED <<viewVars, ctlVars, dbVars, plan, drain, snap>>

\* Or one of them fails: drainQueue keeps the request, the refill gives the
\* pool up, the webhook reports the error.
SpawnFails(p) ==
  /\ pc[p] = "spawn"
  /\ "spawnFails" \in World \/ FreshIDs(SpawnPool(p)) = {}
  /\ \/ /\ Draining(p)
        /\ drain' = [drain EXCEPT ![p].batch = Tail(@),
                       ![p].rest = Append(@, Head(drain[p].batch))]
        /\ Goto(p, "drainNext")
        /\ UNCHANGED <<lock, loc, plan>>
     \/ /\ ~Draining(p) /\ loc[p].op = "webhook"
        /\ Return(p, "idle")
        /\ UNCHANGED drain
     \/ /\ ~Draining(p) /\ loc[p].op # "webhook"
        /\ NextPool(p)
        /\ UNCHANGED <<lock, drain>>
  /\ UNCHANGED <<fleetVars, state, queue, globalMax, dbVars, snap>>

\* reconciler.TrackRunner, and on with the caller.
Track(p) ==
  /\ pc[p] = "track"
  /\ TrackRunner(loc[p].r, SpawnOnDemand(p))
  /\ \/ /\ Draining(p)
        /\ drain' = [drain EXCEPT ![p].batch = Tail(@)]
        /\ loc' = [loc EXCEPT ![p].r = None]
        /\ Goto(p, "drainNext")
        /\ UNCHANGED <<lock, plan>>
     \/ /\ ~Draining(p) /\ loc[p].op = "webhook"
        /\ Return(p, "idle")
        /\ UNCHANGED drain
     \/ /\ ~Draining(p) /\ loc[p].op # "webhook"
        /\ plan' = [plan EXCEPT ![p].active = @ + 1, ![p].need = @ - 1]
        /\ loc' = [loc EXCEPT ![p].r = None]
        /\ Goto(p, "fill")
        /\ UNCHANGED <<lock, drain>>
  /\ UNCHANGED <<hostVars, state, queue, globalMax, dbVars, snap>>

----------------------------------------------------------------------------
(* reconcilePoolWithProvider for each pool of plan[p].pools.               *)

Lesser(a, b) == IF a < b THEN a ELSE b
Greater(a, b) == IF a > b THEN a ELSE b

\* The idle runners scale-to-zero drains: standby ones, and on-demand ones
\* past their grace period.
Stale(S) == {r \in S : r \notin onDemand \/ age[r] > 0}

\* Variant: a max_concurrency of zero is taken for a cap.
TargetCappedAtZero(c, active, idle, polled) == Lesser(c.min, c.max)

\* effectiveTarget, given activeCount, the idle count and the polled jobs.
EffectiveTarget(c, active, idle, polled) ==
  LET wanted == IF c.polling /\ polled > idle
                  THEN Greater(c.min, active + (polled - idle)) ELSE c.min
  IN  IF c.max > 0 THEN Lesser(wanted, c.max) ELSE wanted

\* Scale-down, first pass: drain idle runners over max_concurrency.
OverCap(c, active, idle) ==
  LET excess == IF c.max > 0 THEN Greater(active - c.max, 0) ELSE 0
  IN  {S \in SUBSET idle : Cardinality(S) = Lesser(excess, Cardinality(idle))}

\* Second pass, on the idle runners left: the stale ones of a scale-to-zero
\* pool, the surplus over the target of another.
OverTarget(c, left, target) ==
  IF c.min = 0 THEN {Stale(left)}
  ELSE {T \in SUBSET left : Cardinality(T) = Greater(Cardinality(left) - target, 0)}

Victims(c, active, idle, target) ==
  UNION {{S \cup T : T \in OverTarget(c, idle \ S, target)} :
           S \in OverCap(c, active, idle)}

\* Every pool is done: Boot reports running, the others return.
PoolsDone(p) ==
  /\ pc[p] = "pools"
  /\ plan[p].pools = {}
  /\ state' = IF loc[p].op = "boot" THEN "running" ELSE state
  /\ Return(p, "idle")
  /\ UNCHANGED <<fleetVars, queue, globalMax, dbVars, drain, snap>>

\* Resolve the provider (on Boot, validate its credentials too) and load the
\* targets; a failure, or a pool without targets, skips the pool.
SkipPool(p) ==
  /\ pc[p] = "pools"
  /\ "spawnFails" \in World
  /\ \E q \in plan[p].pools : plan' = [plan EXCEPT ![p].pools = @ \ {q}]
  /\ UNCHANGED <<shared, pc, loc, drain, snap>>

\* Snapshot the pool's runners, poll, and decide what to drain.
PlanPool(p) ==
  /\ pc[p] = "pools"
  /\ \E q \in plan[p].pools, polled \in 0..MaxPolled :
       LET c == plan[p].cfg[q]
           active == PoolActiveCount(q)
           target == EffectiveTarget(c, active, Cardinality(Idle(q)), polled)
       IN  /\ polled = 0 \/ c.polling
           /\ \E V \in Victims(c, active, Idle(q), target) :
                /\ loc' = [loc EXCEPT ![p].pool = q, ![p].kill = V,
                             ![p].demand = (c.min = 0 \/ c.polling)]
                /\ plan' = [plan EXCEPT ![p].active = active - Cardinality(V),
                                        ![p].need = target]
  /\ Goto(p, "cull")
  /\ UNCHANGED <<shared, drain, snap>>

\* Terminate and untrack the chosen runners one by one.
Cull(p) ==
  /\ pc[p] = "cull"
  /\ \E r \in loc[p].kill : \E stuck \in Stuck({r}) :
       /\ Terminate({r}, stuck)
       /\ UntrackRunners({r})
       /\ loc' = [loc EXCEPT ![p].kill = @ \ {r}]
  /\ UNCHANGED <<ctlVars, dbVars, pc, plan, drain, snap>>

\* needed = effectiveTarget - (activeCount + queuedForPool).
CullDone(p) ==
  /\ pc[p] = "cull"
  /\ loc[p].kill = {}
  /\ plan' = [plan EXCEPT ![p].need =
                @ - (plan[p].active + QueueLengthForPool(loc[p].pool))]
  /\ Goto(p, "fill")
  /\ UNCHANGED <<shared, loc, drain, snap>>

\* One turn of the refill loop: stop at the target or at max_concurrency,
\* queue a request at the global quota, else spawn.
Fill(p) ==
  LET q == loc[p].pool
      done == \/ plan[p].need <= 0
              \/ PoolFull(plan[p].cfg[q], plan[p].active + QueueLengthForPool(q))
  IN  /\ pc[p] = "fill"
      /\ \/ /\ done
            /\ NextPool(p)
            /\ UNCHANGED queue
         \/ /\ ~done /\ Saturated
            /\ queue' = Append(queue, q)
            /\ plan' = [plan EXCEPT ![p].need = @ - 1]
            /\ UNCHANGED <<pc, loc>>
         \/ /\ ~done /\ ~Saturated
            /\ Goto(p, "spawn")
            /\ UNCHANGED <<queue, loc, plan>>
      /\ UNCHANGED <<fleetVars, state, globalMax, lock, dbVars, drain, snap>>

----------------------------------------------------------------------------
(* Boot.                                                                   *)

Boot(p) ==
  /\ pc[p] = "boot"
  /\ state' = "booting"
  /\ Goto(p, "audit")
  /\ UNCHANGED <<fleetVars, queue, globalMax, lock, dbVars, locals>>

\* engine.Ping and loadPools: either failing stops the controller for good.
BootLoad(p) ==
  /\ pc[p] = "ping"
  /\ \/ /\ plan' = [plan EXCEPT ![p].cfg = db,
                                ![p].pools = {q \in Pools : db[q] # None}]
        /\ Goto(p, "pools")
        /\ UNCHANGED <<state, lock, loc>>
     \/ /\ "auditFails" \in World \/ "dbFails" \in World
        /\ state' = "stopped"
        /\ Return(p, "ended")
  /\ UNCHANGED <<fleetVars, queue, globalMax, dbVars, drain, snap>>

----------------------------------------------------------------------------
(* Reconcile (a tick of Start, or Reload after an administrator's edit),   *)
(* and CheckHungRunners, which is its sixth step alone.                    *)

Reconcile(p) ==
  /\ Free(p, "reconcile")
  /\ Serving
  /\ Lock(p)
  /\ loc' = [loc EXCEPT ![p].op = "reconcile"]
  /\ Goto(p, "audit")
  /\ UNCHANGED <<fleetVars, state, queue, globalMax, dbVars, plan, drain, snap>>

CheckHungRunners(p) ==
  /\ Free(p, "hung")
  /\ Lock(p)
  /\ loc' = [loc EXCEPT ![p].op = "hung"]
  /\ Goto(p, "load")
  /\ UNCHANGED <<fleetVars, state, queue, globalMax, dbVars, plan, drain, snap>>

\* Refresh the quota from app_settings, then drain the queue.
RefreshSettings(p) ==
  /\ pc[p] = "refresh"
  /\ globalMax' \in {setting} \cup (IF "dbFails" \in World
                                      THEN {globalMax} ELSE {})
  /\ loc' = [loc EXCEPT ![p].ret = "load"]
  /\ Goto(p, "drain")
  /\ UNCHANGED <<fleetVars, state, queue, lock, dbVars, plan, drain, snap>>

\* Variant: only removed pools with busy runners are found.
RemovedBusyPools ==
  {PoolOf[r] : r \in {x \in Active \cap busy : db[PoolOf[x]] = None}}

\* The pools with tracked runners that have no row any more.
RemovedPools ==
  {PoolOf[r] : r \in {x \in Runners : tracked[x] # "none"
                                     /\ db[PoolOf[x]] = None}}

LoadPools(p) ==
  /\ pc[p] = "load"
  /\ \/ /\ plan' = [plan EXCEPT ![p].cfg = db,
                     ![p].pools = IF loc[p].op = "hung" THEN {}
                                  ELSE RemovedPools]
        /\ Goto(p, "drainPool")
        /\ UNCHANGED <<lock, loc>>
     \/ "dbFails" \in World /\ Return(p, "idle")
  /\ UNCHANGED <<fleetVars, state, queue, globalMax, dbVars, drain, snap>>

\* The queue loses its requests for pool q; the others keep their order.
DropRequests(q) ==
  LET kept == {i \in DOMAIN queue : queue[i] # q}
      n == Cardinality(kept)
  IN  \E f \in [1..n -> kept] :
        /\ \A i, j \in 1..n : i < j => f[i] < f[j]
        /\ queue' = [i \in 1..n |-> queue[f[i]]]

\* drainPool: terminate the removed pool's runners, busy ones too, and
\* delete its queued requests.
DrainPool(p) ==
  /\ pc[p] = "drainPool"
  /\ \E q \in plan[p].pools :
       LET S == TrackedPoolRunners(q)
       IN  \E stuck \in Stuck(S) :
             /\ Terminate(S, stuck)
             /\ UntrackRunners(S)
             /\ DropRequests(q)
             /\ plan' = [plan EXCEPT ![p].pools = @ \ {q}]
  /\ UNCHANGED <<state, globalMax, lock, dbVars, pc, loc, drain, snap>>

\* The tracked runners past the lifetime of their pool.
HungRunners(rows) ==
  {r \in Active : LET c == rows[PoolOf[r]]
                  IN  c # None /\ c.lifetime /\ age[r] = 2}

\* checkHungRunners: snapshot the tracked runners and the time, ...
FindHung(p) ==
  /\ pc[p] = "drainPool"
  /\ plan[p].pools = {}
  /\ loc' = [loc EXCEPT ![p].kill = HungRunners(plan[p].cfg)]
  /\ Goto(p, "hung")
  /\ UNCHANGED <<shared, plan, drain, snap>>

\* ... terminate and untrack each, and drain the queue after each.
KillHung(p) ==
  /\ pc[p] = "hung"
  /\ \E r \in loc[p].kill : \E stuck \in Stuck({r}) :
       /\ Terminate({r}, stuck)
       /\ UntrackRunners({r})
       /\ loc' = [loc EXCEPT ![p].kill = @ \ {r}, ![p].ret = "hung"]
  /\ Goto(p, "drain")
  /\ UNCHANGED <<ctlVars, dbVars, plan, drain, snap>>

\* CheckHungRunners is over; Reconcile goes on to the pools it loaded.
HungDone(p) ==
  /\ pc[p] = "hung"
  /\ loc[p].kill = {}
  /\ \/ /\ loc[p].op = "hung"
        /\ Return(p, "idle")
     \/ /\ loc[p].op # "hung"
        /\ plan' = [plan EXCEPT ![p].pools = {q \in Pools : plan[p].cfg[q] # None}]
        /\ Goto(p, "pools")
        /\ UNCHANGED <<lock, loc>>
  /\ UNCHANGED <<fleetVars, state, queue, globalMax, dbVars, drain, snap>>

----------------------------------------------------------------------------
(* HandleContainerEvent: a die or destroy event of container r.  It may    *)
(* come late, for a container the supervisor has removed meanwhile.        *)

\* The state is checked before provisionMu is taken.
ContainerEvent(p) ==
  /\ Free(p, "event")
  /\ Serving
  /\ \E r \in Runners :
       /\ ctr[r] # "running"
       /\ loc' = [loc EXCEPT ![p].op = "event", ![p].kill = {r},
                             ![p].pool = PoolOf[r]]
  /\ Goto(p, "eventLock")
  /\ UNCHANGED <<shared, plan, drain, snap>>

EventLock(p) ==
  /\ pc[p] = "eventLock"
  /\ Lock(p)
  /\ Goto(p, "reap")
  /\ UNCHANGED <<fleetVars, state, queue, globalMax, dbVars, locals>>

\* Replenish the pool of the dead container if it still has a row.
EventPool(p) ==
  LET q == loc[p].pool
  IN  /\ pc[p] = "eventPool"
      /\ \/ /\ db[q] # None
            /\ plan' = [plan EXCEPT ![p].cfg = db, ![p].pools = {q}]
            /\ Goto(p, "pools")
            /\ UNCHANGED <<lock, loc>>
         \/ /\ db[q] = None \/ "dbFails" \in World
            /\ Return(p, "idle")
      /\ UNCHANGED <<fleetVars, state, queue, globalMax, dbVars, drain, snap>>

----------------------------------------------------------------------------
(* HandleWorkflowJob.                                                      *)

\* A "queued" job matches pool q: the capacity checks made before the lock.
\* A full pool drops the event; at the quota the request is queued with c.mu
\* alone.
QueuedJob(p) ==
  /\ Free(p, "webhook")
  /\ Serving
  /\ Len(queue) < MaxQueue
  /\ \E q \in Pools :
       /\ db[q] # None
       /\ ~PoolFull(db[q], PoolActiveCount(q))
       /\ IF Saturated
            THEN queue' = Append(queue, q) /\ UNCHANGED <<pc, loc, plan>>
            ELSE /\ loc' = [loc EXCEPT ![p].op = "webhook", ![p].pool = q,
                              ![p].demand = TRUE]
                 /\ plan' = [plan EXCEPT ![p].cfg = db]
                 /\ Goto(p, "hookLock")
                 /\ UNCHANGED queue
  /\ UNCHANGED <<fleetVars, state, globalMax, lock, dbVars, drain, snap>>

\* The checks repeated under provisionMu, on the row loaded before it.
QueuedJobLocked(p) ==
  LET q == loc[p].pool
  IN  /\ pc[p] = "hookLock"
      /\ lock = None
      /\ IF PoolFull(plan[p].cfg[q], PoolActiveCount(q))
           THEN Return(p, "idle") /\ UNCHANGED queue
         ELSE IF Saturated
           THEN Return(p, "idle") /\ queue' = Append(queue, q)
         ELSE Lock(p) /\ Goto(p, "spawn") /\ UNCHANGED <<queue, loc, plan>>
      /\ UNCHANGED <<fleetVars, state, globalMax, dbVars, drain, snap>>

\* "in_progress" or "completed" names a tracked runner; the state is checked
\* first, the mark is applied later, by when the runner may have moved on.
JobProgress(p) ==
  /\ Free(p, "webhook")
  /\ "jobs" \in World
  /\ Serving
  /\ \E r \in Runners :
       /\ tracked[r] # "none"
       /\ loc' = [loc EXCEPT ![p].op = "webhook", ![p].r = r,
                             ![p].demand = r \in working]
  /\ Goto(p, "mark")
  /\ UNCHANGED <<shared, plan, drain, snap>>

MarkBusy(p) ==
  /\ pc[p] = "mark"
  /\ MarkRunnerBusy(loc[p].r, loc[p].demand)
  /\ Return(p, "idle")
  /\ UNCHANGED <<hostVars, state, queue, globalMax, dbVars, drain, snap>>

----------------------------------------------------------------------------
(* TerminateRunner, asked for by an administrator, takes no lock.  When    *)
(* the engine reports an error the entry stays, though the forced removal  *)
(* may have succeeded.                                                     *)

ManualTerminate ==
  /\ "manual" \in World
  /\ \E r \in Runners :
       /\ tracked[r] # "none"
       /\ Terminate({r}, {})
       /\ \/ UntrackRunners({r})
          \/ "terminateFails" \in World /\ UNCHANGED viewVars
  /\ UNCHANGED <<ctlVars, dbVars, pc, locals>>

----------------------------------------------------------------------------
(* GracefulShutdown and ImmediateShutdown.                                 *)

\* Variant: Pause does not look at the state.
PausedAlways == "paused"

Paused == IF state = "running" THEN "paused" ELSE state

GracefulShutdown(p) ==
  /\ Free(p, "graceful")
  /\ Lock(p)
  /\ state' = Paused
  /\ loc' = [loc EXCEPT ![p].op = "graceful"]
  /\ Goto(p, "sdIdle")
  /\ UNCHANGED <<fleetVars, queue, globalMax, dbVars, plan, drain, snap>>

\* Terminate the idle runners and count the busy ones, under a read lock.
ShutdownIdle(p) ==
  /\ pc[p] = "sdIdle"
  /\ \E stuck \in Stuck(Active \ busy) : Terminate(Active \ busy, stuck)
  /\ plan' = [plan EXCEPT ![p].need = Cardinality(Active \cap busy)]
  /\ Goto(p, "sdClean")
  /\ UNCHANGED <<viewVars, ctlVars, dbVars, loc, drain, snap>>

\* Forget the runners that are idle now, under the write lock.
ShutdownClean(p) ==
  /\ pc[p] = "sdClean"
  /\ UntrackRunners(Active \ busy)
  /\ IF plan[p].need = 0
       THEN state' = "stopped" /\ Return(p, "ended")
       ELSE Goto(p, "sdWait") /\ UNCHANGED <<state, lock, loc, plan>>
  /\ UNCHANGED <<hostVars, queue, globalMax, dbVars, drain, snap>>

\* The poll ticker: audit, reap, and look whether anything is left.
ShutdownPoll(p) ==
  /\ pc[p] = "sdWait"
  /\ Goto(p, "audit")
  /\ UNCHANGED <<shared, locals>>

ShutdownCheck(p) ==
  /\ pc[p] = "sdCheck"
  /\ IF Active = {}
       THEN state' = "stopped" /\ Return(p, "ended")
       ELSE Goto(p, "sdWait") /\ UNCHANGED <<state, lock, loc, plan>>
  /\ UNCHANGED <<fleetVars, queue, globalMax, dbVars, drain, snap>>

\* forceTerminateRemaining.
ForceTerminate ==
  \E stuck \in Stuck(Active) : Terminate(Active, stuck) /\ UntrackRunners(Active)

\* Variant: the timeout does not report stopped.
ShutdownTimeoutPaused(p) ==
  /\ pc[p] = "sdWait"
  /\ ForceTerminate
  /\ Return(p, "ended")
  /\ UNCHANGED <<state, queue, globalMax, dbVars, drain, snap>>

\* The shutdown timeout expires or its context is cancelled.
ShutdownTimeout(p) ==
  /\ pc[p] = "sdWait"
  /\ ForceTerminate
  /\ state' = "stopped"
  /\ Return(p, "ended")
  /\ UNCHANGED <<queue, globalMax, dbVars, drain, snap>>

ImmediateShutdown(p) ==
  /\ Free(p, "immediate")
  /\ lock = None
  /\ ForceTerminate
  /\ state' = "stopped"
  /\ Return(p, "ended")
  /\ UNCHANGED <<queue, globalMax, dbVars, drain, snap>>

----------------------------------------------------------------------------
(* Pause, Resume, and the world around the controller.                     *)

Pause ==
  /\ "pause" \in World
  /\ state = "running"
  /\ state' = "paused"
  /\ UNCHANGED <<fleetVars, queue, globalMax, lock, dbVars, pc, locals>>

Resume ==
  /\ "pause" \in World
  /\ state = "paused"
  /\ state' = "running"
  /\ UNCHANGED <<fleetVars, queue, globalMax, lock, dbVars, pc, locals>>

\* Start's loop sees its context done.
StartCancelled(p) ==
  /\ "cancel" \in World
  /\ "boot" \in Roles[p] /\ pc[p] = "idle"
  /\ state' = "stopped"
  /\ Goto(p, "ended")
  /\ UNCHANGED <<fleetVars, queue, globalMax, lock, dbVars, locals>>

\* The supervisor process dies and is started again: its memory is lost,
\* the containers and the database stay.
Crash ==
  /\ "crash" \in World
  /\ state' = "stopped"
  /\ queue' = <<>>
  /\ globalMax' = InitialMax
  /\ lock' = None
  /\ UntrackRunners(Runners)
  /\ pc' = [p \in Procs |-> FirstLabel(p)]
  /\ loc' = [p \in Procs |-> FirstLocals(p)]
  /\ plan' = [p \in Procs |-> NoPlan]
  /\ drain' = [p \in Procs |-> NoDrain]
  /\ snap' = [p \in Procs |-> NoSnap]
  /\ UNCHANGED <<hostVars, dbVars>>

AdminEdit ==
  /\ "edit" \in World
  /\ \/ \E q \in Pools, c \in PoolConfigs \cup {None} :
          db' = [db EXCEPT ![q] = c] /\ UNCHANGED setting
     \/ setting' \in Settings /\ UNCHANGED db
  /\ UNCHANGED <<fleetVars, ctlVars, pc, locals>>

Environment ==
  /\ \E r \in Runners :
       \/ "jobs" \in World /\ StartJob(r)
       \/ "exit" \in World /\ ContainerExit(r)
       \/ "vanish" \in World /\ ContainerVanish(r)
       \/ "age" \in World /\ GrowOlder(r)
  /\ UNCHANGED <<ctlVars, dbVars, pc, locals>>

----------------------------------------------------------------------------

\* What a goroutine does once it is inside an operation and not blocked.
Work(p) ==
  \/ Boot(p) \/ BootLoad(p)
  \/ AuditList(p) \/ AuditMerge(p) \/ Reap(p)
  \/ DrainQueue(p) \/ DrainRequest(p) \/ DrainStore(p)
  \/ Spawn(p) \/ SpawnFails(p) \/ Track(p)
  \/ PoolsDone(p) \/ SkipPool(p) \/ PlanPool(p) \/ Cull(p) \/ CullDone(p)
  \/ Fill(p)
  \/ RefreshSettings(p) \/ LoadPools(p) \/ DrainPool(p)
  \/ FindHung(p) \/ KillHung(p) \/ HungDone(p)
  \/ EventPool(p) \/ MarkBusy(p)
  \/ ShutdownIdle(p) \/ ShutdownClean(p) \/ ShutdownPoll(p)
  \/ ShutdownCheck(p) \/ ShutdownTimeout(p)

\* Waiting for provisionMu in the middle of an operation.
Acquire(p) == EventLock(p) \/ QueuedJobLocked(p)

Call(p) ==
  \/ Reconcile(p) \/ CheckHungRunners(p) \/ ContainerEvent(p)
  \/ QueuedJob(p) \/ JobProgress(p)
  \/ GracefulShutdown(p) \/ ImmediateShutdown(p) \/ StartCancelled(p)

Next ==
  \/ \E p \in Procs : Work(p) \/ Acquire(p) \/ Call(p)
  \/ ManualTerminate \/ Pause \/ Resume \/ Crash \/ AdminEdit
  \/ Environment

Spec == Init /\ [][Next]_vars

\* Goroutines keep running, a Go mutex starves nobody, the ticker of Start
\* keeps firing and the shutdown timeout comes.
Fairness ==
  \A p \in Procs :
    /\ WF_vars(Work(p))
    /\ SF_vars(Acquire(p))
    /\ "boot" \in Roles[p] => SF_vars(Reconcile(p))
    /\ SF_vars(ShutdownTimeout(p))

FairSpec == Spec /\ Fairness

----------------------------------------------------------------------------
(* Properties.                                                             *)

\* A goroutine is inside an operation that provisions or removes runners.
Provisioning(p) == pc[p] \notin Outside

\* provisionMu is the single-writer provisioning lock: never are two
\* goroutines (a booting one included) provisioning at once.
SingleWriter ==
  \A p1, p2 \in Procs : Provisioning(p1) /\ Provisioning(p2) => p1 = p2

\* The quota check of every spawn path (refill, drainQueue, webhook) still
\* holds when the container is created and when it is tracked, whatever
\* other goroutines did since the check.
QuotaCheckHolds ==
  \A p \in Procs : pc[p] \in {"spawn", "track"} => TotalActiveRunners < globalMax

\* The row of the pool that the spawning goroutine loaded.
SpawnRow(p) == IF Draining(p) THEN drain[p].rows[SpawnPool(p)]
               ELSE plan[p].cfg[SpawnPool(p)]

\* So does the max_concurrency check, though the refill loop works with an
\* activeCount it took before it drained idle runners.
CapCheckHolds ==
  \A p \in Procs :
    pc[p] = "spawn" /\ SpawnRow(p).max > 0
      => PoolActiveCount(SpawnPool(p)) < SpawnRow(p).max

\* Total Allowed Runners is the "absolute maximum number of runner containers
\* executing concurrently across all pools": it bounds what the host runs,
\* not only what the supervisor has tracked.
AbsoluteMaximum == Cardinality(Executing) <= globalMax

\* Every executing runner container is in the supervisor's view, or about to
\* be recorded there by the goroutine that started it, once Boot has
\* rebuilt the view.
NoOrphans ==
  \/ state \in {"stopped", "booting"}
  \/ \A r \in Executing :
       tracked[r] # "none" \/ \E p \in Procs : pc[p] = "track" /\ loc[p].r = r

Started(r) == ctr[r] = "none" /\ ctr'[r] = "running"

\* A controller that reports stopped starts no more containers.
NothingStartsStopped == [][\A r \in Runners : Started(r) => state # "stopped"]_vars

\* A controller that was shut down, or whose loop was cancelled, stays
\* stopped, whatever Pause, Resume or another shutdown does afterwards.
StoppedStays ==
  [][state = "stopped" /\ state' # "stopped"
       => \E p \in Procs : pc[p] = "boot"]_vars

\* A request queued while drainQueue works on its copy is still queued when
\* drainQueue has stored what remains.
NoRequestLost ==
  [][\A p \in Procs :
       pc[p] = "drainNext" /\ pc'[p] \notin {"drainNext", "spawn"}
         => Len(queue') - Len(drain[p].rest) = Len(queue) - drain[p].taken]_vars

\* View and host come together while the controller serves: an exited container
\* is removed even if its die event is lost (the event handler or the periodic
\* audit reaps it), and an entry for a container that is gone (terminated during
\* an audit) does not count against the quota for ever.
ViewConverges ==
  \A r \in Runners :
    /\ ctr[r] = "exited" ~> (ctr[r] # "exited" \/ ~Serving)
    /\ tracked[r] # "none" /\ ctr[r] = "none" ~> (tracked[r] = "none" \/ ~Serving)

\* However runners exit, every pool is again and again at its idle target,
\* counting the requests that wait for the global quota.
Replenished ==
  \A q \in Pools :
    []<>(\/ ~Serving \/ db[q] = None
         \/ PoolActiveCount(q) + QueueLengthForPool(q) >= db[q].min
         \/ PoolFull(db[q], PoolActiveCount(q) + QueueLengthForPool(q)))

\* The runners of a pool whose row was deleted are removed from the host.
RemovedPoolDrains ==
  \A q \in Pools :
    db[q] = None ~> \/ db[q] # None \/ ~Serving
                    \/ \A r \in Executing : PoolOf[r] # q

\* A graceful shutdown that has begun reports stopped.
ShutdownEnds == \A p \in Procs : loc[p].op = "graceful" ~> state = "stopped"

=============================================================================
