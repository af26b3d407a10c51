----------------------------- MODULE Scheduler -----------------------------
(***************************************************************************)
(* The cron engine: Scheduler of internal/cron/scheduler.go.  A registered *)
(* job is an entry object; a task goroutine holds a pointer to the entry   *)
(* it was started for, which a new registration of the pool replaces.      *)
(* Every critical section of Scheduler.mu is one step.                     *)
(*                                                                         *)
(* Time is a bounded clock, and a schedule is the set of its fire times.   *)
(***************************************************************************)
EXTENDS Naturals, FiniteSets, FiniteSetsExt, Functions

CONSTANTS
  Pools,      \* jobs are keyed by pool
  Slots,      \* task goroutines
  None,
  Schedules,  \* the cron expressions in use
  MaxTime     \* bound on the clock

Never == MaxTime + 1

EntryType == [sched : Schedules, next : 1..Never, running : BOOLEAN,
              pending : BOOLEAN]

ASSUME SchedulerAssumption ==
  /\ MaxTime \in Nat \ {0}
  /\ Schedules \subseteq SUBSET (1..MaxTime)
  /\ IsFiniteSet(Slots) /\ IsFiniteSet(Pools)
  /\ None \notin Pools \cup Nat \cup EntryType

VARIABLES
  clock,
  mode,     \* "new", "running" after Start, "cancelled" once its context
            \* is done, and "stopped" after Stop
  jobs,     \* s.jobs: pool -> entry, or None
  wake,     \* s.wakeup holds its one token
  loop,     \* where the ticking loop is
  timer,    \* the fire time the loop waits for, or None
  task,     \* task goroutine -> what it runs
  stopper   \* where the caller of Stop is

cronVars == <<clock, mode, jobs, wake, loop, timer, task, stopper>>

\* `own': the entry it runs for is still the registered one;
\* `started': the goroutine exists and s.wg counts it.
TaskType == [pool : Pools \cup {None}, own : BOOLEAN, started : BOOLEAN]

NoTask == [pool |-> None, own |-> FALSE, started |-> FALSE]

\* Type correctness of the scheduler.
CronTypeOK ==
  /\ clock \in 0..MaxTime
  /\ mode \in {"new", "running", "cancelled", "stopped"}
  /\ jobs \in [Pools -> EntryType \cup {None}]
  /\ wake \in BOOLEAN
  /\ loop \in {"off", "plan", "wait", "launch", "done"}
  /\ timer \in 1..Never \cup {None}
  /\ task \in [Slots -> TaskType]
  /\ stopper \in {"idle", "loop", "tasks", "returned"}

Boot(now) ==
  /\ clock = now
  /\ mode = "new"
  /\ jobs = [p \in Pools |-> None]
  /\ wake = FALSE
  /\ loop = "off"
  /\ timer = None
  /\ task = [s \in Slots |-> NoTask]
  /\ stopper = "idle"

----------------------------------------------------------------------------

\* schedule.Next: the first fire time after t, maybe beyond the horizon.
NextFire(sched, t) == Min({x \in sched : x > t} \cup {Never})

\* The entry RegisterJob creates.  A fire that should have happened since the
\* last run and before now was missed, and is made up for at once.
Missed(sched, last) == last # None /\ NextFire(sched, last) < clock

NewEntry(sched, last) ==
  [sched   |-> sched,
   next    |-> IF last # None /\ ~Missed(sched, last) THEN NextFire(sched, last)
               ELSE NextFire(sched, clock),
   running |-> FALSE,
   pending |-> Missed(sched, last)]

\* Goroutines of pools in P lose their registered entry.
Disown(P) ==
  [s \in Slots |-> IF task[s].pool \in P THEN [task[s] EXCEPT !.own = FALSE]
                   ELSE task[s]]

FreeSlots == {s \in Slots : task[s] = NoTask}

\* New goroutines for the tasks of pools P; which ones they are does not matter.
Spawned(P, started) ==
  LET at == CHOOSE f \in Injection(P, FreeSlots) : TRUE
  IN  [s \in Slots |->
         IF \E p \in P : at[p] = s
           THEN [pool |-> CHOOSE p \in P : at[p] = s, own |-> TRUE,
                 started |-> started]
           ELSE task[s]]

\* s.running, and: s.runCtx is done.
Active == mode \in {"running", "cancelled"}
Done == mode \in {"cancelled", "stopped"}

\* Variant: the loop is not told of the new job.
SignalNothing == UNCHANGED wake

\* A token is left for the loop, whether or not it waits already.
SignalWakeup == wake' = TRUE

\* RegisterJob on a scheduler that is not stopped, under the policy
\* MissedFirePolicyRunImmediately that every caller uses.
RegisterJob(p, sched, last) ==
  LET entry == NewEntry(sched, last)
      now == Active /\ entry.pending
  IN  /\ mode # "stopped"
      /\ now => FreeSlots # {}
      /\ jobs' = [jobs EXCEPT ![p] =
                    [entry EXCEPT !.pending = @ /\ ~now, !.running = now]]
      /\ task' = [s \in Slots |->
                    IF s \in FreeSlots
                      THEN Spawned(IF now THEN {p} ELSE {}, TRUE)[s]
                      ELSE Disown({p})[s]]
      /\ SignalWakeup
      /\ UNCHANGED <<clock, mode, loop, timer, stopper>>

UnregisterJob(p) ==
  /\ jobs[p] # None
  /\ jobs' = [jobs EXCEPT ![p] = None]
  /\ task' = Disown({p})
  /\ SignalWakeup
  /\ UNCHANGED <<clock, mode, loop, timer, stopper>>

\* SyncFromDB as the daemon calls it, before Start: register the enabled
\* pools of `rows' and drop the others.
SyncFromDB(rows, last) ==
  /\ mode = "new"
  /\ jobs' = [p \in Pools |-> IF rows[p] = None THEN None
                              ELSE NewEntry(rows[p], last[p])]
  /\ SignalWakeup
  /\ UNCHANGED <<clock, mode, loop, timer, task, stopper>>

\* Start: dispatch what is pending, then run the loop.
Start ==
  LET due == {p \in Pools : jobs[p] # None /\ jobs[p].pending}
  IN  /\ mode = "new"
      /\ Cardinality(due) <= Cardinality(FreeSlots)
      /\ mode' = "running"
      /\ task' = Spawned(due, TRUE)
      /\ jobs' = [p \in Pools |->
                    IF p \in due THEN [jobs[p] EXCEPT !.pending = FALSE,
                                                      !.running = TRUE]
                    ELSE jobs[p]]
      /\ loop' = "plan"
      /\ UNCHANGED <<clock, wake, timer, stopper>>

----------------------------------------------------------------------------
(* The loop.                                                               *)

\* earliestNextRunLocked.
LoopPlan ==
  LET times == {jobs[p].next : p \in {q \in Pools : jobs[q] # None}}
  IN  /\ loop = "plan"
      /\ timer' = IF times = {} THEN None ELSE Min(times)
      /\ loop' = "wait"
      /\ UNCHANGED <<clock, mode, jobs, wake, task, stopper>>

LoopWake ==
  /\ loop = "wait"
  /\ wake
  /\ wake' = FALSE
  /\ loop' = "plan"
  /\ UNCHANGED <<clock, mode, jobs, timer, task, stopper>>

Due(p) == jobs[p] # None /\ jobs[p].next <= clock

\* The locked half of fireDueJobs: an entry that still runs skips this fire.
LoopFire ==
  LET fire == {p \in Pools : Due(p) /\ ~jobs[p].running}
  IN  /\ loop = "wait"
      /\ timer # None /\ timer <= clock
      /\ jobs' = [p \in Pools |->
                    IF Due(p) THEN [jobs[p] EXCEPT
                        !.next = NextFire(jobs[p].sched, clock), !.running = TRUE]
                    ELSE jobs[p]]
      /\ Cardinality(fire) <= Cardinality(FreeSlots)
      /\ task' = Spawned(fire, FALSE)
      /\ loop' = "launch"
      /\ UNCHANGED <<clock, mode, wake, timer, stopper>>

\* Its other half starts the goroutines, without the lock.
LoopLaunch ==
  LET marked == {s \in Slots : task[s] # NoTask /\ ~task[s].started}
  IN  /\ loop = "launch"
      /\ IF marked = {}
           THEN loop' = "plan" /\ UNCHANGED task
           ELSE /\ \E s \in marked : task' = [task EXCEPT ![s].started = TRUE]
                /\ UNCHANGED loop
      /\ UNCHANGED <<clock, mode, jobs, wake, timer, stopper>>

\* ctx.Done or stopCh.
LoopExit ==
  /\ loop = "wait"
  /\ Done
  /\ loop' = "done"
  /\ UNCHANGED <<clock, mode, jobs, wake, timer, task, stopper>>

\* Variant: the flag of the pool's current entry is reset, whoever ran.
TaskResetsPool(s) ==
  /\ task[s].started
  /\ task' = [task EXCEPT ![s] = NoTask]
  /\ jobs' = IF jobs[task[s].pool] = None THEN jobs
             ELSE [jobs EXCEPT ![task[s].pool].running = FALSE]
  /\ UNCHANGED <<clock, mode, wake, loop, timer, stopper>>

\* The task function returns; its deferred calls reset the entry's flag.
TaskReturns(s) ==
  /\ task[s].started
  /\ task' = [task EXCEPT ![s] = NoTask]
  /\ jobs' = IF task[s].own THEN [jobs EXCEPT ![task[s].pool].running = FALSE]
             ELSE jobs
  /\ UNCHANGED <<clock, mode, wake, loop, timer, stopper>>

----------------------------------------------------------------------------
(* The context of Start is cancelled by a signal.  Stop cancels it too,    *)
(* closes stopCh, waits for doneCh and then for s.wg.                      *)

Cancel ==
  /\ mode = "running"
  /\ mode' = "cancelled"
  /\ UNCHANGED <<clock, jobs, wake, loop, timer, task, stopper>>

Stop ==
  /\ Active
  /\ stopper = "idle"
  /\ mode' = "stopped"
  /\ stopper' = "loop"
  /\ UNCHANGED <<clock, jobs, wake, loop, timer, task>>

\* Variant: Stop does not wait for the loop.
StopIgnoresLoop ==
  /\ stopper = "loop"
  /\ stopper' = "tasks"
  /\ UNCHANGED <<clock, mode, jobs, wake, loop, timer, task>>

StopLoopDone ==
  /\ stopper = "loop"
  /\ loop = "done"
  /\ stopper' = "tasks"
  /\ UNCHANGED <<clock, mode, jobs, wake, loop, timer, task>>

StopReturns ==
  /\ stopper = "tasks"
  /\ \A s \in Slots : ~task[s].started
  /\ stopper' = "returned"
  /\ UNCHANGED <<clock, mode, jobs, wake, loop, timer, task>>

Tick ==
  /\ clock < MaxTime
  /\ clock' = clock + 1
  /\ UNCHANGED <<mode, jobs, wake, loop, timer, task, stopper>>

CronInit == \E now \in 0..MaxTime : Boot(now)

\* The daemon syncs once before Start, with the enabled pools and the start of
\* their latest Renovate run; other callers register and remove single jobs.
Configure ==
  \/ \E rows \in [Pools -> Schedules \cup {None}],
       last \in [Pools -> 0..clock \cup {None}] : SyncFromDB(rows, last)
  \/ \E p \in Pools, sched \in Schedules, last \in 0..clock \cup {None} :
       RegisterJob(p, sched, last)
  \/ \E p \in Pools : UnregisterJob(p)

LoopStep == LoopPlan \/ LoopWake \/ LoopFire \/ LoopLaunch \/ LoopExit

CronNext ==
  \/ Configure
  \/ Start \/ LoopStep
  \/ \E s \in Slots : TaskReturns(s)
  \/ Cancel \/ Stop \/ StopLoopDone \/ StopReturns
  \/ Tick

CronSpec == CronInit /\ [][CronNext]_cronVars

\* Goroutines run and tasks return.  The loop's select chooses at random among
\* what is ready, so a due timer is not passed over for ever.
CronFairness ==
  /\ WF_cronVars(LoopStep)
  /\ SF_cronVars(LoopFire)
  /\ SF_cronVars(LoopExit)
  /\ WF_cronVars(StopLoopDone \/ StopReturns)
  /\ \A s \in Slots : WF_cronVars(TaskReturns(s))

CronFairSpec == CronSpec /\ CronFairness

----------------------------------------------------------------------------
(* Properties.                                                             *)

\* An entry's running flag is exactly what says that a goroutine runs for it:
\* it is never left set when the task is over (the job would never fire
\* again), nor cleared by a goroutine of a replaced entry.
RunningFlagExact ==
  \A p \in Pools :
    jobs[p] # None =>
      (jobs[p].running <=> \E s \in Slots : task[s].pool = p /\ task[s].own)

\* No wake-up is lost between planning and waiting: a job that is due does
\* not stay due while the scheduler runs.
DueJobFires ==
  \A p \in Pools : Due(p) ~> ~Due(p) \/ mode # "running"

\* The scheduler as a group of tasks: it drains when its loop is done, and a
\* task that the loop has marked is in the group.
Group == INSTANCE TaskGroup WITH
  Workers <- Slots,
  phase <- CASE stopper = "tasks" -> "draining"
             [] stopper = "returned" -> "closed"
             [] OTHER -> "open",
  busy <- {s \in Slots : task[s] # NoTask}

\* The scheduler implements TaskGroup: when Stop has begun to wait for tasks no
\* more start, it returns only when no task goroutine is left, not even one that
\* fireDueJobs has marked but not started yet, and it does return.
KeepsTaskGroup == Group!GroupSpec
=============================================================================
