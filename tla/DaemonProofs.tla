---------------------------- MODULE DaemonProofs ----------------------------
(* Theorems about Daemon and its scheduler, for any set of pools, any      *)
(* schedules and any finite number of task goroutines.                     *)
EXTENDS Daemon, FunctionTheorems, FiniteSetTheorems, TLAPS

----------------------------------------------------------------------------
(* Sets of instants have a first one, and there is room for the tasks.     *)

\* A set of instants that is not empty has a least element.
LEMMA FirstExists ==
  ASSUME NEW S \in SUBSET Nat, S # {}
  PROVE  Min(S) \in S
<1> DEFINE R == {ss \in Nat \X Nat : ss[1] < ss[2]}
<1>1. IsWellFoundedOn(R, Nat)  BY NatLessThanWellFounded, Zenon DEF OpToRel
<1> HIDE DEF R
<1>2. PICK x \in S : \A y \in S : ~(<<y, x>> \in R)  BY <1>1, WFMin
<1>3. ASSUME NEW y \in S PROVE x <= y
  <2> DEFINE ss == <<y, x>>
  <2>1. x \in Nat /\ y \in Nat /\ ss \in Nat \X Nat /\ ss[1] = y /\ ss[2] = x  OBVIOUS
  <2> HIDE DEF ss
  <2>2. ss \notin R  BY <1>2 DEF ss
  <2> QED  BY <2>1, <2>2 DEF R
<1> QED  BY <1>3 DEF Min

\* The next fire time is an instant after the first, or never.
LEMMA NextFireBounds ==
  ASSUME NEW sched \in Schedules, NEW t
  PROVE  NextFire(sched, t) \in 1..Never
<1> DEFINE S == {x \in sched : x > t} \cup {Never}
<1>1. S \in SUBSET (1..Never) /\ S # {}
  <2>1. sched \subseteq 1..MaxTime /\ MaxTime \in Nat  BY SchedulerAssumption
  <2>2. 1..MaxTime \subseteq 1..Never /\ Never \in 1..Never  BY <2>1 DEF Never
  <2> QED  BY <2>1, <2>2
<1>2. Min(S) \in S  BY <1>1, FirstExists
<1> QED  BY <1>1, <1>2 DEF NextFire

\* With as many free slots as pools, each can have one of its own.
LEMMA RoomForTasks ==
  ASSUME NEW P \in SUBSET Pools, Cardinality(P) <= Cardinality(FreeSlots)
  PROVE  Injection(P, FreeSlots) # {}
<1> DEFINE m == Cardinality(P)
           n == Cardinality(FreeSlots)
<1>1. IsFiniteSet(P) /\ IsFiniteSet(FreeSlots)
  BY SchedulerAssumption, FS_Subset DEF FreeSlots
<1>2. m \in Nat /\ n \in Nat /\ ExistsBijection(1..m, P) /\ ExistsBijection(1..n, FreeSlots)
  BY <1>1, FS_CardinalityType
<1>3. ExistsBijection(P, 1..m)  BY <1>2, Fun_ExistsBijSymmetric
<1> HIDE DEF m, n
<1>4. PICK f \in Injection(P, 1..m) : TRUE  BY <1>3 DEF ExistsBijection, Bijection
<1>5. PICK g \in Injection(1..n, FreeSlots) : TRUE  BY <1>2 DEF ExistsBijection, Bijection
<1>6. f \in [P -> 1..m] /\ \A a, b \in P : f[a] = f[b] => a = b
  BY <1>4, Fun_InjectionProperties
<1>7. g \in [1..n -> FreeSlots] /\ \A a, b \in 1..n : g[a] = g[b] => a = b
  BY <1>5, Fun_InjectionProperties
<1> DEFINE h == [p \in P |-> g[f[p]]]
<1>8. \A p \in P : f[p] \in 1..n  BY <1>2, <1>6 DEF m, n
<1>9. h \in [P -> FreeSlots] /\ \A a, b \in P : h[a] = h[b] => a = b
  BY <1>6, <1>7, <1>8
<1> HIDE DEF h
<1> QED  BY <1>9, Fun_IsInj

----------------------------------------------------------------------------
(* The inductive invariants.                                               *)

\* Tasks and entries agree: the goroutine that owns an entry is the one it says
\* runs, and there is one.
TaskInv ==
  /\ \A s \in Slots : task[s] = NoTask \/ task[s].pool \in Pools
  /\ \A s \in Slots :
       task[s].own => jobs[task[s].pool] # None /\ jobs[task[s].pool].running
  /\ \A s, r \in Slots :
       task[s].own /\ task[r].own /\ task[s].pool = task[r].pool => s = r
  /\ \A p \in Pools : jobs[p] # None /\ jobs[p].running =>
       \E s \in Slots : task[s].pool = p /\ task[s].own

\* The order in which the scheduler starts and stops.
StopInv ==
  /\ mode = "new" => loop = "off" /\ \A s \in Slots : task[s] = NoTask
  /\ stopper # "idle" => mode = "stopped"
  /\ stopper \in {"tasks", "returned"} => loop = "done"
  /\ stopper = "returned" => \A s \in Slots : task[s] = NoTask
  /\ loop # "launch" => \A s \in Slots : task[s] = NoTask \/ task[s].started

CronInv == CronTypeOK /\ TaskInv /\ StopInv

\* What runDaemonContext has reached says what is open and what runs: nothing is
\* served before the scheduler has started, the database is closed only before
\* that or when Stop has returned, and where the server is says whether requests
\* may be in flight.
LifeInv ==
  /\ DaemonTypeOK /\ HTTPTypeOK
  /\ mix # "life" => database
  /\ mix = "life" =>
       /\ daemon \in {"open", "seed", "engine", "sync", "start", "close"} => mode = "new"
       /\ daemon \in {"exit", "off"} => mode = "new" \/ stopper = "returned"
       /\ daemon \in {"serve", "select", "drain", "stop", "wait"} => mode # "new"
       /\ ~database => daemon \in {"open", "exit", "off"}
       /\ daemon \in {"open", "seed", "engine", "sync", "start", "serve", "close", "off"}
            => http = "off"
       /\ daemon = "drain" => http = "draining"
       /\ daemon \in {"stop", "wait", "exit"} => http \notin {"binding", "listening"}
       /\ requests # {} => http \in {"listening", "broken", "draining"}

DaemonInv == CronInv /\ LifeInv
----------------------------------------------------------------------------
(* What the operators of the scheduler return.                             *)

\* A new entry is not running.
LEMMA NewEntryType ==
  ASSUME NEW sched \in Schedules, NEW last
  PROVE  NewEntry(sched, last) \in EntryType /\ NewEntry(sched, last).running = FALSE
<1> DEFINE next == IF last # None /\ ~Missed(sched, last) THEN NextFire(sched, last)
                   ELSE NextFire(sched, clock)
           pending == Missed(sched, last)
<1>1. next \in 1..Never  BY NextFireBounds
<1>2. pending \in BOOLEAN  BY DEF Missed
<1>3. NewEntry(sched, last)
        = [sched |-> sched, next |-> next, running |-> FALSE, pending |-> pending]
  BY DEF NewEntry
<1> HIDE DEF next, pending
<1> QED  BY <1>1, <1>2, <1>3 DEF EntryType

\* t has new tasks, one for every pool of P, where task has none.
AddsTasks(t, P) ==
  /\ \A s \in Slots : t[s] = task[s] \/ (task[s] = NoTask /\ t[s].pool \in P /\ t[s].own)
  /\ \A p \in P : \E s \in Slots : task[s] = NoTask /\ t[s].pool = p /\ t[s].own
  /\ \A s, r \in Slots :
       task[s] = NoTask /\ task[r] = NoTask /\ t[s].own /\ t[r].own /\ t[s].pool = t[r].pool
         => s = r

\* Spawned puts the pools into free slots and leaves the other tasks as they are.
LEMMA SpawnedTasks ==
  ASSUME CronInv, NEW P \in SUBSET Pools, NEW started \in BOOLEAN,
         Injection(P, FreeSlots) # {}
  PROVE  /\ Spawned(P, started) \in [Slots -> TaskType]
         /\ AddsTasks(Spawned(P, started), P)
         /\ \A s \in Slots : Spawned(P, started)[s] # task[s]
                               => Spawned(P, started)[s].started = started
<1> DEFINE at == CHOOSE f \in Injection(P, FreeSlots) : TRUE
           t == Spawned(P, started)
<1>1. at \in Injection(P, FreeSlots)  OBVIOUS
<1> HIDE DEF at
<1>2. at \in [P -> FreeSlots] /\ \A a, b \in P : at[a] = at[b] => a = b
  BY <1>1, Fun_InjectionProperties
<1>3. t = [s \in Slots |->
             IF \E p \in P : at[p] = s
               THEN [pool |-> CHOOSE p \in P : at[p] = s, own |-> TRUE, started |-> started]
               ELSE task[s]]
  BY DEF Spawned, at
<1> HIDE DEF t
<1>4. ASSUME NEW p \in P
      PROVE  /\ at[p] \in Slots /\ task[at[p]] = NoTask
             /\ t[at[p]] = [pool |-> p, own |-> TRUE, started |-> started]
             /\ t[at[p]].pool = p /\ t[at[p]].own /\ t[at[p]].started = started
  <2>1. at[p] \in FreeSlots  BY <1>2
  <2>2. (CHOOSE q \in P : at[q] = at[p]) = p  BY <1>2
  <2>3. /\ at[p] \in Slots /\ task[at[p]] = NoTask
        /\ t[at[p]] = [pool |-> p, own |-> TRUE, started |-> started]
    BY <1>3, <2>1, <2>2 DEF FreeSlots
  <2> QED  BY <2>3
<1>5. ASSUME NEW s \in Slots, \A p \in P : at[p] # s PROVE t[s] = task[s]
  BY <1>3, <1>5
<1>6. task \in [Slots -> TaskType]  BY DEF CronInv, CronTypeOK
<1>7. t \in [Slots -> TaskType]
  <2>1. ASSUME NEW s \in Slots PROVE t[s] \in TaskType
    <3>1. CASE \E p \in P : at[p] = s
      <4>1. PICK p \in P : at[p] = s  BY <3>1
      <4>2. t[s] = [pool |-> p, own |-> TRUE, started |-> started]  BY <1>4, <4>1
      <4> QED  BY <4>2 DEF TaskType
    <3> QED  BY <1>5, <1>6, <3>1
  <2> QED  BY <1>3, <2>1
<1>8. \A s \in Slots : \/ t[s] = task[s]
                       \/ /\ task[s] = NoTask /\ t[s].own /\ t[s].started = started
                          /\ t[s].pool \in P /\ at[t[s].pool] = s
  <2> SUFFICES ASSUME NEW s \in Slots, t[s] # task[s]
               PROVE  /\ task[s] = NoTask /\ t[s].own /\ t[s].started = started
                      /\ t[s].pool \in P /\ at[t[s].pool] = s
    OBVIOUS
  <2>1. PICK p \in P : at[p] = s  BY <1>5
  <2> QED  BY <1>4, <2>1
<1>9. AddsTasks(t, P)
  <2>1. \A p \in P : \E s \in Slots : task[s] = NoTask /\ t[s].pool = p /\ t[s].own
    BY <1>4
  <2>2. ASSUME NEW s \in Slots, NEW r \in Slots, task[s] = NoTask, task[r] = NoTask,
               t[s].own, t[r].own, t[s].pool = t[r].pool
        PROVE  s = r
    <3>1. ~NoTask.own  BY DEF NoTask
    <3>2. t[s] # task[s] /\ t[r] # task[r]  BY <2>2, <3>1
    <3> QED  BY <1>8, <2>2, <3>2
  <2> QED  BY <1>8, <2>1, <2>2 DEF AddsTasks
<1> QED  BY <1>7, <1>8, <1>9 DEF t
----------------------------------------------------------------------------
(* The scheduler's steps.                                                  *)

\* A free slot runs for nobody.
LEMMA NoTaskFields == NoTask.pool = None /\ ~NoTask.own /\ ~NoTask.started /\ NoTask \in TaskType
  BY DEF NoTask, TaskType

\* No goroutine runs for None, and one that has a pool is a task.
LEMMA TaskFields ==
  ASSUME CronInv, NEW s \in Slots
  PROVE  /\ task[s] \in TaskType
         /\ task[s].own \/ task[s].started => task[s] # NoTask
         /\ task[s] # NoTask <=> task[s].pool \in Pools
  BY SchedulerAssumption, NoTaskFields DEF CronInv, CronTypeOK, TaskInv

\* The tasks of a pool are disowned, and nothing else changes.
LEMMA DisownSets ==
  ASSUME CronInv, NEW p \in Pools, NEW s \in Slots
  PROVE  /\ Disown({p})[s] \in TaskType
         /\ Disown({p})[s].pool = task[s].pool /\ Disown({p})[s].started = task[s].started
         /\ Disown({p})[s].own <=> task[s].own /\ task[s].pool # p
         /\ task[s].pool # p => Disown({p})[s] = task[s]
         /\ Disown({p})[s] = NoTask <=> task[s] = NoTask
<1>1. task[s] \in TaskType  BY TaskFields
<1>2. CASE task[s].pool # p
  <2>1. Disown({p})[s] = task[s]  BY <1>2 DEF Disown
  <2> QED  BY <1>1, <1>2, <2>1
<1>3. CASE task[s].pool = p
  <2> DEFINE d == [task[s] EXCEPT !.own = FALSE]
  <2>1. Disown({p})[s] = d  BY <1>3 DEF Disown
  <2>2. d \in TaskType /\ d.pool = p /\ d.started = task[s].started /\ ~d.own
    BY <1>1, <1>3 DEF TaskType
  <2>3. p # None  BY SchedulerAssumption
  <2> HIDE DEF d
  <2> QED  BY <1>1, <1>3, <2>1, <2>2, <2>3, NoTaskFields
<1> QED  BY <1>2, <1>3

\* A replaced entry disowns its task; the new one runs only if it fires at once.
LEMMA RegisterJobKeeps ==
  ASSUME CronInv, NEW p \in Pools, NEW sched \in Schedules, NEW last,
         RegisterJob(p, sched, last)
  PROVE  CronInv'
<1> DEFINE entry == NewEntry(sched, last)
           now == Active /\ entry.pending
           e == [entry EXCEPT !.pending = @ /\ ~now, !.running = now]
           P == IF now THEN {p} ELSE {}
           t == Spawned(P, TRUE)
<1>1. /\ mode # "stopped" /\ (now => FreeSlots # {})
      /\ jobs' = [jobs EXCEPT ![p] = e]
      /\ task' = [s \in Slots |-> IF s \in FreeSlots THEN t[s] ELSE Disown({p})[s]]
      /\ wake' = TRUE
      /\ UNCHANGED <<clock, mode, loop, timer, stopper>>
  BY DEF RegisterJob, SignalWakeup
<1>2. entry \in EntryType  BY NewEntryType
<1>3. now \in BOOLEAN  BY <1>2 DEF Active, EntryType
<1>4. e \in EntryType /\ e.running = now
  <2> DEFINE pending == entry.pending /\ ~now
  <2>1. pending \in BOOLEAN  BY <1>2, <1>3 DEF EntryType
  <2>2. e = [entry EXCEPT !.pending = pending, !.running = now]  OBVIOUS
  <2> HIDE DEF pending, now, entry
  <2> QED  BY <1>2, <1>3, <2>1, <2>2 DEF EntryType
<1>5. e # None  BY <1>4, SchedulerAssumption
<1>6. Injection(P, FreeSlots) # {}
  <2>1. CASE ~now
    <3> DEFINE f == [x \in {} |-> x]
    <3>1. f \in Injection({}, FreeSlots)
      <4>1. f \in [{} -> FreeSlots] /\ \A a, b \in {} : f[a] = f[b] => a = b  OBVIOUS
      <4> HIDE DEF f
      <4> QED  BY <4>1, Fun_IsInj
    <3> QED  BY <2>1, <3>1
  <2>2. CASE now
    <3>1. PICK s \in FreeSlots : TRUE  BY <1>1, <2>2
    <3> DEFINE f == [x \in {p} |-> s]
    <3>2. f \in Injection({p}, FreeSlots)
      <4>1. f \in [{p} -> FreeSlots] /\ \A a, b \in {p} : f[a] = f[b] => a = b  OBVIOUS
      <4> HIDE DEF f
      <4> QED  BY <4>1, Fun_IsInj
    <3> QED  BY <2>2, <3>2
  <2> QED  BY <2>1, <2>2
<1>7. P \in SUBSET Pools /\ (P # {} <=> now) /\ (\A q \in P : q = p)  OBVIOUS
<1> HIDE DEF now, entry, e, P
<1>8. /\ t \in [Slots -> TaskType] /\ AddsTasks(t, P)
      /\ \A s \in Slots : t[s] # task[s] => t[s].started = TRUE
  BY <1>6, <1>7, SpawnedTasks
<1> HIDE DEF t
\* The slots.
<1>9. ASSUME NEW s \in Slots
      PROVE  /\ task'[s] \in TaskType
             /\ task[s] = NoTask =>
                  \/ task'[s] = NoTask
                  \/ now /\ task'[s].pool = p /\ task'[s].own /\ task'[s].started
             /\ task[s] # NoTask =>
                  /\ task'[s] # NoTask
                  /\ task'[s].pool = task[s].pool /\ task'[s].started = task[s].started
                  /\ task'[s].own <=> task[s].own /\ task[s].pool # p
  <2>1. CASE task[s] = NoTask
    <3>1. task'[s] = t[s]  BY <1>1, <2>1 DEF FreeSlots
    <3> QED  BY <1>7, <1>8, <2>1, <3>1 DEF AddsTasks
  <2>2. CASE task[s] # NoTask
    <3>1. task'[s] = Disown({p})[s]  BY <1>1, <2>2 DEF FreeSlots
    <3> QED  BY <2>2, <3>1, DisownSets
  <2> QED  BY <2>1, <2>2
<1>10. ASSUME NEW s \in Slots, NEW r \in Slots, task[s] = NoTask, task[r] = NoTask,
              task'[s].own, task'[r].own
       PROVE  s = r
  <2>1. task'[s] = t[s] /\ task'[r] = t[r]  BY <1>1, <1>10 DEF FreeSlots
  <2>2. t[s].pool = t[r].pool  BY <1>9, <1>10, <2>1, NoTaskFields
  <2> QED  BY <1>8, <1>10, <2>1, <2>2 DEF AddsTasks
<1>11. now => \E s \in Slots : task[s] = NoTask /\ task'[s].pool = p /\ task'[s].own
  BY <1>1, <1>7, <1>8 DEF AddsTasks, FreeSlots
\* The invariant.
<1>12. CronTypeOK'
  <2>1. jobs' \in [Pools -> EntryType \cup {None}]  BY <1>1, <1>4 DEF CronInv, CronTypeOK
  <2>2. task' \in [Slots -> TaskType]  BY <1>1, <1>9
  <2> QED  BY <1>1, <2>1, <2>2 DEF CronInv, CronTypeOK
<1>13. \A q \in Pools : jobs'[q] = IF q = p THEN e ELSE jobs[q]
  BY <1>1 DEF CronInv, CronTypeOK
<1>14. TaskInv'
  <2>1. \A s \in Slots : task'[s] = NoTask \/ task'[s].pool \in Pools
    BY <1>9, TaskFields
  <2>2. ASSUME NEW s \in Slots, task'[s].own
        PROVE  jobs'[task'[s].pool] # None /\ jobs'[task'[s].pool].running
    <3>1. CASE task[s] = NoTask
      BY <1>4, <1>5, <1>9, <1>13, <2>2, <3>1, NoTaskFields
    <3>2. CASE task[s] # NoTask
      <4>1. task[s].own /\ task[s].pool \in Pools /\ task'[s].pool = task[s].pool
              /\ task[s].pool # p
        BY <1>9, <2>2, <3>2, TaskFields
      <4> QED  BY <1>13, <4>1 DEF CronInv, TaskInv
    <3> QED  BY <3>1, <3>2
  <2>3. ASSUME NEW s \in Slots, NEW r \in Slots, task'[s].own, task'[r].own,
               task'[s].pool = task'[r].pool
        PROVE  s = r
    <3>1. CASE task[s] = NoTask /\ task[r] = NoTask  BY <1>10, <2>3, <3>1
    <3>2. CASE task[s] # NoTask /\ task[r] # NoTask
      BY <1>9, <2>3, <3>2 DEF CronInv, TaskInv
    <3>3. CASE (task[s] = NoTask) # (task[r] = NoTask)
      BY <1>9, <2>3, <3>3, NoTaskFields
    <3> QED  BY <3>1, <3>2, <3>3
  <2>4. ASSUME NEW q \in Pools, jobs'[q] # None, jobs'[q].running
        PROVE  \E s \in Slots : task'[s].pool = q /\ task'[s].own
    <3>1. CASE q = p  BY <1>4, <1>11, <1>13, <2>4, <3>1
    <3>2. CASE q # p
      <4>1. PICK s \in Slots : task[s].pool = q /\ task[s].own
        BY <1>13, <2>4, <3>2 DEF CronInv, TaskInv
      <4> QED  BY <1>9, <3>2, <4>1, TaskFields
    <3> QED  BY <3>1, <3>2
  <2> QED  BY <2>1, <2>2, <2>3, <2>4 DEF TaskInv
<1>15. StopInv'
  <2>1. mode = "new" => ~now  BY DEF now, Active
  <2>2. stopper = "idle"  BY <1>1 DEF CronInv, StopInv
  <2> QED  BY <1>1, <1>9, <2>1, <2>2 DEF CronInv, StopInv
<1> QED  BY <1>12, <1>14, <1>15 DEF CronInv
\* So does one that is removed.
LEMMA UnregisterJobKeeps ==
  ASSUME CronInv, NEW p \in Pools, UnregisterJob(p) PROVE CronInv'
<1>1. /\ jobs' = [jobs EXCEPT ![p] = None] /\ task' = Disown({p}) /\ wake' = TRUE
      /\ UNCHANGED <<clock, mode, loop, timer, stopper>>
  BY DEF UnregisterJob, SignalWakeup
<1>2. \A q \in Pools : jobs'[q] = IF q = p THEN None ELSE jobs[q]
  BY <1>1 DEF CronInv, CronTypeOK
<1>3. CronTypeOK'
  <2>1. jobs' \in [Pools -> EntryType \cup {None}]  BY <1>1 DEF CronInv, CronTypeOK
  <2>2. task' \in [Slots -> TaskType]  BY <1>1, DisownSets DEF Disown
  <2> QED  BY <1>1, <2>1, <2>2 DEF CronInv, CronTypeOK
<1>4. TaskInv'
  <2>1. \A s \in Slots : task'[s] = NoTask \/ task'[s].pool \in Pools
    BY <1>1, DisownSets DEF CronInv, TaskInv
  <2>2. ASSUME NEW s \in Slots, task'[s].own
        PROVE  jobs'[task'[s].pool] # None /\ jobs'[task'[s].pool].running
    <3>1. task[s].own /\ task[s].pool \in Pools /\ task'[s].pool = task[s].pool
            /\ task[s].pool # p
      BY <1>1, <2>2, DisownSets, TaskFields
    <3> QED  BY <1>2, <3>1 DEF CronInv, TaskInv
  <2>3. ASSUME NEW s \in Slots, NEW r \in Slots, task'[s].own, task'[r].own,
               task'[s].pool = task'[r].pool
        PROVE  s = r
    BY <1>1, <2>3, DisownSets DEF CronInv, TaskInv
  <2>4. ASSUME NEW q \in Pools, jobs'[q] # None, jobs'[q].running
        PROVE  \E s \in Slots : task'[s].pool = q /\ task'[s].own
    <3>1. q # p /\ jobs'[q] = jobs[q]  BY <1>2, <2>4
    <3>2. PICK s \in Slots : task[s].pool = q /\ task[s].own
      BY <2>4, <3>1 DEF CronInv, TaskInv
    <3> QED  BY <1>1, <3>1, <3>2, DisownSets
  <2> QED  BY <2>1, <2>2, <2>3, <2>4 DEF TaskInv
<1>5. StopInv'
  <2>1. \A s \in Slots : /\ task'[s] = NoTask <=> task[s] = NoTask
                         /\ task'[s].started = task[s].started
    BY <1>1, DisownSets
  <2> QED  BY <1>1, <2>1 DEF CronInv, StopInv
<1> QED  BY <1>3, <1>4, <1>5 DEF CronInv

\* Nothing has started yet.
LEMMA SyncFromDBKeeps ==
  ASSUME CronInv, NEW rows \in [Pools -> Schedules \cup {None}],
         NEW last, SyncFromDB(rows, last)
  PROVE  CronInv'
<1>1. /\ mode = "new" /\ wake' = TRUE
      /\ jobs' = [p \in Pools |-> IF rows[p] = None THEN None ELSE NewEntry(rows[p], last[p])]
      /\ UNCHANGED <<clock, mode, loop, timer, task, stopper>>
  BY DEF SyncFromDB, SignalWakeup
<1>2. \A p \in Pools : jobs'[p] = None \/ (jobs'[p] \in EntryType /\ ~jobs'[p].running)
  BY <1>1, NewEntryType
<1>3. \A s \in Slots : task'[s] = NoTask /\ ~task'[s].own
  BY <1>1, NoTaskFields DEF CronInv, StopInv
<1>4. CronTypeOK'
  <2>1. jobs' \in [Pools -> EntryType \cup {None}]  BY <1>1, <1>2
  <2> QED  BY <1>1, <2>1 DEF CronInv, CronTypeOK
<1>5. TaskInv'  BY <1>2, <1>3 DEF TaskInv
<1>6. StopInv'  BY <1>1 DEF CronInv, StopInv
<1> QED  BY <1>4, <1>5, <1>6 DEF CronInv

\* Start makes the loop and runs the entries whose fire time was missed.
LEMMA StartKeeps == ASSUME CronInv, Start PROVE CronInv'
<1> DEFINE due == {p \in Pools : jobs[p] # None /\ jobs[p].pending}
<1>1. /\ mode = "new" /\ Cardinality(due) <= Cardinality(FreeSlots)
      /\ mode' = "running" /\ loop' = "plan"
      /\ task' = Spawned(due, TRUE)
      /\ jobs' = [p \in Pools |->
                    IF p \in due THEN [jobs[p] EXCEPT !.pending = FALSE, !.running = TRUE]
                    ELSE jobs[p]]
      /\ UNCHANGED <<clock, wake, timer, stopper>>
  BY DEF Start
<1>2. \A p \in due : jobs[p] # None /\ p \in Pools  OBVIOUS
<1>3. due \in SUBSET Pools  OBVIOUS
<1> HIDE DEF due
<1>4. Injection(due, FreeSlots) # {}  BY <1>1, <1>3, RoomForTasks
<1>5. /\ task' \in [Slots -> TaskType] /\ AddsTasks(task', due)
      /\ \A s \in Slots : task'[s] # task[s] => task'[s].started = TRUE
  BY <1>1, <1>3, <1>4, SpawnedTasks
<1>6. \A s \in Slots : task[s] = NoTask /\ ~task[s].own
  BY <1>1, NoTaskFields DEF CronInv, StopInv
<1>7. ASSUME NEW p \in Pools
      PROVE  /\ jobs'[p] \in EntryType \cup {None}
             /\ p \in due => jobs'[p] # None /\ jobs'[p].running
             /\ p \notin due => jobs'[p] = jobs[p]
             /\ jobs'[p] # None /\ jobs'[p].running => p \in due
  <2>1. jobs[p] \in EntryType \cup {None}  BY DEF CronInv, CronTypeOK
  <2>2. CASE p \in due
    <3> DEFINE e == [jobs[p] EXCEPT !.pending = FALSE, !.running = TRUE]
    <3>1. jobs[p] \in EntryType  BY <1>2, <2>1, <2>2
    <3>2. e \in EntryType /\ e.running = TRUE  BY <3>1 DEF EntryType
    <3>3. jobs'[p] = e  BY <1>1, <2>2
    <3> HIDE DEF e
    <3> QED  BY <2>2, <3>2, <3>3, SchedulerAssumption
  <2>3. CASE p \notin due
    <3>1. jobs'[p] = jobs[p]  BY <1>1, <2>3
    <3>2. jobs[p] # None => ~jobs[p].running  BY <1>6 DEF CronInv, TaskInv
    <3> QED  BY <2>1, <2>3, <3>1, <3>2
  <2> QED  BY <2>2, <2>3
<1>8. CronTypeOK'
  <2>1. jobs' \in [Pools -> EntryType \cup {None}]  BY <1>1, <1>7
  <2> QED  BY <1>1, <1>5, <2>1 DEF CronInv, CronTypeOK
<1>9. TaskInv'
  <2>1. \A s \in Slots : task'[s] = NoTask \/ task'[s].pool \in Pools
    BY <1>3, <1>5, <1>6 DEF AddsTasks
  <2>2. \A s \in Slots : task'[s].own => task'[s].pool \in due
    BY <1>5, <1>6 DEF AddsTasks
  <2>3. \A s \in Slots :
          task'[s].own => jobs'[task'[s].pool] # None /\ jobs'[task'[s].pool].running
    BY <1>3, <1>7, <2>2
  <2>4. \A s, r \in Slots :
          task'[s].own /\ task'[r].own /\ task'[s].pool = task'[r].pool => s = r
    BY <1>5, <1>6 DEF AddsTasks
  <2>5. \A p \in Pools : jobs'[p] # None /\ jobs'[p].running =>
          \E s \in Slots : task'[s].pool = p /\ task'[s].own
    BY <1>5, <1>7 DEF AddsTasks
  <2> QED  BY <2>1, <2>3, <2>4, <2>5 DEF TaskInv
<1>10. StopInv'
  <2>1. stopper = "idle"  BY <1>1 DEF CronInv, StopInv
  <2>2. \A s \in Slots : task'[s] = NoTask \/ task'[s].started  BY <1>5, <1>6
  <2> QED  BY <1>1, <2>1, <2>2 DEF StopInv
<1> QED  BY <1>8, <1>9, <1>10 DEF CronInv

\* fireDueJobs marks the due entries that are not running and adds their tasks.
LEMMA LoopFireKeeps == ASSUME CronInv, LoopFire PROVE CronInv'
<1> DEFINE fire == {p \in Pools : Due(p) /\ ~jobs[p].running}
<1>1. /\ loop = "wait" /\ loop' = "launch"
      /\ Cardinality(fire) <= Cardinality(FreeSlots)
      /\ task' = Spawned(fire, FALSE)
      /\ jobs' = [p \in Pools |->
                    IF Due(p) THEN [jobs[p] EXCEPT
                        !.next = NextFire(jobs[p].sched, clock), !.running = TRUE]
                    ELSE jobs[p]]
      /\ UNCHANGED <<clock, mode, wake, timer, stopper>>
  BY DEF LoopFire
<1>2. \A p \in Pools : p \in fire <=> Due(p) /\ ~jobs[p].running  OBVIOUS
<1>3. fire \in SUBSET Pools  OBVIOUS
<1> HIDE DEF fire
<1>4. Injection(fire, FreeSlots) # {}  BY <1>1, <1>3, RoomForTasks
<1>5. task' \in [Slots -> TaskType] /\ AddsTasks(task', fire)
  <2>1. FALSE \in BOOLEAN  OBVIOUS
  <2> QED  BY <1>1, <1>3, <1>4, <2>1, SpawnedTasks
<1>6. ASSUME NEW p \in Pools
      PROVE  /\ jobs'[p] \in EntryType \cup {None}
             /\ jobs'[p] = None <=> jobs[p] = None
             /\ Due(p) => jobs'[p].running
             /\ ~Due(p) => jobs'[p] = jobs[p]
  <2>1. jobs[p] \in EntryType \cup {None}  BY DEF CronInv, CronTypeOK
  <2>2. CASE Due(p)
    <3> DEFINE e == [jobs[p] EXCEPT !.next = NextFire(jobs[p].sched, clock), !.running = TRUE]
    <3>1. jobs[p] \in EntryType  BY <2>1, <2>2 DEF Due
    <3>2. NextFire(jobs[p].sched, clock) \in 1..Never
      BY <3>1, NextFireBounds DEF EntryType
    <3>3. e \in EntryType /\ e.running = TRUE  BY <3>1, <3>2 DEF EntryType
    <3>4. jobs'[p] = e  BY <1>1, <2>2
    <3> HIDE DEF e
    <3> QED  BY <2>2, <3>1, <3>3, <3>4, SchedulerAssumption
  <2>3. CASE ~Due(p)  BY <1>1, <2>1, <2>3
  <2> QED  BY <2>2, <2>3
<1>7. CronTypeOK'
  <2>1. jobs' \in [Pools -> EntryType \cup {None}]  BY <1>1, <1>6
  <2> QED  BY <1>1, <1>5, <2>1 DEF CronInv, CronTypeOK
<1>8. \A p \in Pools : jobs[p] # None /\ jobs[p].running => jobs'[p] # None /\ jobs'[p].running
  BY <1>6
<1>9. \A p \in fire : jobs'[p] # None /\ jobs'[p].running
  BY <1>2, <1>3, <1>6 DEF Due
<1>10. TaskInv'
  <2>1. \A s \in Slots : task'[s] = NoTask \/ task'[s].pool \in Pools
    BY <1>3, <1>5 DEF AddsTasks, CronInv, TaskInv
  <2>2. ASSUME NEW s \in Slots, task'[s].own
        PROVE  jobs'[task'[s].pool] # None /\ jobs'[task'[s].pool].running
    <3>1. CASE task'[s] = task[s]
      BY <1>8, <2>2, <3>1, TaskFields DEF CronInv, TaskInv
    <3>2. CASE task'[s] # task[s]  BY <1>5, <1>9, <3>2 DEF AddsTasks
    <3> QED  BY <3>1, <3>2
  <2>3. ASSUME NEW s \in Slots, NEW r \in Slots, task'[s].own, task'[r].own,
               task'[s].pool = task'[r].pool
        PROVE  s = r
    <3>1. CASE task[s] = NoTask /\ task[r] = NoTask  BY <1>5, <2>3, <3>1 DEF AddsTasks
    <3>2. ASSUME NEW a \in Slots, NEW b \in Slots, task[a] = NoTask, task[b] # NoTask,
                 task'[a].own, task'[b].own
          PROVE  task'[a].pool # task'[b].pool
      <4>1. task'[a] # task[a]  BY <3>2, NoTaskFields
      <4>2. task'[a].pool \in fire /\ task'[b] = task[b]  BY <1>5, <3>2, <4>1 DEF AddsTasks
      <4>3. jobs[task[b].pool].running  BY <3>2, <4>2 DEF CronInv, TaskInv
      <4> QED  BY <1>2, <1>3, <4>2, <4>3
    <3>3. CASE task[s] # NoTask /\ task[r] # NoTask
      <4>1. task'[s] = task[s] /\ task'[r] = task[r]  BY <1>5, <3>3 DEF AddsTasks
      <4> QED  BY <2>3, <4>1 DEF CronInv, TaskInv
    <3> QED  BY <2>3, <3>1, <3>2, <3>3
  <2>4. ASSUME NEW q \in Pools, jobs'[q] # None, jobs'[q].running
        PROVE  \E s \in Slots : task'[s].pool = q /\ task'[s].own
    <3>1. CASE q \in fire  BY <1>5, <3>1 DEF AddsTasks
    <3>2. CASE q \notin fire
      <4>1. jobs[q] # None /\ jobs[q].running  BY <1>2, <1>6, <2>4, <3>2
      <4>2. PICK s \in Slots : task[s].pool = q /\ task[s].own
        BY <4>1 DEF CronInv, TaskInv
      <4>3. task'[s] = task[s]  BY <1>5, <4>2, NoTaskFields DEF AddsTasks
      <4> QED  BY <4>2, <4>3
    <3> QED  BY <3>1, <3>2
  <2> QED  BY <2>1, <2>2, <2>3, <2>4 DEF TaskInv
<1>11. StopInv'
  <2>1. mode # "new" /\ stopper \notin {"tasks", "returned"}
    BY <1>1 DEF CronInv, StopInv
  <2> QED  BY <1>1, <2>1 DEF CronInv, StopInv
<1> QED  BY <1>7, <1>10, <1>11 DEF CronInv
\* The timer is set to the first fire time.
LEMMA LoopPlanKeeps == ASSUME CronInv, LoopPlan PROVE CronInv'
<1> DEFINE times == {jobs[p].next : p \in {q \in Pools : jobs[q] # None}}
<1>1. /\ loop = "plan" /\ loop' = "wait"
      /\ timer' = IF times = {} THEN None ELSE Min(times)
      /\ UNCHANGED <<clock, mode, jobs, wake, task, stopper>>
  BY DEF LoopPlan
<1>2. times \in SUBSET (1..Never)
  BY DEF CronInv, CronTypeOK, EntryType
<1>3. times # {} => Min(times) \in times
  <2>1. times \in SUBSET Nat  BY <1>2
  <2> HIDE DEF times
  <2> QED  BY <2>1, FirstExists
<1> HIDE DEF times
<1>4. timer' \in 1..Never \cup {None}  BY <1>1, <1>2, <1>3
<1> QED  BY <1>1, <1>4 DEF CronInv, CronTypeOK, TaskInv, StopInv

\* A marked task starts.
LEMMA StartedKeeps ==
  ASSUME CronInv, NEW s \in Slots, task[s] # NoTask, loop = "launch",
         task' = [task EXCEPT ![s].started = TRUE],
         UNCHANGED <<clock, mode, jobs, wake, loop, timer, stopper>>
  PROVE  CronInv'
<1>1. \A r \in Slots : task[r] \in TaskType  BY TaskFields
<1>2. ASSUME NEW r \in Slots
      PROVE  /\ task'[r] \in TaskType
             /\ task'[r].pool = task[r].pool
             /\ task'[r].own = task[r].own
             /\ task'[r] = NoTask <=> task[r] = NoTask
  <2>1. CASE r = s
    <3> DEFINE t == [task[s] EXCEPT !.started = TRUE]
    <3>1. t \in TaskType /\ t.pool = task[s].pool /\ t.own = task[s].own /\ t.started = TRUE
      BY <1>1 DEF TaskType
    <3>2. task'[r] = t  BY <2>1 DEF CronInv, CronTypeOK
    <3> HIDE DEF t
    <3>3. t # NoTask  BY <3>1, NoTaskFields
    <3> QED  BY <2>1, <3>1, <3>2, <3>3
  <2>2. CASE r # s
    <3>1. task'[r] = task[r]  BY <2>2 DEF CronInv, CronTypeOK
    <3> QED  BY <1>1, <3>1
  <2> QED  BY <2>1, <2>2
<1>3. task' \in [Slots -> TaskType]
  <2>1. DOMAIN task' = Slots /\ task' = [r \in Slots |-> task'[r]]
    BY DEF CronInv, CronTypeOK
  <2> QED  BY <1>2, <2>1
<1>4. CronTypeOK'  BY <1>3 DEF CronInv, CronTypeOK
<1>5. TaskInv'
  <2>1. \A r \in Slots : task'[r] = NoTask \/ task'[r].pool \in Pools
    BY <1>2 DEF CronInv, TaskInv
  <2>2. ASSUME NEW r \in Slots, task'[r].own
        PROVE  jobs'[task'[r].pool] # None /\ jobs'[task'[r].pool].running
    BY <1>2, <2>2 DEF CronInv, TaskInv
  <2>3. ASSUME NEW r \in Slots, NEW o \in Slots, task'[r].own, task'[o].own,
               task'[r].pool = task'[o].pool
        PROVE  r = o
    BY <1>2, <2>3 DEF CronInv, TaskInv
  <2>4. ASSUME NEW q \in Pools, jobs'[q] # None, jobs'[q].running
        PROVE  \E r \in Slots : task'[r].pool = q /\ task'[r].own
    <3>1. PICK r \in Slots : task[r].pool = q /\ task[r].own
      BY <2>4 DEF CronInv, TaskInv
    <3> QED  BY <1>2, <3>1
  <2> QED  BY <2>1, <2>2, <2>3, <2>4 DEF TaskInv
<1>6. StopInv'  BY <1>2 DEF CronInv, StopInv
<1> QED  BY <1>4, <1>5, <1>6 DEF CronInv

\* The goroutines of the marked tasks start one by one.
LEMMA LoopLaunchKeeps == ASSUME CronInv, LoopLaunch PROVE CronInv'
<1> DEFINE marked == {s \in Slots : task[s] # NoTask /\ ~task[s].started}
<1>1. loop = "launch" /\ UNCHANGED <<clock, mode, jobs, wake, timer, stopper>>
  BY DEF LoopLaunch
<1>2. CASE marked = {}
  <2>1. loop' = "plan" /\ task' = task  BY <1>2 DEF LoopLaunch
  <2>2. \A s \in Slots : task[s] = NoTask \/ task[s].started  BY <1>2
  <2> QED  BY <1>1, <2>1, <2>2 DEF CronInv, CronTypeOK, TaskInv, StopInv
<1>3. CASE marked # {}
  <2>1. PICK s \in marked : task' = [task EXCEPT ![s].started = TRUE] /\ loop' = loop
    BY <1>3 DEF LoopLaunch
  <2>2. s \in Slots /\ task[s] # NoTask  OBVIOUS
  <2> HIDE DEF marked
  <2> QED  BY <1>1, <2>1, <2>2, StartedKeeps
<1> QED  BY <1>2, <1>3

\* A task that ends resets the flag of its entry only if it is still its own.
LEMMA TaskReturnsKeeps ==
  ASSUME CronInv, NEW s \in Slots, TaskReturns(s) PROVE CronInv'
<1> DEFINE p == task[s].pool
<1>1. /\ task' = [task EXCEPT ![s] = NoTask]
      /\ task[s].started
      /\ UNCHANGED <<clock, mode, wake, loop, timer, stopper>>
  BY DEF TaskReturns
<1>2. p \in Pools  BY <1>1, TaskFields
<1>3. /\ task' \in [Slots -> TaskType]
      /\ \A r \in Slots : task'[r] = IF r = s THEN NoTask ELSE task[r]
  BY <1>1, NoTaskFields DEF CronInv, CronTypeOK
<1>4. CASE ~task[s].own
  <2>1. jobs' = jobs  BY <1>4 DEF TaskReturns
  <2>2. CronTypeOK'  BY <1>1, <1>3, <2>1 DEF CronInv, CronTypeOK
  <2>3. TaskInv'
    <3>1. \A q \in Pools : jobs[q] # None /\ jobs[q].running =>
            \E r \in Slots : task'[r].pool = q /\ task'[r].own
      BY <1>3, <1>4 DEF CronInv, TaskInv
    <3> QED  BY <1>3, <2>1, <3>1, NoTaskFields DEF CronInv, TaskInv
  <2>4. StopInv'  BY <1>1, <1>3 DEF CronInv, StopInv
  <2> QED  BY <2>2, <2>3, <2>4 DEF CronInv
<1>5. CASE task[s].own
  <2> DEFINE e == [jobs[p] EXCEPT !.running = FALSE]
  <2>1. jobs' = [jobs EXCEPT ![p] = e]  BY <1>5 DEF TaskReturns
  <2>2. jobs[p] \in EntryType  BY <1>2, <1>5 DEF CronInv, CronTypeOK, TaskInv
  <2>3. e \in EntryType /\ e.running = FALSE  BY <2>2 DEF EntryType
  <2> HIDE DEF e
  <2>4. /\ jobs' \in [Pools -> EntryType \cup {None}]
        /\ \A q \in Pools : jobs'[q] = IF q = p THEN e ELSE jobs[q]
    BY <1>2, <2>1, <2>3 DEF CronInv, CronTypeOK
  <2>5. CronTypeOK'  BY <1>1, <1>3, <2>4 DEF CronInv, CronTypeOK
  <2>6. ASSUME NEW r \in Slots, task'[r].own
        PROVE  r # s /\ task[r].own /\ task[r].pool \in Pools /\ task[r].pool # p
                 /\ task'[r] = task[r]
    BY <1>3, <1>5, <2>6, NoTaskFields, TaskFields DEF CronInv, TaskInv
  <2>7. TaskInv'
    <3>1. \A r \in Slots : task'[r] = NoTask \/ task'[r].pool \in Pools
      BY <1>3 DEF CronInv, TaskInv
    <3>2. \A r \in Slots :
            task'[r].own => jobs'[task'[r].pool] # None /\ jobs'[task'[r].pool].running
      BY <2>4, <2>6 DEF CronInv, TaskInv
    <3>3. \A r, o \in Slots :
            task'[r].own /\ task'[o].own /\ task'[r].pool = task'[o].pool => r = o
      BY <2>6 DEF CronInv, TaskInv
    <3>4. ASSUME NEW q \in Pools, jobs'[q] # None, jobs'[q].running
          PROVE  \E r \in Slots : task'[r].pool = q /\ task'[r].own
      <4>1. q # p /\ jobs'[q] = jobs[q]  BY <2>3, <2>4, <3>4
      <4>2. PICK r \in Slots : task[r].pool = q /\ task[r].own
        BY <3>4, <4>1 DEF CronInv, TaskInv
      <4> QED  BY <1>3, <4>1, <4>2
    <3> QED  BY <3>1, <3>2, <3>3, <3>4 DEF TaskInv
  <2>8. StopInv'  BY <1>1, <1>3 DEF CronInv, StopInv
  <2> QED  BY <2>5, <2>7, <2>8 DEF CronInv
<1> QED  BY <1>4, <1>5

\* Steps that leave the tasks and the entries alone.
LEMMA TasksAlone ==
  ASSUME CronInv, UNCHANGED <<jobs, task>> PROVE TaskInv'
  BY DEF CronInv, TaskInv

\* The steps that touch neither entries nor tasks.
LEMMA OtherCronSteps ==
  ASSUME CronInv, \/ LoopWake \/ LoopExit \/ Cancel \/ Stop
                  \/ StopLoopDone \/ StopReturns \/ Tick
  PROVE  CronInv'
<1>1. UNCHANGED <<jobs, task>>
  BY DEF LoopWake, LoopExit, Cancel, Stop, StopLoopDone, StopReturns, Tick
<1>2. TaskInv'  BY <1>1, TasksAlone
<1>3. CASE LoopWake
  <2>1. StopInv'  BY <1>1, <1>3 DEF LoopWake, CronInv, StopInv
  <2> QED  BY <1>2, <1>3, <2>1 DEF LoopWake, CronInv, CronTypeOK
<1>4. CASE LoopExit
  <2>1. StopInv'  BY <1>1, <1>4 DEF LoopExit, CronInv, StopInv
  <2> QED  BY <1>2, <1>4, <2>1 DEF LoopExit, CronInv, CronTypeOK
<1>5. CASE Cancel
  <2>1. StopInv'  BY <1>1, <1>5 DEF Cancel, CronInv, StopInv
  <2> QED  BY <1>2, <1>5, <2>1 DEF Cancel, CronInv, CronTypeOK
<1>6. CASE Stop
  <2>1. StopInv'  BY <1>1, <1>6 DEF Stop, CronInv, StopInv
  <2> QED  BY <1>2, <1>6, <2>1 DEF Stop, CronInv, CronTypeOK
<1>7. CASE StopLoopDone
  <2>1. StopInv'  BY <1>1, <1>7 DEF StopLoopDone, CronInv, StopInv
  <2> QED  BY <1>2, <1>7, <2>1 DEF StopLoopDone, CronInv, CronTypeOK
<1>8. CASE StopReturns
  <2>1. loop = "done"  BY <1>8 DEF StopReturns, CronInv, StopInv
  <2>2. \A s \in Slots : task[s] = NoTask  BY <1>8, <2>1 DEF StopReturns, CronInv, StopInv
  <2>3. StopInv'  BY <1>1, <1>8, <2>1, <2>2 DEF StopReturns, CronInv, StopInv
  <2> QED  BY <1>2, <1>8, <2>3 DEF StopReturns, CronInv, CronTypeOK
<1>9. CASE Tick
  <2>1. StopInv'  BY <1>1, <1>9 DEF Tick, CronInv, StopInv
  <2>2. clock' \in 0..MaxTime  BY <1>9, SchedulerAssumption DEF Tick, CronInv, CronTypeOK
  <2> QED  BY <1>2, <1>9, <2>1, <2>2 DEF Tick, CronInv, CronTypeOK
<1> QED  BY <1>3, <1>4, <1>5, <1>6, <1>7, <1>8, <1>9

\* Every turn of the loop keeps the scheduler's invariant, ...
LEMMA LoopStepKeeps == ASSUME CronInv, LoopStep PROVE CronInv'
  BY LoopPlanKeeps, LoopFireKeeps, LoopLaunchKeeps, OtherCronSteps DEF LoopStep

\* ... every step of the scheduler does, ...
LEMMA CronStepKeeps == ASSUME CronInv, CronNext PROVE CronInv'
<1>1. CASE Configure
  BY <1>1, SyncFromDBKeeps, RegisterJobKeeps, UnregisterJobKeeps DEF Configure
<1> QED
  BY <1>1, StartKeeps, LoopStepKeeps, TaskReturnsKeeps, OtherCronSteps DEF CronNext

\* ... and every step that leaves it alone.
LEMMA CronAlone == ASSUME CronInv, UNCHANGED cronVars PROVE CronInv'
  BY DEF cronVars, CronInv, CronTypeOK, TaskInv, StopInv
----------------------------------------------------------------------------
(* The daemon.                                                             *)

\* The running scheduler's steps are steps of Scheduler, ...
LEMMA CronRunsSteps ==
  ASSUME CronRuns PROVE CronNext
  BY DEF CronRuns, CronNext

\* ... and so is what synchronising the schedules does to it.
LEMMA SyncSteps ==
  ASSUME SyncSchedules PROVE CronNext \/ UNCHANGED cronVars
  BY DEF SyncSchedules, CronNext, Configure

\* Whatever the daemon does, the scheduler makes a step of its own or none.
LEMMA SchedulerSteps ==
  ASSUME [Next]_vars PROVE CronNext \/ UNCHANGED cronVars
<1>1. CASE Crons  BY <1>1 DEF Crons
<1>2. CASE Life
  <2>1. CASE Booting
    BY <2>1, SyncSteps DEF Booting, OpenDatabase, StartLoops, NewClients, StartCron, Serve, CronNext
  <2>2. CASE Ending
    BY <2>2 DEF Ending, SelectError, SelectSignal, ShutdownReturns, StopCron,
                CloseDatabase, Exit, CronNext
  <2>3. CASE SignalArrives \/ RequestStep \/ \E l \in Loops : LoopRuns(l)
    BY <2>3 DEF SignalArrives, RequestStep, LoopRuns
  <2>4. CASE daemon # "off" /\ CronRuns  BY <2>4, CronRunsSteps
  <2> QED  BY <1>2, <2>1, <2>2, <2>3, <2>4 DEF Life
<1>3. CASE UNCHANGED vars  BY <1>3 DEF vars
<1> QED  BY <1>1, <1>2, <1>3 DEF Next

\* A scheduler that is new stays so until Start, and one whose Stop has returned
\* does nothing more.
LEMMA CronRunsMode ==
  ASSUME CronInv, CronRuns
  PROVE  /\ mode' = "new" <=> mode = "new"
         /\ stopper = "returned" => stopper' = "returned"
<1>1. CASE LoopStep
  BY <1>1 DEF LoopStep, LoopPlan, LoopWake, LoopFire, LoopLaunch, LoopExit, CronInv, StopInv
<1>2. CASE StopLoopDone \/ StopReturns \/ Tick
  BY <1>2 DEF StopLoopDone, StopReturns, Tick
<1>3. ASSUME NEW s \in Slots, TaskReturns(s)
      PROVE  UNCHANGED <<mode, stopper>>
  BY <1>3 DEF TaskReturns
<1>4. CASE signal /\ Cancel  BY <1>4 DEF Cancel
<1> QED  BY <1>1, <1>2, <1>3, <1>4 DEF CronRuns

\* Serving, signals and the order of the shutdown keep the daemon's invariant.
LEMMA LifeKeeps == ASSUME DaemonInv, Life PROVE LifeInv'
<1>1. mix = "life" /\ mix' = mix  BY DEF Life
<1> USE DEF LifeInv, DaemonTypeOK, HTTPTypeOK
<1>2. LifeInv /\ CronInv  BY DEF DaemonInv
<1>3. CASE OpenDatabase
  BY <1>1, <1>2, <1>3 DEF OpenDatabase, Steady, Go, cronVars, httpVars
<1>4. CASE StartLoops
  BY <1>1, <1>2, <1>4 DEF StartLoops, Go, cronVars, httpVars
<1>5. CASE NewClients
  BY <1>1, <1>2, <1>5 DEF NewClients, Steady, Go, cronVars, httpVars
<1>6. CASE SyncSchedules
  <2>1. mode' = mode /\ stopper' = stopper
    BY <1>6 DEF SyncSchedules, SyncFromDB, cronVars
  <2> QED  BY <1>1, <1>2, <1>6, <2>1 DEF SyncSchedules, Steady, Go, httpVars
<1>7. CASE StartCron
  BY <1>1, <1>2, <1>7 DEF StartCron, Start, Steady, Go, httpVars
<1>8. CASE Serve
  BY <1>1, <1>2, <1>8 DEF Serve, Go, cronVars
<1>9. CASE SelectError \/ ShutdownReturns
  BY <1>1, <1>2, <1>9
     DEF SelectError, ShutdownReturns, Drained, Steady, Go, cronVars, httpVars
<1>10. CASE SelectSignal
  BY <1>1, <1>2, <1>10 DEF SelectSignal, ShutdownBegins, Go, cronVars
<1>11. CASE StopCron
  BY <1>1, <1>2, <1>11 DEF StopCron, Stop, Active, Steady, Go, httpVars
<1>12. CASE CloseDatabase
  BY <1>1, <1>2, <1>12 DEF CloseDatabase, Steady, Go, cronVars, httpVars
<1>13. CASE Exit
  BY <1>1, <1>2, <1>13 DEF Exit, Go, cronVars
<1>14. CASE SignalArrives
  BY <1>1, <1>2, <1>14 DEF SignalArrives, cronVars, httpVars
<1>15. ASSUME NEW l \in Loops, LoopRuns(l) PROVE LifeInv'
  BY <1>1, <1>2, <1>15 DEF LoopRuns, cronVars, httpVars
<1>16. CASE RequestStep
  <2>1. CASE Listens
    BY <1>1, <1>2, <1>16, <2>1 DEF RequestStep, Listens, cronVars
  <2>2. ASSUME NEW q \in Heads, Arrives(q) PROVE LifeInv'
    <3>1. requests' \subseteq Kinds /\ http \in {"listening", "broken", "draining"} /\ http' = http
      BY <1>2, <2>2 DEF Arrives, Kind, Kinds
    <3> QED  BY <1>1, <1>2, <1>16, <3>1 DEF RequestStep, cronVars
  <2>3. ASSUME NEW kind \in Kinds, Answers(kind) PROVE LifeInv'
    BY <1>1, <1>2, <1>16, <2>3 DEF RequestStep, Answers, cronVars
  <2> QED  BY <1>16, <2>1, <2>2, <2>3 DEF RequestStep
<1>17. CASE CronRuns
  BY <1>1, <1>2, <1>17, CronRunsMode DEF CronRuns, lifeVars, httpVars
<1> QED
  BY <1>3, <1>4, <1>5, <1>6, <1>7, <1>8, <1>9, <1>10, <1>11, <1>12, <1>13, <1>14, <1>15,
     <1>16, <1>17 DEF Life, Booting, Ending

\* A daemon that has not started satisfies it.
LEMMA DaemonInitHolds == Init => DaemonInv
<1> SUFFICES ASSUME Init PROVE DaemonInv  OBVIOUS
<1>1. PICK now \in 0..MaxTime : Boot(now)
  BY SchedulerAssumption DEF Init, CronInit
<1>2. CronTypeOK  BY <1>1, NoTaskFields DEF Boot, CronTypeOK
<1>3. TaskInv  BY <1>1, NoTaskFields DEF Boot, TaskInv
<1>4. StopInv  BY <1>1 DEF Boot, StopInv
<1>5. LifeInv
  BY <1>1 DEF Init, LifeInit, HTTPInit, Boot, LifeInv, DaemonTypeOK, HTTPTypeOK
<1> QED  BY <1>2, <1>3, <1>4, <1>5 DEF DaemonInv, CronInv

\* Every step of the daemon keeps both invariants.
LEMMA DaemonStepKeeps == DaemonInv /\ [Next]_vars => DaemonInv'
<1> SUFFICES ASSUME DaemonInv, [Next]_vars PROVE DaemonInv'  OBVIOUS
<1>1. CronInv'  BY SchedulerSteps, CronStepKeeps, CronAlone DEF DaemonInv
<1>2. CASE Life  BY <1>1, <1>2, LifeKeeps DEF DaemonInv
<1>3. CASE Crons
  <2>1. LifeInv'
    BY <1>3 DEF Crons, lifeVars, httpVars, DaemonInv, LifeInv, DaemonTypeOK, HTTPTypeOK
  <2> QED  BY <1>1, <2>1 DEF DaemonInv
<1>4. CASE UNCHANGED vars
  <2>1. LifeInv'
    BY <1>4 DEF vars, cronVars, lifeVars, httpVars, DaemonInv, LifeInv, DaemonTypeOK, HTTPTypeOK
  <2> QED  BY <1>1, <2>1 DEF DaemonInv
<1> QED  BY <1>2, <1>3, <1>4 DEF Next

\* The inductive invariant: entries and tasks agree (CronInv), and the database, the
\* server and the scheduler are opened and closed in order (LifeInv).
THEOREM DaemonInvariance == Spec => []DaemonInv
  BY DaemonInitHolds, DaemonStepKeeps, PTL DEF Spec

\* The daemon, its server and its scheduler keep their types: in particular the
\* timer and every entry's next fire time are instants, however the schedules
\* and the clock meet.
THEOREM DaemonTypeCorrect == Spec => []TypeOK
<1>1. DaemonInv => TypeOK  BY DEF DaemonInv, CronInv, LifeInv, TypeOK
<1> QED  BY <1>1, DaemonInvariance, PTL

\* An entry's running flag is set exactly while a goroutine runs for it,
\* although entries are replaced under running tasks and due jobs are marked
\* before their goroutines start.
THEOREM RunningFlagsExact == Spec => []RunningFlagExact
<1>1. DaemonInv => RunningFlagExact
  BY TaskFields DEF DaemonInv, CronInv, TaskInv, RunningFlagExact
<1> QED  BY <1>1, DaemonInvariance, PTL

\* When the database is closed the scheduler's loop and its tasks have ended, and
\* so have the handlers unless Shutdown gave up or the listener broke.
THEOREM DatabaseOpenWhileUsed == Spec => []OpenWhileUsed
<1>1. DaemonInv => OpenWhileUsed
  <2> SUFFICES ASSUME DaemonInv PROVE OpenWhileUsed  OBVIOUS
  <2>1. ASSUME ~database
        PROVE  loop \in {"off", "done"} /\ \A s \in Slots : task[s] = NoTask
    <3>1. mode = "new" \/ stopper = "returned"  BY <2>1 DEF DaemonInv, LifeInv
    <3> QED  BY <3>1 DEF DaemonInv, CronInv, StopInv
  <2>2. ASSUME ~database, requests # {} PROVE http \in {"draining", "broken"}
    BY <2>2 DEF DaemonInv, LifeInv
  <2> QED  BY <2>1, <2>2 DEF OpenWhileUsed
<1> QED  BY <1>1, DaemonInvariance, PTL

----------------------------------------------------------------------------
(* The scheduler implements TaskGroup.                                     *)

\* A slot that is taken stays taken when others are.
LEMMA SpawnedStay ==
  ASSUME NEW P, NEW started, NEW s \in Slots, task[s] # NoTask
  PROVE  Spawned(P, started)[s] # NoTask
<1> DEFINE at == CHOOSE f \in Injection(P, FreeSlots) : TRUE
           t == [pool |-> CHOOSE p \in P : at[p] = s, own |-> TRUE, started |-> started]
<1>1. Spawned(P, started)[s] = t \/ Spawned(P, started)[s] = task[s]  BY DEF Spawned
<1>2. t.own = TRUE  OBVIOUS
<1> HIDE DEF t
<1> QED  BY <1>1, <1>2, NoTaskFields

\* While Stop does not wait for the tasks yet, some may begin.
LEMMA GroupBegins ==
  ASSUME stopper \in {"idle", "loop"}, stopper' = stopper,
         \A s \in Slots : task[s] # NoTask => task'[s] # NoTask
  PROVE  Group!GroupNext
<1> DEFINE busy == {s \in Slots : task[s] # NoTask}
           S == {s \in Slots : task[s] = NoTask /\ task'[s] # NoTask}
<1>1. S \in SUBSET (Slots \ busy)  OBVIOUS
<1>2. {s \in Slots : task'[s] # NoTask} = busy \cup S  OBVIOUS
<1>3. Group!Begin(S)  BY <1>2 DEF Group!Begin
<1> HIDE DEF S
<1>4. \E T \in SUBSET (Slots \ busy) : Group!Begin(T)  BY <1>1, <1>3 DEF Group!Begin
<1> QED  BY <1>4 DEF Group!GroupNext

\* The set of the tasks is the same, and Stop is where it was.
LEMMA GroupStays ==
  ASSUME stopper' = stopper, \A s \in Slots : task'[s] = NoTask <=> task[s] = NoTask
  PROVE  UNCHANGED Group!groupVars
<1>1. {s \in Slots : task'[s] # NoTask} = {s \in Slots : task[s] # NoTask}  OBVIOUS
<1> QED  BY <1>1 DEF Group!groupVars

\* A step of the scheduler is one of TaskGroup, or changes nothing there.
LEMMA GroupSteps ==
  ASSUME CronInv, CronNext PROVE Group!GroupNext \/ UNCHANGED Group!groupVars
<1>1. CASE Configure
  <2>1. ASSUME NEW rows, NEW last, SyncFromDB(rows, last) PROVE UNCHANGED Group!groupVars
    BY <2>1, GroupStays DEF SyncFromDB
  <2>2. ASSUME NEW p \in Pools, NEW sched \in Schedules, NEW last, RegisterJob(p, sched, last)
        PROVE  Group!GroupNext
    <3>1. stopper = "idle" /\ stopper' = stopper  BY <2>2 DEF RegisterJob, CronInv, StopInv
    <3>2. ASSUME NEW s \in Slots, task[s] # NoTask PROVE task'[s] # NoTask
      <4>1. task'[s] = Disown({p})[s]  BY <2>2, <3>2 DEF RegisterJob, FreeSlots
      <4> QED  BY <3>2, <4>1, DisownSets
    <3> QED  BY <3>1, <3>2, GroupBegins
  <2>3. ASSUME NEW p \in Pools, UnregisterJob(p) PROVE UNCHANGED Group!groupVars
    <3>1. \A s \in Slots : task'[s] = NoTask <=> task[s] = NoTask
      BY <2>3, DisownSets DEF UnregisterJob
    <3> QED  BY <2>3, <3>1, GroupStays DEF UnregisterJob
  <2> QED  BY <1>1, <2>1, <2>2, <2>3 DEF Configure
<1>2. CASE Start
  <2>1. stopper = "idle" /\ stopper' = stopper /\ \A s \in Slots : task[s] = NoTask
    BY <1>2 DEF Start, CronInv, StopInv
  <2> QED  BY <2>1, GroupBegins
<1>3. CASE LoopFire
  <2> DEFINE fire == {p \in Pools : Due(p) /\ ~jobs[p].running}
  <2>1. loop = "wait" /\ stopper' = stopper /\ task' = Spawned(fire, FALSE)
    BY <1>3 DEF LoopFire
  <2>2. stopper \in {"idle", "loop"}  BY <2>1 DEF CronInv, CronTypeOK, StopInv
  <2> HIDE DEF fire
  <2>3. \A s \in Slots : task[s] # NoTask => task'[s] # NoTask  BY <2>1, SpawnedStay
  <2> QED  BY <2>1, <2>2, <2>3, GroupBegins
<1>4. CASE LoopLaunch
  <2>1. stopper' = stopper  BY <1>4 DEF LoopLaunch
  <2>2. CASE task' = task  BY <2>1, <2>2, GroupStays
  <2>3. CASE task' # task
    <3>1. PICK s \in Slots : task[s] # NoTask /\ task' = [task EXCEPT ![s].started = TRUE]
      BY <1>4, <2>3 DEF LoopLaunch
    <3>2. task \in [Slots -> TaskType]  BY DEF CronInv, CronTypeOK
    <3> DEFINE t == [task[s] EXCEPT !.started = TRUE]
    <3>3. t.started = TRUE  BY <3>2 DEF TaskType
    <3>4. \A r \in Slots : task'[r] = IF r = s THEN t ELSE task[r]  BY <3>1, <3>2
    <3> HIDE DEF t
    <3>5. t # NoTask  BY <3>3, NoTaskFields
    <3> QED  BY <2>1, <3>1, <3>4, <3>5, GroupStays
  <2> QED  BY <2>2, <2>3
<1>5. ASSUME NEW s \in Slots, TaskReturns(s) PROVE Group!GroupNext
  <2>1. stopper' = stopper /\ task' = [task EXCEPT ![s] = NoTask] /\ task[s] # NoTask
    BY <1>5, TaskFields DEF TaskReturns
  <2>2. {r \in Slots : task'[r] # NoTask} = {r \in Slots : task[r] # NoTask} \ {s}
    BY <2>1 DEF CronInv, CronTypeOK
  <2>3. Group!End(s)  BY <2>1, <2>2 DEF Group!End
  <2> QED  BY <2>3 DEF Group!GroupNext
<1>6. CASE StopLoopDone
  <2>1. Group!Drain  BY <1>6 DEF StopLoopDone, Group!Drain
  <2> QED  BY <2>1 DEF Group!GroupNext
<1>7. CASE StopReturns
  <2>1. stopper = "tasks" /\ stopper' = "returned" /\ task' = task  BY <1>7 DEF StopReturns
  <2>2. \A s \in Slots : task[s] = NoTask
    BY <1>7, <2>1 DEF StopReturns, CronInv, StopInv
  <2>3. Group!Close  BY <2>1, <2>2 DEF Group!Close
  <2> QED  BY <2>3 DEF Group!GroupNext
<1>8. CASE Stop
  <2>1. stopper = "idle" /\ stopper' = "loop" /\ task' = task  BY <1>8 DEF Stop
  <2> QED  BY <2>1 DEF Group!groupVars
<1>9. CASE LoopPlan \/ LoopWake \/ LoopExit \/ Cancel \/ Tick
  BY <1>9, GroupStays DEF LoopPlan, LoopWake, LoopExit, Cancel, Tick
<1> QED  BY <1>1, <1>2, <1>3, <1>4, <1>5, <1>6, <1>7, <1>8, <1>9 DEF CronNext, LoopStep

\* The scheduler of the daemon implements the safety of TaskGroup: once Stop
\* waits for the tasks none begins, and it returns only when none is left, not
\* even one that fireDueJobs has marked and not started.
THEOREM DaemonImplementsTaskGroup == Spec => Group!GroupSafe
<1>1. Init => Group!GroupInit
  BY DEF Init, CronInit, Boot, Group!GroupInit
<1>2. DaemonInv /\ [Next]_vars => [Group!GroupNext]_(Group!groupVars)
  <2> SUFFICES ASSUME DaemonInv, [Next]_vars
               PROVE  Group!GroupNext \/ UNCHANGED Group!groupVars
    OBVIOUS
  <2>1. CASE CronNext  BY <2>1, GroupSteps DEF DaemonInv
  <2>2. CASE UNCHANGED cronVars  BY <2>2, GroupStays DEF cronVars
  <2> QED  BY <2>1, <2>2, SchedulerSteps
<1> QED  BY <1>1, <1>2, DaemonInvariance, PTL DEF Spec, Group!GroupSafe
=============================================================================
