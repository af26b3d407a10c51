------------------------ MODULE PoolControllerProofs ------------------------
(***************************************************************************)
(* Proofs about PoolController, for all pools, containers, goroutines,     *)
(* limits and worlds.  The inductive invariant IInv says where in the code *)
(* a goroutine can be with which locals (ControlOK), who holds provisionMu *)
(* (LockInv), and that Boot runs alone when callers wait for it (BootInv). *)
(* On it rest invariants of one concern each: the state during a boot      *)
(* (BootState), the counts the refill works with (CapInv), what the view   *)
(* knows of the host (ViewInv) and the quota on the host (QuotaInv).       *)
(***************************************************************************)
EXTENDS PoolController, FiniteSetTheorems, TLAPS

ControlOK(p) ==
  /\ loc[p].op = "none" <=> pc[p] \in {"idle", "ended"}
  /\ loc[p].op = "boot" => pc[p] \in {"boot", "audit", "merge", "ping", "pools",
                                      "cull", "fill", "spawn", "track"}
  /\ pc[p] \in {"boot", "ping"} => loc[p].op = "boot"
  /\ pc[p] \in {"audit", "merge"} => loc[p].op \in {"boot", "reconcile", "graceful"}
  /\ pc[p] = "reap" => loc[p].op \in {"reconcile", "event", "graceful"}
  /\ pc[p] \in {"eventLock", "eventPool"} => loc[p].op = "event"
  /\ pc[p] \in {"hookLock", "mark"} => loc[p].op = "webhook"
  /\ pc[p] \in {"sdIdle", "sdClean", "sdWait", "sdCheck"} => loc[p].op = "graceful"
  /\ loc[p].op = "webhook" => pc[p] \in {"hookLock", "mark", "spawn", "track"}
  /\ pc[p] \in {"drain", "drainNext"} \/ Draining(p)
       => /\ loc[p].ret \in {"reap", "load", "hung"}
          /\ loc[p].op \notin {"boot", "webhook"}
  /\ loc[p].ret = "reap" => loc[p].op \in {"reconcile", "event", "graceful"}
  /\ Draining(p) => pc[p] \in {"drainNext", "spawn", "track"}
  /\ pc[p] \in {"cull", "fill", "hookLock"} => loc[p].pool \in Pools
  /\ pc[p] \in {"spawn", "track"} /\ ~Draining(p) => loc[p].pool \in Pools
  /\ loc[p].op = "event" /\ pc[p] # "pools" => loc[p].pool \in Pools
  /\ pc[p] \in {"track", "mark"} => loc[p].r \in Runners

\* The pools still to process have a row, except those found to be removed.
PlanOK(p) ==
  /\ pc[p] = "idle" => plan[p].pools = {}
  /\ pc[p] # "drainPool" => \A q \in plan[p].pools : plan[p].cfg[q] # None

Locked(p) == pc[p] \notin Outside /\ loc[p].op # "boot"

LockInv == \A p \in Procs : Locked(p) <=> lock = p

BootInv ==
  \A p \in Procs :
    loc[p].op = "boot" =>
      /\ "boot" \in Roles[p]
      /\ BootFirst => lock = None /\ \A q \in Procs \ {p} : pc[q] = "idle"

IInv ==
  /\ TypeOK
  /\ \A p \in Procs : ControlOK(p) /\ PlanOK(p)
  /\ LockInv
  /\ BootInv

----------------------------------------------------------------------------
(* What a step of goroutine p must satisfy to preserve IInv.               *)

Others(p) ==
  \A q \in Procs \ {p} : /\ pc'[q] = pc[q] /\ loc'[q] = loc[q]
                         /\ plan'[q] = plan[q] /\ drain'[q] = drain[q]

LockStep(p) ==
  /\ Locked(p)' <=> lock' = p
  /\ lock' = lock \/ {lock, lock'} \subseteq {None, p}
  /\ loc'[p].op = "boot" => loc[p].op = "boot" /\ lock' = lock
  /\ pc[p] = "idle" => \/ "boot" \in Roles[p]
                       \/ BootFirst => \A q \in Procs : loc[q].op # "boot"

Step(p) == ProcTypeOK' /\ Others(p) /\ ControlOK(p)' /\ PlanOK(p)' /\ LockStep(p)

\* Such a step, with the shared state well typed, preserves IInv.
LEMMA StepPreserves ==
  ASSUME IInv, NEW p \in Procs, FleetTypeOK', CtlTypeOK', Step(p)
  PROVE  IInv'
<1>1. ASSUME NEW q \in Procs
      PROVE  ControlOK(q)' /\ PlanOK(q)' /\ (Locked(q)' <=> lock' = q)
  <2>1. CASE q = p
    BY <2>1 DEF Step, LockStep
  <2>2. CASE q # p
    <3>1. /\ pc'[q] = pc[q] /\ loc'[q] = loc[q]
          /\ plan'[q] = plan[q] /\ drain'[q] = drain[q]
      BY <2>2 DEF Step, Others
    <3>2. lock' = q <=> lock = q
      BY <2>2, ControllerAssumption DEF Step, LockStep
    <3>3. QED
      BY <3>1, <3>2 DEF IInv, ControlOK, PlanOK, Draining, LockInv, Locked
  <2>3. QED
    BY <2>1, <2>2
<1>2. ASSUME NEW q \in Procs, loc'[q].op = "boot"
      PROVE  /\ "boot" \in Roles[q]
             /\ BootFirst => lock' = None /\ \A x \in Procs \ {q} : pc'[x] = "idle"
  <2>1. CASE q = p
    BY <1>2, <2>1 DEF IInv, BootInv, Step, Others, LockStep
  <2>2. CASE q # p
    <3>1. loc[q].op = "boot"
      BY <1>2, <2>2 DEF Step, Others
    <3>2. "boot" \in Roles[q]
      BY <3>1 DEF IInv, BootInv
    <3>3. "boot" \notin Roles[p]
      BY <2>2, <3>2, ControllerAssumption
    <3>4. ~BootFirst
      BY <3>1, <2>2, <3>3 DEF IInv, BootInv, Step, LockStep
    <3>5. QED
      BY <3>2, <3>4
  <2>3. QED
    BY <2>1, <2>2
<1>3. QED
  BY <1>1, <1>2 DEF IInv, TypeOK, Step, LockInv, BootInv

\* The initial locals have their types.
LEMMA BlankTypes ==
  Blank \in LocalType /\ NoPlan \in PlanType /\ NoDrain \in DrainType
    /\ NoSnap \in [Runners -> Phases]
<1>1. NoRows \in Rows
  BY DEF NoRows, Rows
<1>2. Blank \in LocalType
  BY DEF Blank, LocalType, Labels
<1>3. NoPlan \in PlanType
  BY <1>1 DEF NoPlan, PlanType
<1>4. NoDrain \in DrainType
  BY <1>1 DEF NoDrain, DrainType
<1>5. NoSnap \in [Runners -> Phases]
  BY DEF NoSnap, Phases
<1>6. QED
  BY <1>2, <1>3, <1>4, <1>5

\* An operation that returns leaves its goroutine without locals or lock.
LEMMA ReturnStep ==
  ASSUME IInv, NEW p \in Procs, NEW label \in {"idle", "ended"},
         Return(p, label), UNCHANGED <<drain, snap>>, ~Draining(p),
         pc[p] = "idle" => (BootFirst => \A q \in Procs : loc[q].op # "boot")
  PROVE  Step(p) /\ lock' \in Procs \cup {None}
<1>. USE DEF Return, Goto
<1>1. ProcTypeOK'
  BY BlankTypes DEF IInv, TypeOK, ProcTypeOK, Labels
<1>2. Others(p)
  BY DEF IInv, TypeOK, ProcTypeOK, Others
<1>3. pc'[p] = label /\ loc'[p] = Blank /\ plan'[p] = NoPlan
  BY DEF IInv, TypeOK, ProcTypeOK
<1>4. ControlOK(p)'
  BY <1>3 DEF ControlOK, Draining, Blank
<1>5. LockStep(p)
  BY <1>3, ControllerAssumption
     DEF LockStep, Locked, Outside, Blank, IInv, LockInv, TypeOK, CtlTypeOK
<1>6. PlanOK(p)'
  BY <1>3 DEF PlanOK, NoPlan
<1>7. QED
  BY <1>1, <1>2, <1>4, <1>5, <1>6 DEF Step, IInv, TypeOK, CtlTypeOK

\* The types IInv gives, for the leaves that need one of them.
LEMMA Typed ==
  ASSUME IInv
  PROVE  /\ pc \in [Procs -> Labels] /\ loc \in [Procs -> LocalType]
         /\ plan \in [Procs -> PlanType] /\ drain \in [Procs -> DrainType]
         /\ snap \in [Procs -> [Runners -> Phases]]
         /\ queue \in Seq(Pools) /\ db \in Rows
BY DEF IInv, TypeOK, ProcTypeOK, CtlTypeOK

----------------------------------------------------------------------------
(* Type correctness of the containers and the view.                        *)

\* The engine's removals keep the host well typed.
LEMMA TerminateType ==
  ASSUME FleetTypeOK, NEW S, NEW stuck, Terminate(S, stuck)
  PROVE  /\ ctr' \in [Runners -> Phases]
         /\ working' \in SUBSET Runners
         /\ age' \in [Runners -> 0..2]
BY DEF FleetTypeOK, Terminate, Phases

\* Untracking removes the flags with the entry.
LEMMA UntrackType ==
  ASSUME FleetTypeOK, NEW S, UntrackRunners(S)
  PROVE  /\ tracked' \in [Runners -> Phases]
         /\ busy' \in SUBSET {r \in Runners : tracked'[r] # "none"}
         /\ onDemand' \in SUBSET {r \in Runners : tracked'[r] # "none"}
BY DEF FleetTypeOK, UntrackRunners, Phases

\* A removal that is untracked keeps the fleet well typed.
LEMMA TerminateUntrackType ==
  ASSUME FleetTypeOK, NEW S, NEW stuck, Terminate(S, stuck), UntrackRunners(S)
  PROVE  FleetTypeOK'
BY TerminateType, UntrackType DEF FleetTypeOK

\* An untouched fleet stays well typed.
LEMMA FleetSame ==
  ASSUME FleetTypeOK, UNCHANGED fleetVars
  PROVE  FleetTypeOK'
BY DEF FleetTypeOK, fleetVars, hostVars, viewVars

\* The reaping loops forget a container and note where drainQueue returns.
LEMMA SetKillRet ==
  ASSUME loc \in [Procs -> LocalType], NEW p \in Procs,
         NEW K \in SUBSET Runners, NEW l \in Labels,
         loc' = [loc EXCEPT ![p].kill = K, ![p].ret = l]
  PROVE  loc' \in [Procs -> LocalType]
BY DEF LocalType

\* reconcilePoolWithProvider turns to a pool.
LEMMA SetPoolKillDemand ==
  ASSUME loc \in [Procs -> LocalType], NEW p \in Procs, NEW q \in Pools,
         NEW K \in SUBSET Runners, NEW d \in BOOLEAN,
         loc' = [loc EXCEPT ![p].pool = q, ![p].kill = K, ![p].demand = d]
  PROVE  loc' \in [Procs -> LocalType]
<1>1. loc[p] \in LocalType
  OBVIOUS
<1>2. [loc[p] EXCEPT !.pool = q, !.kill = K, !.demand = d] \in LocalType
  BY <1>1 DEF LocalType
<1>3. QED
  BY <1>2

\* The counts the controller compares are natural numbers.
LEMMA ActiveFinite ==
  ASSUME NEW q
  PROVE  /\ IsFiniteSet(Active) /\ TotalActiveRunners \in Nat
         /\ IsFiniteSet(TrackedPoolRunners(q)) /\ PoolActiveCount(q) \in Nat
         /\ IsFiniteSet(Idle(q)) /\ Cardinality(Idle(q)) \in Nat
<1>1. /\ IsFiniteSet(Active)
      /\ IsFiniteSet(TrackedPoolRunners(q))
      /\ IsFiniteSet(Idle(q))
  <2>1. Active \in SUBSET Runners /\ TrackedPoolRunners(q) \in SUBSET Runners
        /\ Idle(q) \in SUBSET Runners
    BY DEF Active, TrackedPoolRunners, Idle
  <2>2. QED
    BY <2>1, FleetAssumption, FS_Subset
<1>2. QED
  BY <1>1, FS_CardinalityType DEF TotalActiveRunners, PoolActiveCount

\* Scale-down picks idle runners only.
LEMMA VictimsIdle ==
  ASSUME NEW c, NEW n, NEW idle, NEW t, NEW V \in Victims(c, n, idle, t)
  PROVE  V \subseteq idle
<1>1. PICK S \in OverCap(c, n, idle) : \E T \in OverTarget(c, idle \ S, t) : V = S \cup T
  BY DEF Victims
<1>2. S \subseteq idle
  BY DEF OverCap
<1>3. \A T \in OverTarget(c, idle \ S, t) : T \subseteq idle
  BY DEF OverTarget, Stale
<1>4. QED
  BY <1>1, <1>2, <1>3

\* effectiveTarget is an integer.
LEMMA TargetIsInteger ==
  ASSUME NEW c \in ConfigType, NEW n \in Nat, NEW i \in Nat, NEW k \in Nat
  PROVE  EffectiveTarget(c, n, i, k) \in Int
BY DEF EffectiveTarget, ConfigType, Lesser, Greater

\* What drainPool leaves of the queue, and the length QueueLengthForPool sees.
LEMMA DropRequestsType ==
  ASSUME queue \in Seq(Pools), NEW q, DropRequests(q)
  PROVE  queue' \in Seq(Pools)
<1>. DEFINE kept == {i \in DOMAIN queue : queue[i] # q}
            n == Cardinality(kept)
<1>1. n \in Nat
  <2>1. IsFiniteSet(DOMAIN queue)
    BY FS_Interval
  <2>2. QED
    BY <2>1, FS_Subset, FS_CardinalityType
<1>2. PICK f \in [1..n -> kept] : queue' = [i \in 1..n |-> queue[f[i]]]
  BY DEF DropRequests
<1>. HIDE DEF n
<1>3. \A i \in 1..n : queue[f[i]] \in Pools
  OBVIOUS
<1>4. QED
  BY <1>1, <1>2, <1>3

\* The number of queued requests of a pool is a natural number.
LEMMA QueueLengthType ==
  ASSUME queue \in Seq(Pools), NEW q
  PROVE  QueueLengthForPool(q) \in Nat
<1>1. IsFiniteSet(DOMAIN queue)
  BY FS_Interval
<1>2. QED
  BY <1>1, FS_Subset, FS_CardinalityType DEF QueueLengthForPool

\* A step of the world touches containers and the view only.
LEMMA QuietStep ==
  ASSUME IInv, FleetTypeOK', UNCHANGED <<ctlVars, dbVars, pc, locals>>
  PROVE  IInv'
<1>1. CtlTypeOK' /\ ProcTypeOK'
  BY DEF IInv, TypeOK, CtlTypeOK, ProcTypeOK, ctlVars, dbVars, locals
<1>2. \A p \in Procs : ControlOK(p)' /\ PlanOK(p)'
  BY DEF IInv, ControlOK, PlanOK, Draining, locals
<1>3. LockInv' /\ BootInv'
  BY DEF IInv, LockInv, BootInv, Locked, ctlVars, locals
<1>4. QED
  BY <1>1, <1>2, <1>3 DEF IInv, TypeOK

----------------------------------------------------------------------------
(* Each action preserves IInv.                                             *)

\* Boot starts with the audit, without provisionMu.
LEMMA BootKeeps ==
  ASSUME IInv, NEW p \in Procs, Boot(p)
  PROVE  IInv'
<1>1. FleetTypeOK'
  BY FleetSame DEF IInv, TypeOK, Boot, shared
<1>2. CtlTypeOK'
  BY DEF IInv, TypeOK, CtlTypeOK, Boot, shared, ctlVars, dbVars, States
<1>3. /\ pc[p] = "boot"
      /\ pc' = [pc EXCEPT ![p] = "audit"]
      /\ UNCHANGED <<loc, plan, drain, snap, lock>>
  BY DEF Boot, Goto, shared, ctlVars, locals
<1>4. Step(p)
  <2>1. ProcTypeOK'
    BY <1>3 DEF IInv, TypeOK, ProcTypeOK, Labels
  <2>2. Others(p)
    BY <1>3 DEF IInv, TypeOK, ProcTypeOK, Others
  <2>3. ControlOK(p)'
    BY <1>3 DEF IInv, TypeOK, ProcTypeOK, ControlOK, Draining
  <2>4. PlanOK(p)'
    BY <1>3, Typed DEF IInv, PlanOK
  <2>5. LockStep(p)
    BY <1>3, ControllerAssumption
       DEF IInv, TypeOK, ProcTypeOK, ControlOK, LockInv, LockStep, Locked, Outside
  <2>6. QED
    BY <2>1, <2>2, <2>3, <2>4, <2>5 DEF Step
<1>5. QED
  BY <1>1, <1>2, <1>4, StepPreserves

\* Boot loads the pools or gives up.
LEMMA BootLoadKeeps ==
  ASSUME IInv, NEW p \in Procs, BootLoad(p)
  PROVE  IInv'
<1>1. FleetTypeOK'
  BY FleetSame DEF IInv, TypeOK, BootLoad, shared
<1>2. CtlTypeOK'
  BY ControllerAssumption DEF IInv, TypeOK, CtlTypeOK, BootLoad, shared, ctlVars,
     dbVars, Return, States
<1>3. Step(p)
  <2>1. CASE /\ pc[p] = "ping"
            /\ pc' = [pc EXCEPT ![p] = "pools"]
            /\ plan' = [plan EXCEPT ![p].cfg = db,
                             ![p].pools = {q \in Pools : db[q] # None}]
            /\ UNCHANGED <<loc, drain, snap, lock>>
    <3>1. db \in Rows /\ {q \in Pools : db[q] # None} \in SUBSET Pools
      BY <2>1, Typed DEF PlanType
    <3>2. plan' \in [Procs -> PlanType]
      BY <2>1, <3>1, Typed, ZenonT(60) DEF PlanType
    <3>3. plan'[p].pools = {q \in Pools : db[q] # None} /\ plan'[p].cfg = db
      BY <2>1, Typed DEF PlanType
    <3>4. ProcTypeOK'
      BY <2>1, <3>2 DEF IInv, TypeOK, ProcTypeOK, Labels
    <3>5. Others(p)
      BY <2>1 DEF IInv, TypeOK, ProcTypeOK, Others
    <3>6. ControlOK(p)'
      BY <2>1 DEF IInv, TypeOK, ProcTypeOK, ControlOK, Draining
    <3>7. PlanOK(p)'
      BY <2>1, <3>3, Typed DEF IInv, PlanOK
    <3>8. LockStep(p)
      BY <2>1, ControllerAssumption
         DEF IInv, TypeOK, ProcTypeOK, ControlOK, LockInv, LockStep, Locked,
         Outside
    <3>9. QED
      BY <3>4, <3>5, <3>6, <3>7, <3>8 DEF Step
  <2>2. CASE Return(p, "ended") /\ UNCHANGED <<drain, snap>>
    BY <2>2, ReturnStep DEF BootLoad, IInv, ControlOK, Draining, Return
  <2>3. QED
    BY <2>1, <2>2 DEF BootLoad, Return, Goto, shared, ctlVars, locals
<1>4. QED
  BY <1>1, <1>2, <1>3, StepPreserves

\* Listing the containers changes nothing but the caller's snapshot.
LEMMA AuditListKeeps ==
  ASSUME IInv, NEW p \in Procs, AuditList(p)
  PROVE  IInv'
<1>1. FleetTypeOK'
  BY FleetSame DEF IInv, TypeOK, AuditList, shared
<1>2. CtlTypeOK'
  BY DEF IInv, TypeOK, CtlTypeOK, AuditList, shared, ctlVars, dbVars
<1>3. /\ AfterAudit(p) \in {"ping", "refresh", "sdCheck"}
      /\ (AfterAudit(p) = "ping" <=> loc[p].op = "boot")
      /\ (AfterAudit(p) = "sdCheck" => loc[p].op = "graceful")
  BY DEF IInv, ControlOK, AuditList, AfterAudit
<1>4. Step(p)
  <2>1. CASE /\ pc[p] = "audit"
            /\ pc' = [pc EXCEPT ![p] = "merge"]
            /\ snap' = [snap EXCEPT ![p] = ctr]
            /\ UNCHANGED <<loc, plan, drain, lock>>
    <3>1. ProcTypeOK'
      BY <2>1, <1>3, BlankTypes DEF IInv, TypeOK, ProcTypeOK, Labels, FleetTypeOK
    <3>2. Others(p)
      BY <2>1, <1>3 DEF IInv, TypeOK, ProcTypeOK, Others
    <3>3. ControlOK(p)'
      BY <2>1, <1>3 DEF IInv, TypeOK, ProcTypeOK, ControlOK, Draining
    <3>4. PlanOK(p)'
      BY <2>1, <1>3, Typed DEF IInv, PlanOK
    <3>5. LockStep(p)
      BY <2>1, <1>3, ControllerAssumption
         DEF IInv, TypeOK, ProcTypeOK, ControlOK, LockInv, LockStep, Locked,
         Outside
    <3>6. QED
      BY <3>1, <3>2, <3>3, <3>4, <3>5 DEF Step
  <2>2. CASE /\ pc[p] = "audit"
            /\ pc' = [pc EXCEPT ![p] = AfterAudit(p)]
            /\ UNCHANGED <<loc, plan, drain, snap, lock>>
    <3>1. ProcTypeOK'
      BY <2>2, <1>3 DEF IInv, TypeOK, ProcTypeOK, Labels
    <3>2. Others(p)
      BY <2>2, <1>3 DEF IInv, TypeOK, ProcTypeOK, Others
    <3>3. ControlOK(p)'
      BY <2>2, <1>3 DEF IInv, TypeOK, ProcTypeOK, ControlOK, Draining
    <3>4. PlanOK(p)'
      BY <2>2, <1>3, Typed DEF IInv, PlanOK
    <3>5. LockStep(p)
      BY <2>2, <1>3, ControllerAssumption
         DEF IInv, TypeOK, ProcTypeOK, ControlOK, LockInv, LockStep, Locked,
         Outside
    <3>6. QED
      BY <3>1, <3>2, <3>3, <3>4, <3>5 DEF Step
  <2>3. QED
    BY <2>1, <2>2, <1>3 DEF AuditList, Goto, shared, ctlVars, locals
<1>5. QED
  BY <1>1, <1>2, <1>4, StepPreserves

\* The merge hands the exited containers to the caller.
LEMMA AuditMergeKeeps ==
  ASSUME IInv, NEW p \in Procs, AuditMerge(p)
  PROVE  IInv'
<1>1. FleetTypeOK'
  BY DEF IInv, TypeOK, AuditMerge, FleetTypeOK, ProcTypeOK, MergeAudit, hostVars
<1>2. CtlTypeOK'
  BY DEF IInv, TypeOK, CtlTypeOK, AuditMerge, shared, ctlVars, dbVars
<1>3. Step(p)
  <2>1. CASE /\ pc[p] = "merge" /\ loc[p].op = "boot"
            /\ pc' = [pc EXCEPT ![p] = "ping"]
            /\ snap' = [snap EXCEPT ![p] = NoSnap]
            /\ UNCHANGED <<loc, plan, drain, lock>>
    <3>1. ProcTypeOK'
      BY <2>1, BlankTypes DEF IInv, TypeOK, ProcTypeOK, Labels, FleetTypeOK
    <3>2. Others(p)
      BY <2>1 DEF IInv, TypeOK, ProcTypeOK, Others
    <3>3. ControlOK(p)'
      BY <2>1 DEF IInv, TypeOK, ProcTypeOK, ControlOK, Draining
    <3>4. PlanOK(p)'
      BY <2>1, Typed DEF IInv, PlanOK
    <3>5. LockStep(p)
      BY <2>1, ControllerAssumption
         DEF IInv, TypeOK, ProcTypeOK, ControlOK, LockInv, LockStep, Locked,
         Outside
    <3>6. QED
      BY <3>1, <3>2, <3>3, <3>4, <3>5 DEF Step
  <2>2. CASE /\ pc[p] = "merge" /\ loc[p].op # "boot"
            /\ pc' = [pc EXCEPT ![p] = "reap"]
            /\ loc' = [loc EXCEPT ![p].kill = Exited(snap[p])]
            /\ snap' = [snap EXCEPT ![p] = NoSnap]
            /\ UNCHANGED <<plan, drain, lock>>
    <3>1. Exited(snap[p]) \in SUBSET Runners
      BY <2>2 DEF Exited
    <3>2. Exited(snap[p]) \in SUBSET Runners
      BY <2>2, <3>1, Typed DEF LocalType, Labels, Operations
    <3>3. loc' \in [Procs -> LocalType]
      BY <2>2, <3>2, Typed, ZenonT(60) DEF LocalType
    <3>4. /\ loc'[p].op = loc[p].op
          /\ loc'[p].ret = loc[p].ret
          /\ loc'[p].pool = loc[p].pool
          /\ loc'[p].r = loc[p].r
      BY <2>2, Typed DEF LocalType
    <3>5. ProcTypeOK'
      BY <2>2, <3>1, <3>3, BlankTypes DEF IInv, TypeOK, ProcTypeOK, Labels,
         FleetTypeOK
    <3>6. Others(p)
      BY <2>2 DEF IInv, TypeOK, ProcTypeOK, Others
    <3>7. ControlOK(p)'
      BY <2>2, <3>1, <3>4 DEF IInv, TypeOK, ProcTypeOK, ControlOK, Draining
    <3>8. PlanOK(p)'
      BY <2>2, <3>1, Typed DEF IInv, PlanOK
    <3>9. LockStep(p)
      BY <2>2, <3>1, <3>4, ControllerAssumption
         DEF IInv, TypeOK, ProcTypeOK, ControlOK, LockInv, LockStep, Locked,
         Outside
    <3>10. QED
      BY <3>5, <3>6, <3>7, <3>8, <3>9 DEF Step
  <2>3. QED
    BY <2>1, <2>2 DEF AuditMerge, Goto, shared, ctlVars, locals
<1>4. QED
  BY <1>1, <1>2, <1>3, StepPreserves

\* reapContainer goes through drainQueue and back.
LEMMA ReapKeeps ==
  ASSUME IInv, NEW p \in Procs, Reap(p)
  PROVE  IInv'
<1>1. FleetTypeOK'
  BY FleetSame, TerminateUntrackType DEF IInv, TypeOK, Reap
<1>2. CtlTypeOK'
  BY DEF IInv, TypeOK, CtlTypeOK, Reap, shared, ctlVars, dbVars
<1>3. /\ pc[p] = "reap"
      /\ AfterAudit(p) \in {"refresh", "eventPool", "sdCheck"}
      /\ (AfterAudit(p) = "eventPool" => loc[p].op = "event")
      /\ (AfterAudit(p) = "sdCheck" => loc[p].op = "graceful")
  BY DEF IInv, ControlOK, Reap, AfterAudit
<1>4. Step(p)
  <2>1. CASE /\ pc' = [pc EXCEPT ![p] = AfterAudit(p)]
            /\ UNCHANGED <<loc, plan, drain, snap, lock>>
    <3>1. ProcTypeOK'
      BY <2>1, <1>3 DEF IInv, TypeOK, ProcTypeOK, Labels
    <3>2. Others(p)
      BY <2>1, <1>3 DEF IInv, TypeOK, ProcTypeOK, Others
    <3>3. ControlOK(p)'
      BY <2>1, <1>3 DEF IInv, TypeOK, ProcTypeOK, ControlOK, Draining
    <3>4. PlanOK(p)'
      BY <2>1, <1>3, Typed DEF IInv, PlanOK
    <3>5. LockStep(p)
      BY <2>1, <1>3, ControllerAssumption
         DEF IInv, TypeOK, ProcTypeOK, ControlOK, LockInv, LockStep, Locked,
         Outside
    <3>6. QED
      BY <3>1, <3>2, <3>3, <3>4, <3>5 DEF Step
  <2>2. ASSUME NEW r \in loc[p].kill,
               pc' = [pc EXCEPT ![p] = "drain"],
               loc' = [loc EXCEPT ![p].kill = loc[p].kill \ {r},
                           ![p].ret = "reap"],
               UNCHANGED <<plan, drain, snap, lock>>
        PROVE  Step(p)
    <3>1. loc[p].kill \ {r} \in SUBSET Runners /\ "reap" \in Labels
      BY <2>2, <1>3, Typed DEF LocalType, Labels, Operations
    <3>2. loc' \in [Procs -> LocalType]
      BY <2>2, <3>1, Typed, SetKillRet DEF LocalType
    <3>3. /\ loc'[p].op = loc[p].op
          /\ loc'[p].ret = "reap"
          /\ loc'[p].pool = loc[p].pool
          /\ loc'[p].r = loc[p].r
      BY <2>2, Typed DEF LocalType
    <3>4. ProcTypeOK'
      BY <2>2, <1>3, <3>2 DEF IInv, TypeOK, ProcTypeOK, Labels
    <3>5. Others(p)
      BY <2>2, <1>3 DEF IInv, TypeOK, ProcTypeOK, Others
    <3>6. ControlOK(p)'
      BY <2>2, <1>3, <3>3 DEF IInv, TypeOK, ProcTypeOK, ControlOK, Draining
    <3>7. PlanOK(p)'
      BY <2>2, <1>3, Typed DEF IInv, PlanOK
    <3>8. LockStep(p)
      BY <2>2, <1>3, <3>3, ControllerAssumption
         DEF IInv, TypeOK, ProcTypeOK, ControlOK, LockInv, LockStep, Locked,
         Outside
    <3>9. QED
      BY <3>4, <3>5, <3>6, <3>7, <3>8 DEF Step
  <2>3. QED
    BY <2>1, <2>2, <1>3 DEF Reap, Goto, shared, ctlVars, locals
<1>5. QED
  BY <1>1, <1>2, <1>4, StepPreserves

\* drainQueue copies the queue, or returns where it was called.
LEMMA DrainQueueKeeps ==
  ASSUME IInv, NEW p \in Procs, DrainQueue(p)
  PROVE  IInv'
<1>1. FleetTypeOK'
  BY FleetSame DEF IInv, TypeOK, DrainQueue, shared
<1>2. CtlTypeOK'
  BY DEF IInv, TypeOK, CtlTypeOK, DrainQueue, shared, ctlVars, dbVars
<1>3. loc[p].ret \in {"reap", "load", "hung"} /\ loc[p].op # "webhook"
  BY DEF IInv, DrainQueue, ControlOK
<1>4. Step(p)
  <2>1. CASE /\ pc[p] = "drain"
            /\ pc' = [pc EXCEPT ![p] = "drainNext"]
            /\ drain' = [drain EXCEPT ![p] = [taken |-> Len(queue), batch |-> queue,
                 rest |-> <<>>, rows |-> db]]
            /\ UNCHANGED <<loc, plan, snap, lock>>
    <3>1. drain' \in [Procs -> DrainType]
      BY <2>1, Typed DEF DrainType
    <3>2. drain'[p].batch = queue
      BY <2>1, Typed DEF DrainType
    <3>3. ProcTypeOK'
      BY <2>1, <1>3, <3>1 DEF IInv, TypeOK, ProcTypeOK, Labels
    <3>4. Others(p)
      BY <2>1, <1>3 DEF IInv, TypeOK, ProcTypeOK, Others
    <3>5. ControlOK(p)'
      BY <2>1, <1>3, <3>2 DEF IInv, TypeOK, ProcTypeOK, ControlOK, Draining
    <3>6. PlanOK(p)'
      BY <2>1, <1>3, Typed DEF IInv, PlanOK
    <3>7. LockStep(p)
      BY <2>1, <1>3, <3>2, ControllerAssumption
         DEF IInv, TypeOK, ProcTypeOK, ControlOK, LockInv, LockStep, Locked,
         Outside
    <3>8. QED
      BY <3>3, <3>4, <3>5, <3>6, <3>7 DEF Step
  <2>2. CASE /\ pc[p] = "drain"
            /\ pc' = [pc EXCEPT ![p] = loc[p].ret]
            /\ UNCHANGED <<loc, plan, drain, snap, lock>>
    <3>1. ProcTypeOK'
      BY <2>2, <1>3 DEF IInv, TypeOK, ProcTypeOK, Labels
    <3>2. Others(p)
      BY <2>2, <1>3 DEF IInv, TypeOK, ProcTypeOK, Others
    <3>3. ControlOK(p)'
      BY <2>2, <1>3 DEF IInv, TypeOK, ProcTypeOK, ControlOK, Draining
    <3>4. PlanOK(p)'
      BY <2>2, <1>3, Typed DEF IInv, PlanOK
    <3>5. LockStep(p)
      BY <2>2, <1>3, ControllerAssumption
         DEF IInv, TypeOK, ProcTypeOK, ControlOK, LockInv, LockStep, Locked,
         Outside
    <3>6. QED
      BY <3>1, <3>2, <3>3, <3>4, <3>5 DEF Step
  <2>3. QED
    BY <2>1, <2>2, <1>3 DEF DrainQueue, Goto, shared, ctlVars, locals
<1>5. QED
  BY <1>1, <1>2, <1>4, StepPreserves

\* A turn of drainQueue stays inside it.
LEMMA DrainRequestKeeps ==
  ASSUME IInv, NEW p \in Procs, DrainRequest(p)
  PROVE  IInv'
<1>1. FleetTypeOK'
  BY FleetSame DEF IInv, TypeOK, DrainRequest, shared
<1>2. CtlTypeOK'
  BY DEF IInv, TypeOK, CtlTypeOK, DrainRequest, shared, ctlVars, dbVars
<1>3. /\ drain[p].batch # <<>>
      /\ Head(drain[p].batch) \in Pools
      /\ Tail(drain[p].batch) \in Seq(Pools)
  BY DEF IInv, TypeOK, ProcTypeOK, DrainType, DrainRequest
<1>4. Step(p)
  <2>1. CASE /\ pc[p] = "drainNext"
            /\ drain' = [drain EXCEPT ![p].batch = Tail(drain[p].batch)]
            /\ UNCHANGED <<pc, loc, plan, snap, lock>>
    <3>1. Tail(drain[p].batch) \in Seq(Pools)
      BY <2>1, <1>3, Typed DEF DrainType
    <3>2. drain' \in [Procs -> DrainType]
      BY <2>1, <3>1, Typed, ZenonT(60) DEF DrainType
    <3>3. drain'[p].batch = Tail(drain[p].batch)
      BY <2>1, Typed DEF DrainType
    <3>4. ProcTypeOK'
      BY <2>1, <1>3, <3>2 DEF IInv, TypeOK, ProcTypeOK, Labels
    <3>5. Others(p)
      BY <2>1, <1>3 DEF IInv, TypeOK, ProcTypeOK, Others
    <3>6. ControlOK(p)'
      BY <2>1, <1>3, <3>3 DEF IInv, TypeOK, ProcTypeOK, ControlOK, Draining
    <3>7. PlanOK(p)'
      BY <2>1, <1>3, Typed DEF IInv, PlanOK
    <3>8. LockStep(p)
      BY <2>1, <1>3, <3>3, ControllerAssumption
         DEF IInv, TypeOK, ProcTypeOK, ControlOK, LockInv, LockStep, Locked,
         Outside
    <3>9. QED
      BY <3>4, <3>5, <3>6, <3>7, <3>8 DEF Step
  <2>2. CASE /\ pc[p] = "drainNext"
            /\ drain' = [drain EXCEPT ![p].batch = Tail(drain[p].batch),
                               ![p].rest = Append(drain[p].rest, Head(drain[p].batch))]
            /\ UNCHANGED <<pc, loc, plan, snap, lock>>
    <3>1. /\ Tail(drain[p].batch) \in Seq(Pools)
          /\ Append(drain[p].rest, Head(drain[p].batch)) \in Seq(Pools)
      BY <2>2, <1>3, Typed DEF DrainType
    <3>2. drain' \in [Procs -> DrainType]
      BY <2>2, <3>1, Typed, ZenonT(60) DEF DrainType
    <3>3. drain'[p].batch = Tail(drain[p].batch)
      BY <2>2, Typed DEF DrainType
    <3>4. ProcTypeOK'
      BY <2>2, <1>3, <3>2 DEF IInv, TypeOK, ProcTypeOK, Labels
    <3>5. Others(p)
      BY <2>2, <1>3 DEF IInv, TypeOK, ProcTypeOK, Others
    <3>6. ControlOK(p)'
      BY <2>2, <1>3, <3>3 DEF IInv, TypeOK, ProcTypeOK, ControlOK, Draining
    <3>7. PlanOK(p)'
      BY <2>2, <1>3, Typed DEF IInv, PlanOK
    <3>8. LockStep(p)
      BY <2>2, <1>3, <3>3, ControllerAssumption
         DEF IInv, TypeOK, ProcTypeOK, ControlOK, LockInv, LockStep, Locked,
         Outside
    <3>9. QED
      BY <3>4, <3>5, <3>6, <3>7, <3>8 DEF Step
  <2>3. CASE /\ pc[p] = "drainNext"
            /\ pc' = [pc EXCEPT ![p] = "spawn"]
            /\ UNCHANGED <<loc, plan, drain, snap, lock>>
    <3>1. ProcTypeOK'
      BY <2>3, <1>3 DEF IInv, TypeOK, ProcTypeOK, Labels
    <3>2. Others(p)
      BY <2>3, <1>3 DEF IInv, TypeOK, ProcTypeOK, Others
    <3>3. ControlOK(p)'
      BY <2>3, <1>3 DEF IInv, TypeOK, ProcTypeOK, ControlOK, Draining
    <3>4. PlanOK(p)'
      BY <2>3, <1>3, Typed DEF IInv, PlanOK
    <3>5. LockStep(p)
      BY <2>3, <1>3, ControllerAssumption
         DEF IInv, TypeOK, ProcTypeOK, ControlOK, LockInv, LockStep, Locked,
         Outside
    <3>6. QED
      BY <3>1, <3>2, <3>3, <3>4, <3>5 DEF Step
  <2>4. QED
    BY <2>1, <2>2, <2>3, <1>3 DEF DrainRequest, Goto, shared, ctlVars, locals
<1>5. QED
  BY <1>1, <1>2, <1>4, StepPreserves

\* drainQueue stores what remains and returns where it was called.
LEMMA DrainStoreKeeps ==
  ASSUME IInv, NEW p \in Procs, DrainStore(p)
  PROVE  IInv'
<1>1. FleetTypeOK'
  BY FleetSame DEF IInv, TypeOK, DrainStore
<1>2. CtlTypeOK'
  BY DEF IInv, TypeOK, CtlTypeOK, DrainStore, shared, ctlVars, dbVars,
     ProcTypeOK, DrainType
<1>3. loc[p].ret \in {"reap", "load", "hung"}
  BY DEF IInv, DrainStore, ControlOK
<1>4. /\ pc[p] = "drainNext"
      /\ pc' = [pc EXCEPT ![p] = loc[p].ret]
      /\ drain' = [drain EXCEPT ![p] = NoDrain]
      /\ UNCHANGED <<loc, plan, snap, lock>>
  BY <1>3 DEF DrainStore, Goto, shared, ctlVars, locals
<1>5. Step(p)
  <2>1. drain' \in [Procs -> DrainType]
    BY <1>4, BlankTypes, Typed, ZenonT(60) DEF DrainType
  <2>2. drain'[p].batch = <<>>
    BY <1>4, Typed DEF DrainType, NoDrain
  <2>3. ProcTypeOK'
    BY <1>4, <1>3, <2>1 DEF IInv, TypeOK, ProcTypeOK, Labels
  <2>4. Others(p)
    BY <1>4, <1>3 DEF IInv, TypeOK, ProcTypeOK, Others
  <2>5. ControlOK(p)'
    BY <1>4, <1>3, <2>2 DEF IInv, TypeOK, ProcTypeOK, ControlOK, Draining
  <2>6. PlanOK(p)'
    BY <1>4, <1>3, Typed DEF IInv, PlanOK
  <2>7. LockStep(p)
    BY <1>4, <1>3, <2>2, ControllerAssumption
       DEF IInv, TypeOK, ProcTypeOK, ControlOK, LockInv, LockStep, Locked, Outside
  <2>8. QED
    BY <2>3, <2>4, <2>5, <2>6, <2>7 DEF Step
<1>6. QED
  BY <1>1, <1>2, <1>5, StepPreserves

\* The container is at hand when it comes to be tracked.
LEMMA SpawnKeeps ==
  ASSUME IInv, NEW p \in Procs, Spawn(p)
  PROVE  IInv'
<1>1. FleetTypeOK'
  BY DEF IInv, TypeOK, Spawn, FleetTypeOK, Phases, SpawnRunner, FreshIDs, viewVars
<1>2. CtlTypeOK'
  BY DEF IInv, TypeOK, CtlTypeOK, Spawn, shared, ctlVars, dbVars
<1>3. Step(p)
  <2>1. ASSUME NEW r \in Runners,
               pc[p] = "spawn",
               pc' = [pc EXCEPT ![p] = "track"],
               loc' = [loc EXCEPT ![p].r = r],
               UNCHANGED <<plan, drain, snap, lock>>
        PROVE  Step(p)
    <3>1. r \in Runners \cup {None}
      BY <2>1, Typed DEF LocalType, Labels, Operations
    <3>2. loc' \in [Procs -> LocalType]
      BY <2>1, <3>1, Typed, ZenonT(60) DEF LocalType
    <3>3. /\ loc'[p].op = loc[p].op
          /\ loc'[p].ret = loc[p].ret
          /\ loc'[p].pool = loc[p].pool
          /\ loc'[p].r = r
      BY <2>1, Typed DEF LocalType
    <3>4. ProcTypeOK'
      BY <2>1, <3>2 DEF IInv, TypeOK, ProcTypeOK, Labels
    <3>5. Others(p)
      BY <2>1 DEF IInv, TypeOK, ProcTypeOK, Others
    <3>6. ControlOK(p)'
      BY <2>1, <3>3 DEF IInv, TypeOK, ProcTypeOK, ControlOK, Draining
    <3>7. PlanOK(p)'
      BY <2>1, Typed DEF IInv, PlanOK
    <3>8. LockStep(p)
      BY <2>1, <3>3, ControllerAssumption
         DEF IInv, TypeOK, ProcTypeOK, ControlOK, LockInv, LockStep, Locked,
         Outside
    <3>9. QED
      BY <3>4, <3>5, <3>6, <3>7, <3>8 DEF Step
  <2>2. QED
    BY <2>1 DEF Spawn, FreshIDs, Goto, shared, ctlVars, locals
<1>4. QED
  BY <1>1, <1>2, <1>3, StepPreserves

\* Each caller of spawnSingleRunner handles its error.
LEMMA SpawnFailsKeeps ==
  ASSUME IInv, NEW p \in Procs, SpawnFails(p)
  PROVE  IInv'
<1>1. FleetTypeOK'
  BY FleetSame DEF IInv, TypeOK, SpawnFails
<1>2. CtlTypeOK'
  BY ControllerAssumption DEF IInv, TypeOK, CtlTypeOK, SpawnFails, shared,
     ctlVars, dbVars, Return, States
<1>3. Draining(p)
        => Head(drain[p].batch) \in Pools /\ Tail(drain[p].batch) \in Seq(Pools)
  BY Typed DEF Draining, DrainType
<1>4. Step(p)
  <2>1. CASE /\ pc[p] = "spawn" /\ Draining(p)
            /\ pc' = [pc EXCEPT ![p] = "drainNext"]
            /\ drain' = [drain EXCEPT ![p].batch = Tail(drain[p].batch),
                               ![p].rest = Append(drain[p].rest, Head(drain[p].batch))]
            /\ UNCHANGED <<loc, plan, snap, lock>>
    <3>1. /\ Tail(drain[p].batch) \in Seq(Pools)
          /\ Append(drain[p].rest, Head(drain[p].batch)) \in Seq(Pools)
      BY <2>1, <1>3, Typed DEF DrainType
    <3>2. drain' \in [Procs -> DrainType]
      BY <2>1, <3>1, Typed, ZenonT(60) DEF DrainType
    <3>3. drain'[p].batch = Tail(drain[p].batch)
      BY <2>1, Typed DEF DrainType
    <3>4. ProcTypeOK'
      BY <2>1, <1>3, <3>2 DEF IInv, TypeOK, ProcTypeOK, Labels
    <3>5. Others(p)
      BY <2>1, <1>3 DEF IInv, TypeOK, ProcTypeOK, Others
    <3>6. ControlOK(p)'
      BY <2>1, <1>3, <3>3 DEF IInv, TypeOK, ProcTypeOK, ControlOK, Draining
    <3>7. PlanOK(p)'
      BY <2>1, <1>3, Typed DEF IInv, PlanOK
    <3>8. LockStep(p)
      BY <2>1, <1>3, <3>3, ControllerAssumption
         DEF IInv, TypeOK, ProcTypeOK, ControlOK, LockInv, LockStep, Locked,
         Outside
    <3>9. QED
      BY <3>4, <3>5, <3>6, <3>7, <3>8 DEF Step
  <2>2. CASE /\ pc[p] = "spawn" /\ ~Draining(p) /\ loc[p].op # "webhook"
            /\ pc' = [pc EXCEPT ![p] = "pools"]
            /\ loc' = [loc EXCEPT ![p].pool = None, ![p].demand = FALSE]
            /\ plan' = [plan EXCEPT ![p].pools = plan[p].pools \ {loc[p].pool}, ![p].active = 0, ![p].need = 0]
            /\ UNCHANGED <<drain, snap, lock>>
    <3>1. None \in Pools \cup {None} /\ FALSE \in BOOLEAN
      BY <2>2, <1>3, Typed DEF LocalType, Labels, Operations
    <3>2. loc' \in [Procs -> LocalType]
      BY <2>2, <3>1, Typed, ZenonT(60) DEF LocalType
    <3>3. /\ loc'[p].op = loc[p].op
          /\ loc'[p].ret = loc[p].ret
          /\ loc'[p].pool = None
          /\ loc'[p].r = loc[p].r
      BY <2>2, Typed DEF LocalType
    <3>4. plan[p].pools \ {loc[p].pool} \in SUBSET Pools /\ 0 \in Int /\ 0 \in Int
      BY <2>2, <1>3, <3>2, Typed DEF PlanType
    <3>5. plan' \in [Procs -> PlanType]
      BY <2>2, <3>4, Typed, ZenonT(60) DEF PlanType
    <3>6. /\ plan'[p].pools = plan[p].pools \ {loc[p].pool}
          /\ plan'[p].cfg = plan[p].cfg
      BY <2>2, Typed DEF PlanType
    <3>7. ProcTypeOK'
      BY <2>2, <1>3, <3>2, <3>5 DEF IInv, TypeOK, ProcTypeOK, Labels
    <3>8. Others(p)
      BY <2>2, <1>3 DEF IInv, TypeOK, ProcTypeOK, Others
    <3>9. ControlOK(p)'
      BY <2>2, <1>3, <3>3 DEF IInv, TypeOK, ProcTypeOK, ControlOK, Draining
    <3>10. PlanOK(p)'
      BY <2>2, <1>3, <3>6, Typed DEF IInv, PlanOK
    <3>11. LockStep(p)
      BY <2>2, <1>3, <3>3, ControllerAssumption
         DEF IInv, TypeOK, ProcTypeOK, ControlOK, LockInv, LockStep, Locked,
         Outside
    <3>12. QED
      BY <3>7, <3>8, <3>9, <3>10, <3>11 DEF Step
  <2>3. CASE Return(p, "idle") /\ UNCHANGED <<drain, snap>> /\ ~Draining(p)
    BY <2>3, ReturnStep, <1>3 DEF SpawnFails, IInv, ControlOK, Draining, NextPool
  <2>4. QED
    BY <2>1, <2>2, <2>3, <1>3 DEF SpawnFails, NextPool, Goto, shared, ctlVars,
       locals
<1>5. QED
  BY <1>1, <1>2, <1>4, StepPreserves

\* Each caller of spawnSingleRunner goes on after it.
LEMMA TrackKeeps ==
  ASSUME IInv, NEW p \in Procs, Track(p)
  PROVE  IInv'
<1>1. FleetTypeOK'
  BY Typed DEF IInv, TypeOK, Track, FleetTypeOK, Phases, LocalType, ControlOK,
     TrackRunner, hostVars
<1>2. CtlTypeOK'
  BY ControllerAssumption DEF IInv, TypeOK, CtlTypeOK, Track, shared, ctlVars,
     dbVars, Return, States
<1>3. Draining(p)
        => Head(drain[p].batch) \in Pools /\ Tail(drain[p].batch) \in Seq(Pools)
  BY Typed DEF Draining, DrainType
<1>4. Step(p)
  <2>1. CASE /\ pc[p] = "track" /\ Draining(p)
            /\ pc' = [pc EXCEPT ![p] = "drainNext"]
            /\ loc' = [loc EXCEPT ![p].r = None]
            /\ drain' = [drain EXCEPT ![p].batch = Tail(drain[p].batch)]
            /\ UNCHANGED <<plan, snap, lock>>
    <3>1. None \in Runners \cup {None}
      BY <2>1, <1>3, Typed DEF LocalType, Labels, Operations
    <3>2. loc' \in [Procs -> LocalType]
      BY <2>1, <3>1, Typed, ZenonT(60) DEF LocalType
    <3>3. /\ loc'[p].op = loc[p].op
          /\ loc'[p].ret = loc[p].ret
          /\ loc'[p].pool = loc[p].pool
          /\ loc'[p].r = None
      BY <2>1, Typed DEF LocalType
    <3>4. Tail(drain[p].batch) \in Seq(Pools)
      BY <2>1, <1>3, <3>2, Typed DEF DrainType
    <3>5. drain' \in [Procs -> DrainType]
      BY <2>1, <3>4, Typed, ZenonT(60) DEF DrainType
    <3>6. drain'[p].batch = Tail(drain[p].batch)
      BY <2>1, Typed DEF DrainType
    <3>7. ProcTypeOK'
      BY <2>1, <1>3, <3>2, <3>5 DEF IInv, TypeOK, ProcTypeOK, Labels
    <3>8. Others(p)
      BY <2>1, <1>3 DEF IInv, TypeOK, ProcTypeOK, Others
    <3>9. ControlOK(p)'
      BY <2>1, <1>3, <3>3, <3>6 DEF IInv, TypeOK, ProcTypeOK, ControlOK, Draining
    <3>10. PlanOK(p)'
      BY <2>1, <1>3, Typed DEF IInv, PlanOK
    <3>11. LockStep(p)
      BY <2>1, <1>3, <3>3, <3>6, ControllerAssumption
         DEF IInv, TypeOK, ProcTypeOK, ControlOK, LockInv, LockStep, Locked,
         Outside
    <3>12. QED
      BY <3>7, <3>8, <3>9, <3>10, <3>11 DEF Step
  <2>2. CASE /\ pc[p] = "track" /\ ~Draining(p) /\ loc[p].op # "webhook"
            /\ pc' = [pc EXCEPT ![p] = "fill"]
            /\ loc' = [loc EXCEPT ![p].r = None]
            /\ plan' = [plan EXCEPT ![p].active = plan[p].active + 1,
                             ![p].need = plan[p].need - 1]
            /\ UNCHANGED <<drain, snap, lock>>
    <3>1. None \in Runners \cup {None}
      BY <2>2, <1>3, Typed DEF LocalType, Labels, Operations
    <3>2. loc' \in [Procs -> LocalType]
      BY <2>2, <3>1, Typed, ZenonT(60) DEF LocalType
    <3>3. /\ loc'[p].op = loc[p].op
          /\ loc'[p].ret = loc[p].ret
          /\ loc'[p].pool = loc[p].pool
          /\ loc'[p].r = None
      BY <2>2, Typed DEF LocalType
    <3>4. plan[p].active + 1 \in Int /\ plan[p].need - 1 \in Int
      BY <2>2, <1>3, <3>2, Typed DEF PlanType
    <3>5. plan' \in [Procs -> PlanType]
      BY <2>2, <3>4, Typed, ZenonT(60) DEF PlanType
    <3>6. plan'[p].pools = plan[p].pools /\ plan'[p].cfg = plan[p].cfg
      BY <2>2, Typed DEF PlanType
    <3>7. ProcTypeOK'
      BY <2>2, <1>3, <3>2, <3>5 DEF IInv, TypeOK, ProcTypeOK, Labels
    <3>8. Others(p)
      BY <2>2, <1>3 DEF IInv, TypeOK, ProcTypeOK, Others
    <3>9. ControlOK(p)'
      BY <2>2, <1>3, <3>3 DEF IInv, TypeOK, ProcTypeOK, ControlOK, Draining
    <3>10. PlanOK(p)'
      BY <2>2, <1>3, <3>6, Typed DEF IInv, PlanOK
    <3>11. LockStep(p)
      BY <2>2, <1>3, <3>3, ControllerAssumption
         DEF IInv, TypeOK, ProcTypeOK, ControlOK, LockInv, LockStep, Locked,
         Outside
    <3>12. QED
      BY <3>7, <3>8, <3>9, <3>10, <3>11 DEF Step
  <2>3. CASE Return(p, "idle") /\ UNCHANGED <<drain, snap>> /\ ~Draining(p)
    BY <2>3, ReturnStep, <1>3 DEF Track, IInv, ControlOK, Draining
  <2>4. QED
    BY <2>1, <2>2, <2>3, <1>3 DEF Track, Goto, shared, ctlVars, locals
<1>5. QED
  BY <1>1, <1>2, <1>4, StepPreserves

\* Boot, Reconcile and the event handler return when no pool is left.
LEMMA PoolsDoneKeeps ==
  ASSUME IInv, NEW p \in Procs, PoolsDone(p)
  PROVE  IInv'
<1>1. FleetTypeOK'
  BY FleetSame DEF IInv, TypeOK, PoolsDone
<1>2. CtlTypeOK'
  BY ControllerAssumption DEF IInv, TypeOK, CtlTypeOK, PoolsDone, shared,
     ctlVars, dbVars, Return, States
<1>3. Step(p)
  BY ReturnStep DEF PoolsDone, IInv, ControlOK, Draining
<1>4. QED
  BY <1>1, <1>2, <1>3, StepPreserves

\* Skipping a pool keeps the rest of the plan.
LEMMA SkipPoolKeeps ==
  ASSUME IInv, NEW p \in Procs, SkipPool(p)
  PROVE  IInv'
<1>1. FleetTypeOK'
  BY FleetSame DEF IInv, TypeOK, SkipPool, shared
<1>2. CtlTypeOK'
  BY DEF IInv, TypeOK, CtlTypeOK, SkipPool, shared, ctlVars, dbVars
<1>3. Step(p)
  <2>1. ASSUME NEW q \in plan[p].pools,
               pc[p] = "pools",
               plan' = [plan EXCEPT ![p].pools = plan[p].pools \ {q}],
               UNCHANGED <<pc, loc, drain, snap, lock>>
        PROVE  Step(p)
    <3>1. plan[p].pools \ {q} \in SUBSET Pools
      BY <2>1, Typed DEF PlanType
    <3>2. plan' \in [Procs -> PlanType]
      BY <2>1, <3>1, Typed, ZenonT(60) DEF PlanType
    <3>3. plan'[p].pools = plan[p].pools \ {q} /\ plan'[p].cfg = plan[p].cfg
      BY <2>1, Typed DEF PlanType
    <3>4. ProcTypeOK'
      BY <2>1, <3>2 DEF IInv, TypeOK, ProcTypeOK, Labels
    <3>5. Others(p)
      BY <2>1 DEF IInv, TypeOK, ProcTypeOK, Others
    <3>6. ControlOK(p)'
      BY <2>1 DEF IInv, TypeOK, ProcTypeOK, ControlOK, Draining
    <3>7. PlanOK(p)'
      BY <2>1, <3>3, Typed DEF IInv, PlanOK
    <3>8. LockStep(p)
      BY <2>1, ControllerAssumption
         DEF IInv, TypeOK, ProcTypeOK, ControlOK, LockInv, LockStep, Locked,
         Outside
    <3>9. QED
      BY <3>4, <3>5, <3>6, <3>7, <3>8 DEF Step
  <2>2. QED
    BY <2>1 DEF SkipPool, Goto, shared, ctlVars, locals
<1>4. QED
  BY <1>1, <1>2, <1>3, StepPreserves

\* The plan for a pool is made of integers and idle runners of its row.
LEMMA PlanPoolKeeps ==
  ASSUME IInv, NEW p \in Procs, PlanPool(p)
  PROVE  IInv'
<1>1. FleetTypeOK'
  BY FleetSame DEF IInv, TypeOK, PlanPool, shared
<1>2. CtlTypeOK'
  BY DEF IInv, TypeOK, CtlTypeOK, PlanPool, shared, ctlVars, dbVars
<1>3. PICK q \in plan[p].pools, polled \in 0..MaxPolled :
        LET c == plan[p].cfg[q]
            active == PoolActiveCount(q)
            target == EffectiveTarget(c, active, Cardinality(Idle(q)), polled)
        IN  \E V \in Victims(c, active, Idle(q), target) :
              /\ loc' = [loc EXCEPT ![p].pool = q, ![p].kill = V,
                           ![p].demand = (c.min = 0 \/ c.polling)]
              /\ plan' = [plan EXCEPT ![p].active = active - Cardinality(V),
                                      ![p].need = target]
  BY DEF PlanPool
<1>. DEFINE c == plan[p].cfg[q]
            active == PoolActiveCount(q)
            target == EffectiveTarget(c, active, Cardinality(Idle(q)), polled)
            d == c.min = 0 \/ c.polling
<1>4. PICK V \in Victims(c, active, Idle(q), target) :
        /\ loc' = [loc EXCEPT ![p].pool = q, ![p].kill = V, ![p].demand = d]
        /\ plan' = [plan EXCEPT ![p].active = active - Cardinality(V),
                                ![p].need = target]
  BY <1>3
<1>5. q \in Pools /\ V \in SUBSET Runners
  <2>1. V \subseteq Idle(q)
    BY <1>4, VictimsIdle
  <2>2. q \in Pools
    BY Typed DEF PlanType
  <2>3. QED
    BY <2>1, <2>2 DEF Idle, TrackedPoolRunners, Active
<1>6. c \in ConfigType
  <2>1. plan[p] \in PlanType /\ pc[p] = "pools"
    BY Typed DEF PlanPool
  <2>2. plan[p].cfg \in Rows
    BY <2>1 DEF PlanType
  <2>3. c \in PoolConfigs \cup {None}
    BY <2>2, <1>5 DEF Rows
  <2>4. c # None
    BY <2>1 DEF IInv, PlanOK
  <2>5. QED
    BY <2>3, <2>4, ControllerAssumption
<1>7. active - Cardinality(V) \in Int /\ target \in Int
  <2>1. active \in Nat /\ Cardinality(Idle(q)) \in Nat
    BY ActiveFinite
  <2>2. polled \in Nat
    BY ControllerAssumption
  <2>3. target \in Int
    BY <1>6, <2>1, <2>2, TargetIsInteger
  <2>4. Cardinality(V) \in Nat
    BY <1>5, FleetAssumption, FS_Subset, FS_CardinalityType
  <2>5. QED
    BY <2>1, <2>3, <2>4
<1>8. d \in BOOLEAN
  OBVIOUS
<1>. HIDE DEF c, active, target, d
<1>9. /\ pc[p] = "pools" /\ pc' = [pc EXCEPT ![p] = "cull"]
      /\ UNCHANGED <<drain, snap, lock>>
  BY DEF PlanPool, Goto, shared, ctlVars
<1>10. Step(p)
  <2>1. loc' \in [Procs -> LocalType]
    BY <1>4, <1>5, <1>8, Typed, SetPoolKillDemand
  <2>2. /\ loc'[p].op = loc[p].op /\ loc'[p].ret = loc[p].ret
        /\ loc'[p].r = loc[p].r /\ loc'[p].pool = q
    BY <1>4, Typed DEF LocalType
  <2>3. plan' \in [Procs -> PlanType]
    BY <1>4, <1>7, Typed, ZenonT(60) DEF PlanType
  <2>4. ProcTypeOK'
    BY <1>9, <2>1, <2>3 DEF IInv, TypeOK, ProcTypeOK, Labels
  <2>5. Others(p)
    BY <1>4, <1>9, Typed DEF Others
  <2>6. ControlOK(p)'
    BY <1>5, <1>9, <2>2, Typed DEF IInv, ControlOK, Draining
  <2>7. plan'[p].pools = plan[p].pools /\ plan'[p].cfg = plan[p].cfg
    BY <1>4, Typed DEF PlanType
  <2>8. PlanOK(p)'
    BY <1>9, <2>7, Typed DEF IInv, PlanOK
  <2>9. LockStep(p)
    BY <1>9, <2>2, Typed
       DEF IInv, ControlOK, LockInv, LockStep, Locked, Outside
  <2>10. QED
    BY <2>4, <2>5, <2>6, <2>8, <2>9 DEF Step
<1>11. QED
  BY <1>1, <1>2, <1>10, StepPreserves

\* Draining idle runners stays with the pool at hand.
LEMMA CullKeeps ==
  ASSUME IInv, NEW p \in Procs, Cull(p)
  PROVE  IInv'
<1>1. FleetTypeOK'
  BY TerminateUntrackType DEF IInv, TypeOK, Cull
<1>2. CtlTypeOK'
  BY DEF IInv, TypeOK, CtlTypeOK, Cull, shared, ctlVars, dbVars
<1>3. Step(p)
  <2>1. ASSUME NEW r \in loc[p].kill,
               pc[p] = "cull",
               loc' = [loc EXCEPT ![p].kill = loc[p].kill \ {r}],
               UNCHANGED <<pc, plan, drain, snap, lock>>
        PROVE  Step(p)
    <3>1. loc[p].kill \ {r} \in SUBSET Runners
      BY <2>1, Typed DEF LocalType, Labels, Operations
    <3>2. loc' \in [Procs -> LocalType]
      BY <2>1, <3>1, Typed, ZenonT(60) DEF LocalType
    <3>3. /\ loc'[p].op = loc[p].op
          /\ loc'[p].ret = loc[p].ret
          /\ loc'[p].pool = loc[p].pool
          /\ loc'[p].r = loc[p].r
      BY <2>1, Typed DEF LocalType
    <3>4. ProcTypeOK'
      BY <2>1, <3>2 DEF IInv, TypeOK, ProcTypeOK, Labels
    <3>5. Others(p)
      BY <2>1 DEF IInv, TypeOK, ProcTypeOK, Others
    <3>6. ControlOK(p)'
      BY <2>1, <3>3 DEF IInv, TypeOK, ProcTypeOK, ControlOK, Draining
    <3>7. PlanOK(p)'
      BY <2>1, Typed DEF IInv, PlanOK
    <3>8. LockStep(p)
      BY <2>1, <3>3, ControllerAssumption
         DEF IInv, TypeOK, ProcTypeOK, ControlOK, LockInv, LockStep, Locked,
         Outside
    <3>9. QED
      BY <3>4, <3>5, <3>6, <3>7, <3>8 DEF Step
  <2>2. QED
    BY <2>1 DEF Cull, Goto, shared, ctlVars, locals
<1>4. QED
  BY <1>1, <1>2, <1>3, StepPreserves

\* The number of runners needed is an integer.
LEMMA CullDoneKeeps ==
  ASSUME IInv, NEW p \in Procs, CullDone(p)
  PROVE  IInv'
<1>1. FleetTypeOK'
  BY FleetSame DEF IInv, TypeOK, CullDone, shared
<1>2. CtlTypeOK'
  BY DEF IInv, TypeOK, CtlTypeOK, CullDone, shared, ctlVars, dbVars
<1>3. /\ pc[p] = "cull"
      /\ pc' = [pc EXCEPT ![p] = "fill"]
      /\ plan' = [plan EXCEPT ![p].need = plan[p].need - (plan[p].active + QueueLengthForPool(loc[p].pool))]
      /\ UNCHANGED <<loc, drain, snap, lock>>
  BY DEF CullDone, Goto, shared, ctlVars, locals
<1>4. Step(p)
  <2>1. QueueLengthForPool(loc[p].pool) \in Nat
    BY <1>3, QueueLengthType, Typed DEF LocalType
  <2>2. plan[p].need - (plan[p].active + QueueLengthForPool(loc[p].pool)) \in Int
    BY <1>3, <2>1, Typed DEF PlanType
  <2>3. plan' \in [Procs -> PlanType]
    BY <1>3, <2>2, Typed, ZenonT(60) DEF PlanType
  <2>4. plan'[p].pools = plan[p].pools /\ plan'[p].cfg = plan[p].cfg
    BY <1>3, Typed DEF PlanType
  <2>5. ProcTypeOK'
    BY <1>3, <2>1, <2>3 DEF IInv, TypeOK, ProcTypeOK, Labels
  <2>6. Others(p)
    BY <1>3 DEF IInv, TypeOK, ProcTypeOK, Others
  <2>7. ControlOK(p)'
    BY <1>3, <2>1 DEF IInv, TypeOK, ProcTypeOK, ControlOK, Draining
  <2>8. PlanOK(p)'
    BY <1>3, <2>4, <2>1, Typed DEF IInv, PlanOK
  <2>9. LockStep(p)
    BY <1>3, <2>1, ControllerAssumption
       DEF IInv, TypeOK, ProcTypeOK, ControlOK, LockInv, LockStep, Locked, Outside
  <2>10. QED
    BY <2>5, <2>6, <2>7, <2>8, <2>9 DEF Step
<1>5. QED
  BY <1>1, <1>2, <1>4, StepPreserves

\* The refill loop leaves the pool, queues a request or spawns.
LEMMA FillKeeps ==
  ASSUME IInv, NEW p \in Procs, Fill(p)
  PROVE  IInv'
<1>1. FleetTypeOK'
  BY FleetSame DEF IInv, TypeOK, Fill
<1>2. CtlTypeOK'
  <2>1. loc[p].pool \in Pools /\ queue \in Seq(Pools)
    BY Typed DEF IInv, ControlOK, Fill
  <2>2. queue' = queue \/ queue' = Append(queue, loc[p].pool)
    BY DEF Fill
  <2>3. queue' \in Seq(Pools)
    BY <2>1, <2>2
  <2>4. QED
    BY <2>3 DEF IInv, TypeOK, CtlTypeOK, Fill, dbVars
<1>3. loc[p].op # "webhook" /\ loc[p].pool \in Pools /\ ~Draining(p)
  BY DEF IInv, Fill, ControlOK
<1>4. Step(p)
  <2>1. CASE /\ pc[p] = "fill"
            /\ pc' = [pc EXCEPT ![p] = "pools"]
            /\ loc' = [loc EXCEPT ![p].pool = None, ![p].demand = FALSE]
            /\ plan' = [plan EXCEPT ![p].pools = plan[p].pools \ {loc[p].pool}, ![p].active = 0, ![p].need = 0]
            /\ UNCHANGED <<drain, snap, lock>>
    <3>1. None \in Pools \cup {None} /\ FALSE \in BOOLEAN
      BY <2>1, <1>3, Typed DEF LocalType, Labels, Operations
    <3>2. loc' \in [Procs -> LocalType]
      BY <2>1, <3>1, Typed, ZenonT(60) DEF LocalType
    <3>3. /\ loc'[p].op = loc[p].op
          /\ loc'[p].ret = loc[p].ret
          /\ loc'[p].pool = None
          /\ loc'[p].r = loc[p].r
      BY <2>1, Typed DEF LocalType
    <3>4. plan[p].pools \ {loc[p].pool} \in SUBSET Pools /\ 0 \in Int /\ 0 \in Int
      BY <2>1, <1>3, <3>2, Typed DEF PlanType
    <3>5. plan' \in [Procs -> PlanType]
      BY <2>1, <3>4, Typed, ZenonT(60) DEF PlanType
    <3>6. /\ plan'[p].pools = plan[p].pools \ {loc[p].pool}
          /\ plan'[p].cfg = plan[p].cfg
      BY <2>1, Typed DEF PlanType
    <3>7. ProcTypeOK'
      BY <2>1, <1>3, <3>2, <3>5 DEF IInv, TypeOK, ProcTypeOK, Labels
    <3>8. Others(p)
      BY <2>1, <1>3 DEF IInv, TypeOK, ProcTypeOK, Others
    <3>9. ControlOK(p)'
      BY <2>1, <1>3, <3>3 DEF IInv, TypeOK, ProcTypeOK, ControlOK, Draining
    <3>10. PlanOK(p)'
      BY <2>1, <1>3, <3>6, Typed DEF IInv, PlanOK
    <3>11. LockStep(p)
      BY <2>1, <1>3, <3>3, ControllerAssumption
         DEF IInv, TypeOK, ProcTypeOK, ControlOK, LockInv, LockStep, Locked,
         Outside
    <3>12. QED
      BY <3>7, <3>8, <3>9, <3>10, <3>11 DEF Step
  <2>2. CASE /\ pc[p] = "fill"
            /\ plan' = [plan EXCEPT ![p].need = plan[p].need - 1]
            /\ UNCHANGED <<pc, loc, drain, snap, lock>>
    <3>1. plan[p].need - 1 \in Int
      BY <2>2, <1>3, Typed DEF PlanType
    <3>2. plan' \in [Procs -> PlanType]
      BY <2>2, <3>1, Typed, ZenonT(60) DEF PlanType
    <3>3. plan'[p].pools = plan[p].pools /\ plan'[p].cfg = plan[p].cfg
      BY <2>2, Typed DEF PlanType
    <3>4. ProcTypeOK'
      BY <2>2, <1>3, <3>2 DEF IInv, TypeOK, ProcTypeOK, Labels
    <3>5. Others(p)
      BY <2>2, <1>3 DEF IInv, TypeOK, ProcTypeOK, Others
    <3>6. ControlOK(p)'
      BY <2>2, <1>3 DEF IInv, TypeOK, ProcTypeOK, ControlOK, Draining
    <3>7. PlanOK(p)'
      BY <2>2, <1>3, <3>3, Typed DEF IInv, PlanOK
    <3>8. LockStep(p)
      BY <2>2, <1>3, ControllerAssumption
         DEF IInv, TypeOK, ProcTypeOK, ControlOK, LockInv, LockStep, Locked,
         Outside
    <3>9. QED
      BY <3>4, <3>5, <3>6, <3>7, <3>8 DEF Step
  <2>3. CASE /\ pc[p] = "fill"
            /\ pc' = [pc EXCEPT ![p] = "spawn"]
            /\ UNCHANGED <<loc, plan, drain, snap, lock>>
    <3>1. ProcTypeOK'
      BY <2>3, <1>3 DEF IInv, TypeOK, ProcTypeOK, Labels
    <3>2. Others(p)
      BY <2>3, <1>3 DEF IInv, TypeOK, ProcTypeOK, Others
    <3>3. ControlOK(p)'
      BY <2>3, <1>3 DEF IInv, TypeOK, ProcTypeOK, ControlOK, Draining
    <3>4. PlanOK(p)'
      BY <2>3, <1>3, Typed DEF IInv, PlanOK
    <3>5. LockStep(p)
      BY <2>3, <1>3, ControllerAssumption
         DEF IInv, TypeOK, ProcTypeOK, ControlOK, LockInv, LockStep, Locked,
         Outside
    <3>6. QED
      BY <3>1, <3>2, <3>3, <3>4, <3>5 DEF Step
  <2>4. QED
    BY <2>1, <2>2, <2>3, <1>3 DEF Fill, NextPool, Goto, shared, ctlVars, locals
<1>5. QED
  BY <1>1, <1>2, <1>4, StepPreserves

\* Reconcile has drainQueue return to its fourth step.
LEMMA RefreshSettingsKeeps ==
  ASSUME IInv, NEW p \in Procs, RefreshSettings(p)
  PROVE  IInv'
<1>1. FleetTypeOK'
  BY FleetSame DEF IInv, TypeOK, RefreshSettings
<1>2. CtlTypeOK'
  BY ControllerAssumption DEF IInv, TypeOK, CtlTypeOK, RefreshSettings, shared,
     ctlVars, dbVars
<1>3. /\ pc[p] = "refresh"
      /\ pc' = [pc EXCEPT ![p] = "drain"]
      /\ loc' = [loc EXCEPT ![p].ret = "load"]
      /\ UNCHANGED <<plan, drain, snap, lock>>
  BY DEF RefreshSettings, Goto, shared, ctlVars, locals
<1>4. Step(p)
  <2>1. "load" \in Labels
    BY <1>3, Typed DEF LocalType, Labels, Operations
  <2>2. loc' \in [Procs -> LocalType]
    BY <1>3, <2>1, Typed, ZenonT(60) DEF LocalType
  <2>3. /\ loc'[p].op = loc[p].op
        /\ loc'[p].ret = "load"
        /\ loc'[p].pool = loc[p].pool
        /\ loc'[p].r = loc[p].r
    BY <1>3, Typed DEF LocalType
  <2>4. ProcTypeOK'
    BY <1>3, <2>2 DEF IInv, TypeOK, ProcTypeOK, Labels
  <2>5. Others(p)
    BY <1>3 DEF IInv, TypeOK, ProcTypeOK, Others
  <2>6. ControlOK(p)'
    BY <1>3, <2>3 DEF IInv, TypeOK, ProcTypeOK, ControlOK, Draining
  <2>7. PlanOK(p)'
    BY <1>3, Typed DEF IInv, PlanOK
  <2>8. LockStep(p)
    BY <1>3, <2>3, ControllerAssumption
       DEF IInv, TypeOK, ProcTypeOK, ControlOK, LockInv, LockStep, Locked, Outside
  <2>9. QED
    BY <2>4, <2>5, <2>6, <2>7, <2>8 DEF Step
<1>5. QED
  BY <1>1, <1>2, <1>4, StepPreserves

\* Only drainPool works on pools that have no row.
LEMMA LoadPoolsKeeps ==
  ASSUME IInv, NEW p \in Procs, LoadPools(p)
  PROVE  IInv'
<1>1. FleetTypeOK'
  BY FleetSame DEF IInv, TypeOK, LoadPools
<1>2. CtlTypeOK'
  BY ControllerAssumption DEF IInv, TypeOK, CtlTypeOK, LoadPools, shared,
     ctlVars, dbVars, Return, States
<1>3. {} \in SUBSET Pools /\ RemovedPools \in SUBSET Pools
  BY FleetAssumption DEF RemovedPools
<1>4. Step(p)
  <2>1. ASSUME NEW S \in SUBSET Pools,
               pc[p] = "load",
               pc' = [pc EXCEPT ![p] = "drainPool"],
               plan' = [plan EXCEPT ![p].cfg = db, ![p].pools = S],
               UNCHANGED <<loc, drain, snap, lock>>
        PROVE  Step(p)
    <3>1. db \in Rows /\ S \in SUBSET Pools
      BY <2>1, <1>3, Typed DEF PlanType
    <3>2. plan' \in [Procs -> PlanType]
      BY <2>1, <3>1, Typed, ZenonT(60) DEF PlanType
    <3>3. plan'[p].pools = S /\ plan'[p].cfg = db
      BY <2>1, Typed DEF PlanType
    <3>4. ProcTypeOK'
      BY <2>1, <1>3, <3>2 DEF IInv, TypeOK, ProcTypeOK, Labels
    <3>5. Others(p)
      BY <2>1, <1>3 DEF IInv, TypeOK, ProcTypeOK, Others
    <3>6. ControlOK(p)'
      BY <2>1, <1>3 DEF IInv, TypeOK, ProcTypeOK, ControlOK, Draining
    <3>7. PlanOK(p)'
      BY <2>1, <1>3, <3>3, Typed DEF IInv, PlanOK
    <3>8. LockStep(p)
      BY <2>1, <1>3, ControllerAssumption
         DEF IInv, TypeOK, ProcTypeOK, ControlOK, LockInv, LockStep, Locked,
         Outside
    <3>9. QED
      BY <3>4, <3>5, <3>6, <3>7, <3>8 DEF Step
  <2>2. CASE Return(p, "idle") /\ UNCHANGED <<drain, snap>>
    BY <2>2, ReturnStep, <1>3 DEF LoadPools, IInv, ControlOK, Draining
  <2>3. QED
    BY <2>1, <2>2, <1>3 DEF LoadPools, Goto, shared, ctlVars, locals
<1>5. QED
  BY <1>1, <1>2, <1>4, StepPreserves

\* drainPool keeps the queue a sequence of pools.
LEMMA DrainPoolKeeps ==
  ASSUME IInv, NEW p \in Procs, DrainPool(p)
  PROVE  IInv'
<1>1. FleetTypeOK'
  BY TerminateUntrackType DEF IInv, TypeOK, DrainPool
<1>2. CtlTypeOK'
  BY DropRequestsType DEF IInv, TypeOK, CtlTypeOK, DrainPool, shared, ctlVars,
     dbVars
<1>3. Step(p)
  <2>1. ASSUME NEW q \in plan[p].pools,
               pc[p] = "drainPool",
               plan' = [plan EXCEPT ![p].pools = plan[p].pools \ {q}],
               UNCHANGED <<pc, loc, drain, snap, lock>>
        PROVE  Step(p)
    <3>1. plan[p].pools \ {q} \in SUBSET Pools
      BY <2>1, Typed DEF PlanType
    <3>2. plan' \in [Procs -> PlanType]
      BY <2>1, <3>1, Typed, ZenonT(60) DEF PlanType
    <3>3. plan'[p].pools = plan[p].pools \ {q} /\ plan'[p].cfg = plan[p].cfg
      BY <2>1, Typed DEF PlanType
    <3>4. ProcTypeOK'
      BY <2>1, <3>2 DEF IInv, TypeOK, ProcTypeOK, Labels
    <3>5. Others(p)
      BY <2>1 DEF IInv, TypeOK, ProcTypeOK, Others
    <3>6. ControlOK(p)'
      BY <2>1 DEF IInv, TypeOK, ProcTypeOK, ControlOK, Draining
    <3>7. PlanOK(p)'
      BY <2>1, <3>3, Typed DEF IInv, PlanOK
    <3>8. LockStep(p)
      BY <2>1, ControllerAssumption
         DEF IInv, TypeOK, ProcTypeOK, ControlOK, LockInv, LockStep, Locked,
         Outside
    <3>9. QED
      BY <3>4, <3>5, <3>6, <3>7, <3>8 DEF Step
  <2>2. QED
    BY <2>1 DEF DrainPool, Goto, shared, ctlVars, locals
<1>4. QED
  BY <1>1, <1>2, <1>3, StepPreserves

\* checkHungRunners starts when no removed pool is left.
LEMMA FindHungKeeps ==
  ASSUME IInv, NEW p \in Procs, FindHung(p)
  PROVE  IInv'
<1>1. FleetTypeOK'
  BY FleetSame DEF IInv, TypeOK, FindHung, shared
<1>2. CtlTypeOK'
  BY DEF IInv, TypeOK, CtlTypeOK, FindHung, shared, ctlVars, dbVars
<1>3. /\ pc[p] = "drainPool" /\ plan[p].pools = {}
      /\ pc' = [pc EXCEPT ![p] = "hung"]
      /\ loc' = [loc EXCEPT ![p].kill = HungRunners(plan[p].cfg)]
      /\ UNCHANGED <<plan, drain, snap, lock>>
  BY DEF FindHung, Goto, shared, ctlVars, locals
<1>4. Step(p)
  <2>1. HungRunners(plan[p].cfg) \in SUBSET Runners
    BY <1>3 DEF HungRunners, Active
  <2>2. HungRunners(plan[p].cfg) \in SUBSET Runners
    BY <1>3, <2>1, Typed DEF LocalType, Labels, Operations
  <2>3. loc' \in [Procs -> LocalType]
    BY <1>3, <2>2, Typed, ZenonT(60) DEF LocalType
  <2>4. /\ loc'[p].op = loc[p].op
        /\ loc'[p].ret = loc[p].ret
        /\ loc'[p].pool = loc[p].pool
        /\ loc'[p].r = loc[p].r
    BY <1>3, Typed DEF LocalType
  <2>5. ProcTypeOK'
    BY <1>3, <2>1, <2>3 DEF IInv, TypeOK, ProcTypeOK, Labels
  <2>6. Others(p)
    BY <1>3 DEF IInv, TypeOK, ProcTypeOK, Others
  <2>7. ControlOK(p)'
    BY <1>3, <2>1, <2>4 DEF IInv, TypeOK, ProcTypeOK, ControlOK, Draining
  <2>8. PlanOK(p)'
    BY <1>3, <2>1, Typed DEF IInv, PlanOK
  <2>9. LockStep(p)
    BY <1>3, <2>1, <2>4, ControllerAssumption
       DEF IInv, TypeOK, ProcTypeOK, ControlOK, LockInv, LockStep, Locked, Outside
  <2>10. QED
    BY <2>5, <2>6, <2>7, <2>8, <2>9 DEF Step
<1>5. QED
  BY <1>1, <1>2, <1>4, StepPreserves

\* Killing a hung runner goes through drainQueue and back.
LEMMA KillHungKeeps ==
  ASSUME IInv, NEW p \in Procs, KillHung(p)
  PROVE  IInv'
<1>1. FleetTypeOK'
  BY TerminateUntrackType DEF IInv, TypeOK, KillHung
<1>2. CtlTypeOK'
  BY DEF IInv, TypeOK, CtlTypeOK, KillHung, shared, ctlVars, dbVars
<1>3. Step(p)
  <2>1. ASSUME NEW r \in loc[p].kill,
               pc[p] = "hung",
               pc' = [pc EXCEPT ![p] = "drain"],
               loc' = [loc EXCEPT ![p].kill = loc[p].kill \ {r},
                           ![p].ret = "hung"],
               UNCHANGED <<plan, drain, snap, lock>>
        PROVE  Step(p)
    <3>1. loc[p].kill \ {r} \in SUBSET Runners /\ "hung" \in Labels
      BY <2>1, Typed DEF LocalType, Labels, Operations
    <3>2. loc' \in [Procs -> LocalType]
      BY <2>1, <3>1, Typed, SetKillRet DEF LocalType
    <3>3. /\ loc'[p].op = loc[p].op
          /\ loc'[p].ret = "hung"
          /\ loc'[p].pool = loc[p].pool
          /\ loc'[p].r = loc[p].r
      BY <2>1, Typed DEF LocalType
    <3>4. ProcTypeOK'
      BY <2>1, <3>2 DEF IInv, TypeOK, ProcTypeOK, Labels
    <3>5. Others(p)
      BY <2>1 DEF IInv, TypeOK, ProcTypeOK, Others
    <3>6. ControlOK(p)'
      BY <2>1, <3>3 DEF IInv, TypeOK, ProcTypeOK, ControlOK, Draining
    <3>7. PlanOK(p)'
      BY <2>1, Typed DEF IInv, PlanOK
    <3>8. LockStep(p)
      BY <2>1, <3>3, ControllerAssumption
         DEF IInv, TypeOK, ProcTypeOK, ControlOK, LockInv, LockStep, Locked,
         Outside
    <3>9. QED
      BY <3>4, <3>5, <3>6, <3>7, <3>8 DEF Step
  <2>2. QED
    BY <2>1 DEF KillHung, Goto, shared, ctlVars, locals
<1>4. QED
  BY <1>1, <1>2, <1>3, StepPreserves

\* Reconcile goes on with the pools that have a row.
LEMMA HungDoneKeeps ==
  ASSUME IInv, NEW p \in Procs, HungDone(p)
  PROVE  IInv'
<1>1. FleetTypeOK'
  BY FleetSame DEF IInv, TypeOK, HungDone
<1>2. CtlTypeOK'
  BY ControllerAssumption DEF IInv, TypeOK, CtlTypeOK, HungDone, shared, ctlVars,
     dbVars, Return, States
<1>3. Step(p)
  <2>1. CASE /\ pc[p] = "hung" /\ loc[p].op # "hung"
            /\ pc' = [pc EXCEPT ![p] = "pools"]
            /\ plan' = [plan EXCEPT ![p].pools = {q \in Pools : plan[p].cfg[q] # None}]
            /\ UNCHANGED <<loc, drain, snap, lock>>
    <3>1. {q \in Pools : plan[p].cfg[q] # None} \in SUBSET Pools
      BY <2>1, Typed DEF PlanType
    <3>2. plan' \in [Procs -> PlanType]
      BY <2>1, <3>1, Typed, ZenonT(60) DEF PlanType
    <3>3. /\ plan'[p].pools = {q \in Pools : plan[p].cfg[q] # None}
          /\ plan'[p].cfg = plan[p].cfg
      BY <2>1, Typed DEF PlanType
    <3>4. ProcTypeOK'
      BY <2>1, <3>2 DEF IInv, TypeOK, ProcTypeOK, Labels
    <3>5. Others(p)
      BY <2>1 DEF IInv, TypeOK, ProcTypeOK, Others
    <3>6. ControlOK(p)'
      BY <2>1 DEF IInv, TypeOK, ProcTypeOK, ControlOK, Draining
    <3>7. PlanOK(p)'
      BY <2>1, <3>3, Typed DEF IInv, PlanOK
    <3>8. LockStep(p)
      BY <2>1, ControllerAssumption
         DEF IInv, TypeOK, ProcTypeOK, ControlOK, LockInv, LockStep, Locked,
         Outside
    <3>9. QED
      BY <3>4, <3>5, <3>6, <3>7, <3>8 DEF Step
  <2>2. CASE Return(p, "idle") /\ UNCHANGED <<drain, snap>>
    BY <2>2, ReturnStep DEF HungDone, IInv, ControlOK, Draining
  <2>3. QED
    BY <2>1, <2>2 DEF HungDone, Goto, shared, ctlVars, locals
<1>4. QED
  BY <1>1, <1>2, <1>3, StepPreserves

\* The event handler replenishes a pool that has a row.
LEMMA EventPoolKeeps ==
  ASSUME IInv, NEW p \in Procs, EventPool(p)
  PROVE  IInv'
<1>1. FleetTypeOK'
  BY FleetSame DEF IInv, TypeOK, EventPool
<1>2. CtlTypeOK'
  BY ControllerAssumption DEF IInv, TypeOK, CtlTypeOK, EventPool, shared,
     ctlVars, dbVars, Return, States
<1>3. Step(p)
  <2>1. CASE /\ pc[p] = "eventPool" /\ db[loc[p].pool] # None
            /\ pc' = [pc EXCEPT ![p] = "pools"]
            /\ plan' = [plan EXCEPT ![p].cfg = db, ![p].pools = {loc[p].pool}]
            /\ UNCHANGED <<loc, drain, snap, lock>>
    <3>1. loc[p].pool \in Pools
      BY <2>1 DEF IInv, ControlOK
    <3>2. db \in Rows /\ {loc[p].pool} \in SUBSET Pools
      BY <2>1, <3>1, Typed DEF PlanType
    <3>3. plan' \in [Procs -> PlanType]
      BY <2>1, <3>2, Typed, ZenonT(60) DEF PlanType
    <3>4. plan'[p].pools = {loc[p].pool} /\ plan'[p].cfg = db
      BY <2>1, Typed DEF PlanType
    <3>5. ProcTypeOK'
      BY <2>1, <3>1, <3>3 DEF IInv, TypeOK, ProcTypeOK, Labels
    <3>6. Others(p)
      BY <2>1 DEF IInv, TypeOK, ProcTypeOK, Others
    <3>7. ControlOK(p)'
      BY <2>1, <3>1 DEF IInv, TypeOK, ProcTypeOK, ControlOK, Draining
    <3>8. PlanOK(p)'
      BY <2>1, <3>4, <3>1, Typed DEF IInv, PlanOK
    <3>9. LockStep(p)
      BY <2>1, <3>1, ControllerAssumption
         DEF IInv, TypeOK, ProcTypeOK, ControlOK, LockInv, LockStep, Locked,
         Outside
    <3>10. QED
      BY <3>5, <3>6, <3>7, <3>8, <3>9 DEF Step
  <2>2. CASE Return(p, "idle") /\ UNCHANGED <<drain, snap>>
    BY <2>2, ReturnStep DEF EventPool, IInv, ControlOK, Draining
  <2>3. QED
    BY <2>1, <2>2 DEF EventPool, Goto, shared, ctlVars, locals
<1>4. QED
  BY <1>1, <1>2, <1>3, StepPreserves

\* A busy mark is set only on an entry that is there.
LEMMA MarkBusyKeeps ==
  ASSUME IInv, NEW p \in Procs, MarkBusy(p)
  PROVE  IInv'
<1>1. FleetTypeOK'
  BY Typed DEF IInv, TypeOK, MarkBusy, FleetTypeOK, LocalType, ControlOK,
     MarkRunnerBusy, hostVars
<1>2. CtlTypeOK'
  BY ControllerAssumption DEF IInv, TypeOK, CtlTypeOK, MarkBusy, shared, ctlVars,
     dbVars, Return, States
<1>3. Step(p)
  BY ReturnStep DEF MarkBusy, IInv, ControlOK, Draining
<1>4. QED
  BY <1>1, <1>2, <1>3, StepPreserves

\* GracefulShutdown counts the busy runners.
LEMMA ShutdownIdleKeeps ==
  ASSUME IInv, NEW p \in Procs, ShutdownIdle(p)
  PROVE  IInv'
<1>1. FleetTypeOK'
  BY TerminateType DEF IInv, TypeOK, ShutdownIdle, FleetTypeOK, viewVars
<1>2. CtlTypeOK'
  BY DEF IInv, TypeOK, CtlTypeOK, ShutdownIdle, shared, ctlVars, dbVars
<1>3. /\ pc[p] = "sdIdle"
      /\ pc' = [pc EXCEPT ![p] = "sdClean"]
      /\ plan' = [plan EXCEPT ![p].need = Cardinality(Active \cap busy)]
      /\ UNCHANGED <<loc, drain, snap, lock>>
  BY DEF ShutdownIdle, Goto, shared, ctlVars, locals
<1>4. Step(p)
  <2>1. Cardinality(Active \cap busy) \in Int
    BY <1>3, ActiveFinite, FS_Subset, FS_CardinalityType DEF IInv
  <2>2. Cardinality(Active \cap busy) \in Int
    BY <1>3, <2>1, Typed DEF PlanType
  <2>3. plan' \in [Procs -> PlanType]
    BY <1>3, <2>2, Typed, ZenonT(60) DEF PlanType
  <2>4. plan'[p].pools = plan[p].pools /\ plan'[p].cfg = plan[p].cfg
    BY <1>3, Typed DEF PlanType
  <2>5. ProcTypeOK'
    BY <1>3, <2>1, <2>3 DEF IInv, TypeOK, ProcTypeOK, Labels
  <2>6. Others(p)
    BY <1>3 DEF IInv, TypeOK, ProcTypeOK, Others
  <2>7. ControlOK(p)'
    BY <1>3, <2>1 DEF IInv, TypeOK, ProcTypeOK, ControlOK, Draining
  <2>8. PlanOK(p)'
    BY <1>3, <2>4, <2>1, Typed DEF IInv, PlanOK
  <2>9. LockStep(p)
    BY <1>3, <2>1, ControllerAssumption
       DEF IInv, TypeOK, ProcTypeOK, ControlOK, LockInv, LockStep, Locked, Outside
  <2>10. QED
    BY <2>5, <2>6, <2>7, <2>8, <2>9 DEF Step
<1>5. QED
  BY <1>1, <1>2, <1>4, StepPreserves

\* GracefulShutdown returns or waits.
LEMMA ShutdownCleanKeeps ==
  ASSUME IInv, NEW p \in Procs, ShutdownClean(p)
  PROVE  IInv'
<1>1. FleetTypeOK'
  BY UntrackType DEF IInv, TypeOK, ShutdownClean, FleetTypeOK, hostVars
<1>2. CtlTypeOK'
  BY ControllerAssumption DEF IInv, TypeOK, CtlTypeOK, ShutdownClean, shared,
     ctlVars, dbVars, Return, States
<1>3. Step(p)
  <2>1. CASE /\ pc[p] = "sdClean"
            /\ pc' = [pc EXCEPT ![p] = "sdWait"]
            /\ UNCHANGED <<loc, plan, drain, snap, lock>>
    <3>1. ProcTypeOK'
      BY <2>1 DEF IInv, TypeOK, ProcTypeOK, Labels
    <3>2. Others(p)
      BY <2>1 DEF IInv, TypeOK, ProcTypeOK, Others
    <3>3. ControlOK(p)'
      BY <2>1 DEF IInv, TypeOK, ProcTypeOK, ControlOK, Draining
    <3>4. PlanOK(p)'
      BY <2>1, Typed DEF IInv, PlanOK
    <3>5. LockStep(p)
      BY <2>1, ControllerAssumption
         DEF IInv, TypeOK, ProcTypeOK, ControlOK, LockInv, LockStep, Locked,
         Outside
    <3>6. QED
      BY <3>1, <3>2, <3>3, <3>4, <3>5 DEF Step
  <2>2. CASE Return(p, "ended") /\ UNCHANGED <<drain, snap>>
    BY <2>2, ReturnStep DEF ShutdownClean, IInv, ControlOK, Draining
  <2>3. QED
    BY <2>1, <2>2 DEF ShutdownClean, Goto, shared, ctlVars, locals
<1>4. QED
  BY <1>1, <1>2, <1>3, StepPreserves

\* The poll audits on behalf of GracefulShutdown.
LEMMA ShutdownPollKeeps ==
  ASSUME IInv, NEW p \in Procs, ShutdownPoll(p)
  PROVE  IInv'
<1>1. FleetTypeOK'
  BY FleetSame DEF IInv, TypeOK, ShutdownPoll, shared
<1>2. CtlTypeOK'
  BY DEF IInv, TypeOK, CtlTypeOK, ShutdownPoll, shared, ctlVars, dbVars
<1>3. loc[p].op = "graceful"
  BY DEF IInv, ControlOK, ShutdownPoll
<1>4. /\ pc[p] = "sdWait"
      /\ pc' = [pc EXCEPT ![p] = "audit"]
      /\ UNCHANGED <<loc, plan, drain, snap, lock>>
  BY <1>3 DEF ShutdownPoll, Goto, shared, ctlVars, locals
<1>5. Step(p)
  <2>1. ProcTypeOK'
    BY <1>4, <1>3 DEF IInv, TypeOK, ProcTypeOK, Labels
  <2>2. Others(p)
    BY <1>4, <1>3 DEF IInv, TypeOK, ProcTypeOK, Others
  <2>3. ControlOK(p)'
    BY <1>4, <1>3 DEF IInv, TypeOK, ProcTypeOK, ControlOK, Draining
  <2>4. PlanOK(p)'
    BY <1>4, <1>3, Typed DEF IInv, PlanOK
  <2>5. LockStep(p)
    BY <1>4, <1>3, ControllerAssumption
       DEF IInv, TypeOK, ProcTypeOK, ControlOK, LockInv, LockStep, Locked, Outside
  <2>6. QED
    BY <2>1, <2>2, <2>3, <2>4, <2>5 DEF Step
<1>6. QED
  BY <1>1, <1>2, <1>5, StepPreserves

\* GracefulShutdown returns when nothing is active.
LEMMA ShutdownCheckKeeps ==
  ASSUME IInv, NEW p \in Procs, ShutdownCheck(p)
  PROVE  IInv'
<1>1. FleetTypeOK'
  BY FleetSame DEF IInv, TypeOK, ShutdownCheck
<1>2. CtlTypeOK'
  BY ControllerAssumption DEF IInv, TypeOK, CtlTypeOK, ShutdownCheck, shared,
     ctlVars, dbVars, Return, States
<1>3. Step(p)
  <2>1. CASE /\ pc[p] = "sdCheck"
            /\ pc' = [pc EXCEPT ![p] = "sdWait"]
            /\ UNCHANGED <<loc, plan, drain, snap, lock>>
    <3>1. ProcTypeOK'
      BY <2>1 DEF IInv, TypeOK, ProcTypeOK, Labels
    <3>2. Others(p)
      BY <2>1 DEF IInv, TypeOK, ProcTypeOK, Others
    <3>3. ControlOK(p)'
      BY <2>1 DEF IInv, TypeOK, ProcTypeOK, ControlOK, Draining
    <3>4. PlanOK(p)'
      BY <2>1, Typed DEF IInv, PlanOK
    <3>5. LockStep(p)
      BY <2>1, ControllerAssumption
         DEF IInv, TypeOK, ProcTypeOK, ControlOK, LockInv, LockStep, Locked,
         Outside
    <3>6. QED
      BY <3>1, <3>2, <3>3, <3>4, <3>5 DEF Step
  <2>2. CASE Return(p, "ended") /\ UNCHANGED <<drain, snap>>
    BY <2>2, ReturnStep DEF ShutdownCheck, IInv, ControlOK, Draining
  <2>3. QED
    BY <2>1, <2>2 DEF ShutdownCheck, Goto, shared, ctlVars, locals
<1>4. QED
  BY <1>1, <1>2, <1>3, StepPreserves

\* GracefulShutdown returns when its timeout expires.
LEMMA ShutdownTimeoutKeeps ==
  ASSUME IInv, NEW p \in Procs, ShutdownTimeout(p)
  PROVE  IInv'
<1>1. FleetTypeOK'
  BY TerminateUntrackType DEF IInv, TypeOK, ShutdownTimeout, ForceTerminate
<1>2. CtlTypeOK'
  BY ControllerAssumption DEF IInv, TypeOK, CtlTypeOK, ShutdownTimeout, shared,
     ctlVars, dbVars, Return, States
<1>3. Step(p)
  BY ReturnStep DEF ShutdownTimeout, IInv, ControlOK, Draining
<1>4. QED
  BY <1>1, <1>2, <1>3, StepPreserves

\* The event handler takes a free provisionMu.
LEMMA EventLockKeeps ==
  ASSUME IInv, NEW p \in Procs, EventLock(p)
  PROVE  IInv'
<1>1. FleetTypeOK'
  BY FleetSame DEF IInv, TypeOK, EventLock
<1>2. CtlTypeOK'
  BY DEF IInv, TypeOK, CtlTypeOK, EventLock, shared, ctlVars, dbVars, Lock
<1>3. loc[p].op = "event" /\ loc[p].pool \in Pools
  BY DEF IInv, ControlOK, EventLock
<1>4. /\ pc[p] = "eventLock"
      /\ pc' = [pc EXCEPT ![p] = "reap"]
      /\ lock = None /\ lock' = p
      /\ UNCHANGED <<loc, plan, drain, snap>>
  BY <1>3 DEF EventLock, Lock, Goto, shared, ctlVars, locals
<1>5. Step(p)
  <2>1. ProcTypeOK'
    BY <1>4, <1>3 DEF IInv, TypeOK, ProcTypeOK, Labels
  <2>2. Others(p)
    BY <1>4, <1>3 DEF IInv, TypeOK, ProcTypeOK, Others
  <2>3. ControlOK(p)'
    BY <1>4, <1>3 DEF IInv, TypeOK, ProcTypeOK, ControlOK, Draining
  <2>4. PlanOK(p)'
    BY <1>4, <1>3, Typed DEF IInv, PlanOK
  <2>5. LockStep(p)
    BY <1>4, <1>3, ControllerAssumption
       DEF IInv, TypeOK, ProcTypeOK, ControlOK, LockInv, LockStep, Locked, Outside
  <2>6. QED
    BY <2>1, <2>2, <2>3, <2>4, <2>5 DEF Step
<1>6. QED
  BY <1>1, <1>2, <1>5, StepPreserves

\* The webhook takes a free provisionMu, or returns.
LEMMA QueuedJobLockedKeeps ==
  ASSUME IInv, NEW p \in Procs, QueuedJobLocked(p)
  PROVE  IInv'
<1>1. FleetTypeOK'
  BY FleetSame DEF IInv, TypeOK, QueuedJobLocked
<1>2. CtlTypeOK'
  <2>1. /\ queue \in Seq(Pools)
        /\ (queue' = queue \/ \E q \in Pools : queue' = Append(queue, q))
    BY Typed DEF IInv, ControlOK, QueuedJobLocked
  <2>2. queue' \in Seq(Pools)
    BY <2>1
  <2>3. QED
    BY <2>2, ControllerAssumption DEF IInv, TypeOK, CtlTypeOK, QueuedJobLocked,
       Return, Lock, dbVars
<1>3. loc[p].op = "webhook" /\ loc[p].pool \in Pools /\ ~Draining(p)
  BY DEF IInv, ControlOK, QueuedJobLocked
<1>4. Step(p)
  <2>1. CASE /\ pc[p] = "hookLock"
            /\ pc' = [pc EXCEPT ![p] = "spawn"]
            /\ lock = None /\ lock' = p
            /\ UNCHANGED <<loc, plan, drain, snap>>
    <3>1. ProcTypeOK'
      BY <2>1, <1>3 DEF IInv, TypeOK, ProcTypeOK, Labels
    <3>2. Others(p)
      BY <2>1, <1>3 DEF IInv, TypeOK, ProcTypeOK, Others
    <3>3. ControlOK(p)'
      BY <2>1, <1>3 DEF IInv, TypeOK, ProcTypeOK, ControlOK, Draining
    <3>4. PlanOK(p)'
      BY <2>1, <1>3, Typed DEF IInv, PlanOK
    <3>5. LockStep(p)
      BY <2>1, <1>3, ControllerAssumption
         DEF IInv, TypeOK, ProcTypeOK, ControlOK, LockInv, LockStep, Locked,
         Outside
    <3>6. QED
      BY <3>1, <3>2, <3>3, <3>4, <3>5 DEF Step
  <2>2. CASE Return(p, "idle") /\ UNCHANGED <<drain, snap>>
    BY <2>2, ReturnStep, <1>3 DEF QueuedJobLocked, IInv, ControlOK, Draining, Lock
  <2>3. QED
    BY <2>1, <2>2, <1>3 DEF QueuedJobLocked, Lock, Goto, shared, ctlVars, locals
<1>5. QED
  BY <1>1, <1>2, <1>4, StepPreserves

\* Reconcile takes a free provisionMu.
LEMMA ReconcileKeeps ==
  ASSUME IInv, NEW p \in Procs, Reconcile(p)
  PROVE  IInv'
<1>1. FleetTypeOK'
  BY FleetSame DEF IInv, TypeOK, Reconcile
<1>2. CtlTypeOK'
  BY DEF IInv, TypeOK, CtlTypeOK, Reconcile, shared, ctlVars, dbVars, Lock
<1>3. /\ pc[p] = "idle"
      /\ ~Draining(p)
      /\ loc[p].ret # "reap"
      /\ (BootFirst => \A q \in Procs : loc[q].op # "boot")
  BY DEF IInv, ControlOK, Free, Reconcile
<1>4. /\ pc' = [pc EXCEPT ![p] = "audit"]
      /\ loc' = [loc EXCEPT ![p].op = "reconcile"]
      /\ lock = None /\ lock' = p
      /\ UNCHANGED <<plan, drain, snap>>
  BY <1>3 DEF Reconcile, Lock, Goto, shared, ctlVars, locals
<1>5. Step(p)
  <2>1. "reconcile" \in Operations
    BY <1>4, <1>3, Typed DEF LocalType, Labels, Operations
  <2>2. loc' \in [Procs -> LocalType]
    BY <1>4, <2>1, Typed, ZenonT(60) DEF LocalType
  <2>3. /\ loc'[p].op = "reconcile"
        /\ loc'[p].ret = loc[p].ret
        /\ loc'[p].pool = loc[p].pool
        /\ loc'[p].r = loc[p].r
    BY <1>4, Typed DEF LocalType
  <2>4. ProcTypeOK'
    BY <1>4, <1>3, <2>2 DEF IInv, TypeOK, ProcTypeOK, Labels
  <2>5. Others(p)
    BY <1>4, <1>3 DEF IInv, TypeOK, ProcTypeOK, Others
  <2>6. ControlOK(p)'
    BY <1>4, <1>3, <2>3 DEF IInv, TypeOK, ProcTypeOK, ControlOK, Draining
  <2>7. PlanOK(p)'
    BY <1>4, <1>3, Typed DEF IInv, PlanOK
  <2>8. LockStep(p)
    BY <1>4, <1>3, <2>3, ControllerAssumption
       DEF IInv, TypeOK, ProcTypeOK, ControlOK, LockInv, LockStep, Locked, Outside
  <2>9. QED
    BY <2>4, <2>5, <2>6, <2>7, <2>8 DEF Step
<1>6. QED
  BY <1>1, <1>2, <1>5, StepPreserves

\* CheckHungRunners takes a free provisionMu.
LEMMA CheckHungRunnersKeeps ==
  ASSUME IInv, NEW p \in Procs, CheckHungRunners(p)
  PROVE  IInv'
<1>1. FleetTypeOK'
  BY FleetSame DEF IInv, TypeOK, CheckHungRunners
<1>2. CtlTypeOK'
  BY DEF IInv, TypeOK, CtlTypeOK, CheckHungRunners, shared, ctlVars, dbVars, Lock
<1>3. /\ pc[p] = "idle"
      /\ ~Draining(p)
      /\ loc[p].ret # "reap"
      /\ (BootFirst => \A q \in Procs : loc[q].op # "boot")
  BY DEF IInv, ControlOK, Free, CheckHungRunners
<1>4. /\ pc' = [pc EXCEPT ![p] = "load"]
      /\ loc' = [loc EXCEPT ![p].op = "hung"]
      /\ lock = None /\ lock' = p
      /\ UNCHANGED <<plan, drain, snap>>
  BY <1>3 DEF CheckHungRunners, Lock, Goto, shared, ctlVars, locals
<1>5. Step(p)
  <2>1. "hung" \in Operations
    BY <1>4, <1>3, Typed DEF LocalType, Labels, Operations
  <2>2. loc' \in [Procs -> LocalType]
    BY <1>4, <2>1, Typed, ZenonT(60) DEF LocalType
  <2>3. /\ loc'[p].op = "hung"
        /\ loc'[p].ret = loc[p].ret
        /\ loc'[p].pool = loc[p].pool
        /\ loc'[p].r = loc[p].r
    BY <1>4, Typed DEF LocalType
  <2>4. ProcTypeOK'
    BY <1>4, <1>3, <2>2 DEF IInv, TypeOK, ProcTypeOK, Labels
  <2>5. Others(p)
    BY <1>4, <1>3 DEF IInv, TypeOK, ProcTypeOK, Others
  <2>6. ControlOK(p)'
    BY <1>4, <1>3, <2>3 DEF IInv, TypeOK, ProcTypeOK, ControlOK, Draining
  <2>7. PlanOK(p)'
    BY <1>4, <1>3, Typed DEF IInv, PlanOK
  <2>8. LockStep(p)
    BY <1>4, <1>3, <2>3, ControllerAssumption
       DEF IInv, TypeOK, ProcTypeOK, ControlOK, LockInv, LockStep, Locked, Outside
  <2>9. QED
    BY <2>4, <2>5, <2>6, <2>7, <2>8 DEF Step
<1>6. QED
  BY <1>1, <1>2, <1>5, StepPreserves

\* The event handler starts without provisionMu.
LEMMA ContainerEventKeeps ==
  ASSUME IInv, NEW p \in Procs, ContainerEvent(p)
  PROVE  IInv'
<1>1. FleetTypeOK'
  BY FleetSame DEF IInv, TypeOK, ContainerEvent, shared
<1>2. CtlTypeOK'
  BY DEF IInv, TypeOK, CtlTypeOK, ContainerEvent, shared, ctlVars, dbVars
<1>3. /\ pc[p] = "idle"
      /\ ~Draining(p)
      /\ loc[p].ret # "reap"
      /\ (BootFirst => \A q \in Procs : loc[q].op # "boot")
  BY DEF IInv, ControlOK, Free, ContainerEvent
<1>4. Step(p)
  <2>1. ASSUME NEW r \in Runners,
               pc' = [pc EXCEPT ![p] = "eventLock"],
               loc' = [loc EXCEPT ![p].op = "event", ![p].kill = {r},
                           ![p].pool = PoolOf[r]],
               UNCHANGED <<plan, drain, snap, lock>>
        PROVE  Step(p)
    <3>1. PoolOf[r] \in Pools
      BY <2>1, <1>3, FleetAssumption DEF IInv
    <3>2. /\ "event" \in Operations
          /\ {r} \in SUBSET Runners
          /\ PoolOf[r] \in Pools \cup {None}
      BY <2>1, <1>3, <3>1, Typed DEF LocalType, Labels, Operations
    <3>3. loc[p] \in LocalType
      BY Typed
    <3>4. [loc[p] EXCEPT !.op = "event", !.kill = {r}, !.pool = PoolOf[r]] \in LocalType
      BY <3>2, <3>3 DEF LocalType
    <3>5. loc' \in [Procs -> LocalType]
      BY <2>1, <3>4, Typed
    <3>6. /\ loc'[p].op = "event"
          /\ loc'[p].ret = loc[p].ret
          /\ loc'[p].pool = PoolOf[r]
          /\ loc'[p].r = loc[p].r
      BY <2>1, Typed DEF LocalType
    <3>7. ProcTypeOK'
      BY <2>1, <1>3, <3>1, <3>5 DEF IInv, TypeOK, ProcTypeOK, Labels
    <3>8. Others(p)
      BY <2>1, <1>3 DEF IInv, TypeOK, ProcTypeOK, Others
    <3>9. ControlOK(p)'
      BY <2>1, <1>3, <3>1, <3>6 DEF IInv, TypeOK, ProcTypeOK, ControlOK, Draining
    <3>10. PlanOK(p)'
      BY <2>1, <1>3, <3>1, Typed DEF IInv, PlanOK
    <3>11. LockStep(p)
      BY <2>1, <1>3, <3>1, <3>6, ControllerAssumption
         DEF IInv, TypeOK, ProcTypeOK, ControlOK, LockInv, LockStep, Locked,
         Outside
    <3>12. QED
      BY <3>7, <3>8, <3>9, <3>10, <3>11 DEF Step
  <2>2. QED
    BY <2>1, <1>3 DEF ContainerEvent, Goto, shared, ctlVars, locals
<1>5. QED
  BY <1>1, <1>2, <1>4, StepPreserves

\* The webhook starts without provisionMu, and may queue a request.
LEMMA QueuedJobKeeps ==
  ASSUME IInv, NEW p \in Procs, QueuedJob(p)
  PROVE  IInv'
<1>1. FleetTypeOK'
  BY FleetSame DEF IInv, TypeOK, QueuedJob
<1>2. CtlTypeOK'
  <2>1. /\ queue \in Seq(Pools)
        /\ (queue' = queue \/ \E q \in Pools : queue' = Append(queue, q))
    BY Typed DEF QueuedJob
  <2>2. queue' \in Seq(Pools)
    BY <2>1
  <2>3. QED
    BY <2>2, ControllerAssumption DEF IInv, TypeOK, CtlTypeOK, QueuedJob, Return,
       Lock, dbVars
<1>3. /\ pc[p] = "idle"
      /\ ~Draining(p)
      /\ loc[p].ret # "reap"
      /\ (BootFirst => \A q \in Procs : loc[q].op # "boot")
  BY DEF IInv, ControlOK, Free, QueuedJob
<1>4. Step(p)
  <2>1. CASE /\ UNCHANGED <<pc, loc, plan, drain, snap, lock>>
    <3>1. ProcTypeOK'
      BY <2>1, <1>3 DEF IInv, TypeOK, ProcTypeOK, Labels
    <3>2. Others(p)
      BY <2>1, <1>3 DEF IInv, TypeOK, ProcTypeOK, Others
    <3>3. ControlOK(p)'
      BY <2>1, <1>3 DEF IInv, TypeOK, ProcTypeOK, ControlOK, Draining
    <3>4. PlanOK(p)'
      BY <2>1, <1>3, Typed DEF IInv, PlanOK
    <3>5. LockStep(p)
      BY <2>1, <1>3, ControllerAssumption
         DEF IInv, TypeOK, ProcTypeOK, ControlOK, LockInv, LockStep, Locked,
         Outside
    <3>6. QED
      BY <3>1, <3>2, <3>3, <3>4, <3>5 DEF Step
  <2>2. ASSUME NEW q \in Pools,
               pc' = [pc EXCEPT ![p] = "hookLock"],
               loc' = [loc EXCEPT ![p].op = "webhook", ![p].pool = q,
                           ![p].demand = TRUE],
               plan' = [plan EXCEPT ![p].cfg = db],
               UNCHANGED <<drain, snap, lock>>
        PROVE  Step(p)
    <3>1. "webhook" \in Operations /\ q \in Pools \cup {None} /\ TRUE \in BOOLEAN
      BY <2>2, <1>3, Typed DEF LocalType, Labels, Operations
    <3>2. loc[p] \in LocalType
      BY Typed
    <3>3. [loc[p] EXCEPT !.op = "webhook", !.pool = q, !.demand = TRUE] \in LocalType
      BY <3>1, <3>2 DEF LocalType
    <3>4. loc' \in [Procs -> LocalType]
      BY <2>2, <3>3, Typed
    <3>5. /\ loc'[p].op = "webhook"
          /\ loc'[p].ret = loc[p].ret
          /\ loc'[p].pool = q
          /\ loc'[p].r = loc[p].r
      BY <2>2, Typed DEF LocalType
    <3>6. db \in Rows
      BY <2>2, <1>3, <3>4, Typed DEF PlanType
    <3>7. plan' \in [Procs -> PlanType]
      BY <2>2, <3>6, Typed, ZenonT(60) DEF PlanType
    <3>8. plan'[p].pools = plan[p].pools /\ plan'[p].cfg = db
      BY <2>2, Typed DEF PlanType
    <3>9. ProcTypeOK'
      BY <2>2, <1>3, <3>4, <3>7 DEF IInv, TypeOK, ProcTypeOK, Labels
    <3>10. Others(p)
      BY <2>2, <1>3 DEF IInv, TypeOK, ProcTypeOK, Others
    <3>11. ControlOK(p)'
      BY <2>2, <1>3, <3>5 DEF IInv, TypeOK, ProcTypeOK, ControlOK, Draining
    <3>12. PlanOK(p)'
      BY <2>2, <1>3, <3>8, Typed DEF IInv, PlanOK
    <3>13. LockStep(p)
      BY <2>2, <1>3, <3>5, ControllerAssumption
         DEF IInv, TypeOK, ProcTypeOK, ControlOK, LockInv, LockStep, Locked,
         Outside
    <3>14. QED
      BY <3>9, <3>10, <3>11, <3>12, <3>13 DEF Step
  <2>3. QED
    BY <2>1, <2>2, <1>3 DEF QueuedJob, Goto, shared, ctlVars, locals
<1>5. QED
  BY <1>1, <1>2, <1>4, StepPreserves

\* The mark is for a container.
LEMMA JobProgressKeeps ==
  ASSUME IInv, NEW p \in Procs, JobProgress(p)
  PROVE  IInv'
<1>1. FleetTypeOK'
  BY FleetSame DEF IInv, TypeOK, JobProgress, shared
<1>2. CtlTypeOK'
  BY DEF IInv, TypeOK, CtlTypeOK, JobProgress, shared, ctlVars, dbVars
<1>3. /\ pc[p] = "idle"
      /\ ~Draining(p)
      /\ loc[p].ret # "reap"
      /\ (BootFirst => \A q \in Procs : loc[q].op # "boot")
  BY DEF IInv, ControlOK, Free, JobProgress
<1>4. Step(p)
  <2>1. ASSUME NEW r \in Runners,
               pc' = [pc EXCEPT ![p] = "mark"],
               loc' = [loc EXCEPT ![p].op = "webhook", ![p].r = r,
                           ![p].demand = (r \in working)],
               UNCHANGED <<plan, drain, snap, lock>>
        PROVE  Step(p)
    <3>1. /\ "webhook" \in Operations
          /\ r \in Runners \cup {None}
          /\ (r \in working) \in BOOLEAN
      BY <2>1, <1>3, Typed DEF LocalType, Labels, Operations
    <3>2. loc[p] \in LocalType
      BY Typed
    <3>3. [loc[p] EXCEPT !.op = "webhook", !.r = r, !.demand = (r \in working)] \in LocalType
      BY <3>1, <3>2 DEF LocalType
    <3>4. loc' \in [Procs -> LocalType]
      BY <2>1, <3>3, Typed
    <3>5. /\ loc'[p].op = "webhook"
          /\ loc'[p].ret = loc[p].ret
          /\ loc'[p].pool = loc[p].pool
          /\ loc'[p].r = r
      BY <2>1, Typed DEF LocalType
    <3>6. ProcTypeOK'
      BY <2>1, <1>3, <3>4 DEF IInv, TypeOK, ProcTypeOK, Labels
    <3>7. Others(p)
      BY <2>1, <1>3 DEF IInv, TypeOK, ProcTypeOK, Others
    <3>8. ControlOK(p)'
      BY <2>1, <1>3, <3>5 DEF IInv, TypeOK, ProcTypeOK, ControlOK, Draining
    <3>9. PlanOK(p)'
      BY <2>1, <1>3, Typed DEF IInv, PlanOK
    <3>10. LockStep(p)
      BY <2>1, <1>3, <3>5, ControllerAssumption
         DEF IInv, TypeOK, ProcTypeOK, ControlOK, LockInv, LockStep, Locked,
         Outside
    <3>11. QED
      BY <3>6, <3>7, <3>8, <3>9, <3>10 DEF Step
  <2>2. QED
    BY <2>1, <1>3 DEF JobProgress, Goto, shared, ctlVars, locals
<1>5. QED
  BY <1>1, <1>2, <1>4, StepPreserves

\* GracefulShutdown takes a free provisionMu.
LEMMA GracefulShutdownKeeps ==
  ASSUME IInv, NEW p \in Procs, GracefulShutdown(p)
  PROVE  IInv'
<1>1. FleetTypeOK'
  BY FleetSame DEF IInv, TypeOK, GracefulShutdown
<1>2. CtlTypeOK'
  BY DEF IInv, TypeOK, CtlTypeOK, GracefulShutdown, shared, ctlVars, dbVars,
     Lock, Paused, States
<1>3. /\ pc[p] = "idle"
      /\ ~Draining(p)
      /\ loc[p].ret # "reap"
      /\ (BootFirst => \A q \in Procs : loc[q].op # "boot")
  BY DEF IInv, ControlOK, Free, GracefulShutdown
<1>4. /\ pc' = [pc EXCEPT ![p] = "sdIdle"]
      /\ loc' = [loc EXCEPT ![p].op = "graceful"]
      /\ lock = None /\ lock' = p
      /\ UNCHANGED <<plan, drain, snap>>
  BY <1>3 DEF GracefulShutdown, Lock, Goto, shared, ctlVars, locals
<1>5. Step(p)
  <2>1. "graceful" \in Operations
    BY <1>4, <1>3, Typed DEF LocalType, Labels, Operations
  <2>2. loc' \in [Procs -> LocalType]
    BY <1>4, <2>1, Typed, ZenonT(60) DEF LocalType
  <2>3. /\ loc'[p].op = "graceful"
        /\ loc'[p].ret = loc[p].ret
        /\ loc'[p].pool = loc[p].pool
        /\ loc'[p].r = loc[p].r
    BY <1>4, Typed DEF LocalType
  <2>4. ProcTypeOK'
    BY <1>4, <1>3, <2>2 DEF IInv, TypeOK, ProcTypeOK, Labels
  <2>5. Others(p)
    BY <1>4, <1>3 DEF IInv, TypeOK, ProcTypeOK, Others
  <2>6. ControlOK(p)'
    BY <1>4, <1>3, <2>3 DEF IInv, TypeOK, ProcTypeOK, ControlOK, Draining
  <2>7. PlanOK(p)'
    BY <1>4, <1>3, Typed DEF IInv, PlanOK
  <2>8. LockStep(p)
    BY <1>4, <1>3, <2>3, ControllerAssumption
       DEF IInv, TypeOK, ProcTypeOK, ControlOK, LockInv, LockStep, Locked, Outside
  <2>9. QED
    BY <2>4, <2>5, <2>6, <2>7, <2>8 DEF Step
<1>6. QED
  BY <1>1, <1>2, <1>5, StepPreserves

\* ImmediateShutdown takes provisionMu and returns it.
LEMMA ImmediateShutdownKeeps ==
  ASSUME IInv, NEW p \in Procs, ImmediateShutdown(p)
  PROVE  IInv'
<1>1. FleetTypeOK'
  BY TerminateUntrackType DEF IInv, TypeOK, ImmediateShutdown, ForceTerminate
<1>2. CtlTypeOK'
  BY ControllerAssumption DEF IInv, TypeOK, CtlTypeOK, ImmediateShutdown, shared,
     ctlVars, dbVars, Return, States
<1>3. /\ pc[p] = "idle"
      /\ ~Draining(p)
      /\ loc[p].ret # "reap"
      /\ (BootFirst => \A q \in Procs : loc[q].op # "boot")
  BY DEF IInv, ControlOK, Free, ImmediateShutdown
<1>4. Step(p)
  BY ReturnStep, <1>3 DEF ImmediateShutdown, IInv, ControlOK, Draining
<1>5. QED
  BY <1>1, <1>2, <1>4, StepPreserves

\* Only the goroutine of Start ends, once Boot is over.
LEMMA StartCancelledKeeps ==
  ASSUME IInv, NEW p \in Procs, StartCancelled(p)
  PROVE  IInv'
<1>1. FleetTypeOK'
  BY FleetSame DEF IInv, TypeOK, StartCancelled
<1>2. CtlTypeOK'
  BY DEF IInv, TypeOK, CtlTypeOK, StartCancelled, shared, ctlVars, dbVars, States
<1>3. /\ pc[p] = "idle" /\ "boot" \in Roles[p]
      /\ pc' = [pc EXCEPT ![p] = "ended"]
      /\ UNCHANGED <<loc, plan, drain, snap, lock>>
  BY DEF StartCancelled, Goto, shared, ctlVars, locals
<1>4. Step(p)
  <2>1. ProcTypeOK'
    BY <1>3 DEF IInv, TypeOK, ProcTypeOK, Labels
  <2>2. Others(p)
    BY <1>3 DEF IInv, TypeOK, ProcTypeOK, Others
  <2>3. ControlOK(p)'
    BY <1>3 DEF IInv, TypeOK, ProcTypeOK, ControlOK, Draining
  <2>4. PlanOK(p)'
    BY <1>3, Typed DEF IInv, PlanOK
  <2>5. LockStep(p)
    BY <1>3, ControllerAssumption
       DEF IInv, TypeOK, ProcTypeOK, ControlOK, LockInv, LockStep, Locked, Outside
  <2>6. QED
    BY <2>1, <2>2, <2>3, <2>4, <2>5 DEF Step
<1>5. QED
  BY <1>1, <1>2, <1>4, StepPreserves

\* A manual termination leaves the goroutines alone.
LEMMA ManualTerminateKeeps ==
  ASSUME IInv, ManualTerminate
  PROVE  IInv'
<1>1. FleetTypeOK'
  <2>1. PICK r \in Runners :
          Terminate({r}, {}) /\ (UntrackRunners({r}) \/ UNCHANGED viewVars)
    BY DEF ManualTerminate
  <2>2. QED
    BY <2>1, TerminateType, UntrackType DEF IInv, TypeOK, FleetTypeOK, viewVars
<1>2. UNCHANGED <<ctlVars, dbVars, pc, locals>>
  BY DEF ManualTerminate
<1>3. QED
  BY <1>1, <1>2, QuietStep

\* So do the containers.
LEMMA EnvironmentKeeps ==
  ASSUME IInv, Environment
  PROVE  IInv'
<1>1. FleetTypeOK'
  BY DEF IInv, TypeOK, FleetTypeOK, Phases, Environment, StartJob, ContainerExit,
         ContainerVanish, GrowOlder, viewVars
<1>2. QED
  BY <1>1, QuietStep DEF Environment

\* Pause, Resume and the administrator's edits.
LEMMA OutsideKeeps ==
  ASSUME IInv, Pause \/ Resume \/ AdminEdit
  PROVE  IInv'
<1>1. FleetTypeOK' /\ UNCHANGED <<lock, pc, locals>>
  BY FleetSame DEF IInv, TypeOK, Pause, Resume, AdminEdit, ctlVars
<1>2. CtlTypeOK'
  <2>1. CASE Pause \/ Resume
    BY <2>1 DEF IInv, TypeOK, CtlTypeOK, Pause, Resume, States, dbVars
  <2>2. CASE AdminEdit
    <3>1. db' \in Rows
      BY <2>2 DEF IInv, TypeOK, CtlTypeOK, AdminEdit, Rows
    <3>2. QED
      BY <2>2, <3>1 DEF IInv, TypeOK, CtlTypeOK, AdminEdit, ctlVars
  <2>3. QED
    BY <2>1, <2>2
<1>3. ProcTypeOK' /\ (\A p \in Procs : ControlOK(p)' /\ PlanOK(p)')
  BY <1>1 DEF IInv, TypeOK, ProcTypeOK, ControlOK, PlanOK, Draining, locals
<1>4. LockInv' /\ BootInv'
  BY <1>1 DEF IInv, LockInv, BootInv, Locked, locals
<1>5. QED
  BY <1>1, <1>2, <1>3, <1>4 DEF IInv, TypeOK

\* A fresh process: its goroutines are idle, or about to boot.
Fresh ==
  /\ FleetTypeOK /\ CtlTypeOK /\ lock = None
  /\ pc = [p \in Procs |-> FirstLabel(p)]
  /\ loc = [p \in Procs |-> FirstLocals(p)]
  /\ plan = [p \in Procs |-> NoPlan]
  /\ drain = [p \in Procs |-> NoDrain]
  /\ snap = [p \in Procs |-> NoSnap]

\* A fresh process satisfies IInv.
LEMMA FreshIInv == Fresh => IInv
<1>. SUFFICES ASSUME Fresh PROVE IInv
  OBVIOUS
<1>1. \A p \in Procs : FirstLabel(p) \in Labels /\ FirstLocals(p) \in LocalType
  <2>1. [Blank EXCEPT !.op = "boot"] \in LocalType
    BY BlankTypes DEF LocalType, Operations
  <2>2. QED
    BY <2>1, BlankTypes DEF FirstLabel, FirstLocals, Labels
<1>2. ProcTypeOK
  BY <1>1, BlankTypes DEF ProcTypeOK, Fresh
<1>3. ASSUME NEW p \in Procs
      PROVE  /\ "boot" \in Roles[p] => pc[p] = "boot" /\ loc[p].op = "boot"
             /\ "boot" \notin Roles[p] => pc[p] = "idle" /\ loc[p].op = "none"
             /\ loc[p].ret = "idle" /\ plan[p].pools = {} /\ drain[p].batch = <<>>
  <2>1. pc[p] = FirstLabel(p) /\ loc[p] = FirstLocals(p) /\ plan[p] = NoPlan
        /\ drain[p] = NoDrain
    BY DEF Fresh
  <2>2. QED
    BY <2>1 DEF FirstLabel, FirstLocals, Blank, NoPlan, NoDrain
<1>4. ASSUME NEW p \in Procs
      PROVE  ControlOK(p) /\ PlanOK(p)
  BY <1>3 DEF ControlOK, PlanOK, Draining
<1>5. LockInv
  BY <1>3, ControllerAssumption DEF LockInv, Locked, Outside, Fresh
<1>6. BootInv
  BY <1>3, ControllerAssumption DEF BootInv, Fresh
<1>7. QED
  BY <1>2, <1>4, <1>5, <1>6 DEF IInv, TypeOK, Fresh

\* A crash leaves a fresh process.
LEMMA CrashKeeps ==
  ASSUME IInv, Crash
  PROVE  IInv'
<1>1. FleetTypeOK'
  BY UntrackType DEF IInv, TypeOK, FleetTypeOK, Crash, hostVars
<1>2. CtlTypeOK'
  BY ControllerAssumption DEF IInv, TypeOK, CtlTypeOK, Crash, States, dbVars
<1>3. Fresh'
  BY <1>1, <1>2 DEF Fresh, Crash, FirstLabel, FirstLocals, Blank, NoPlan, NoDrain,
     NoSnap, NoRows
<1>4. QED
  BY <1>3, FreshIInv, PTL

----------------------------------------------------------------------------
(* The invariant and its consequences.                                     *)

\* So does the first one.
LEMMA InitIInv == Init => IInv
<1>. SUFFICES ASSUME Init PROVE IInv
  OBVIOUS
<1>1. FleetTypeOK
  BY DEF Init, FleetTypeOK, NoSnap, Phases
<1>2. CtlTypeOK
  BY ControllerAssumption DEF Init, CtlTypeOK, States, Rows
<1>3. QED
  BY <1>1, <1>2, FreshIInv DEF Init, Fresh

\* Every step inside an operation keeps the invariant.
LEMMA WorkKeeps ==
  ASSUME IInv, NEW p \in Procs, Work(p)
  PROVE  IInv'
BY BootKeeps, BootLoadKeeps, AuditListKeeps, AuditMergeKeeps, ReapKeeps,
   DrainQueueKeeps, DrainRequestKeeps, DrainStoreKeeps, SpawnKeeps,
   SpawnFailsKeeps, TrackKeeps, PoolsDoneKeeps, SkipPoolKeeps, PlanPoolKeeps,
   CullKeeps, CullDoneKeeps, FillKeeps, RefreshSettingsKeeps, LoadPoolsKeeps,
   DrainPoolKeeps, FindHungKeeps, KillHungKeeps, HungDoneKeeps, EventPoolKeeps,
   MarkBusyKeeps, ShutdownIdleKeeps, ShutdownCleanKeeps, ShutdownPollKeeps,
   ShutdownCheckKeeps, ShutdownTimeoutKeeps
   DEF Work

\* So does every call, and every acquisition of provisionMu.
LEMMA CallKeeps ==
  ASSUME IInv, NEW p \in Procs, Acquire(p) \/ Call(p)
  PROVE  IInv'
BY EventLockKeeps, QueuedJobLockedKeeps, ReconcileKeeps, CheckHungRunnersKeeps,
   ContainerEventKeeps, QueuedJobKeeps, JobProgressKeeps, GracefulShutdownKeeps,
   ImmediateShutdownKeeps, StartCancelledKeeps
   DEF Acquire, Call

\* And so does a stuttering step.
LEMMA StutterKeeps ==
  ASSUME IInv, UNCHANGED vars
  PROVE  IInv'
<1>1. FleetTypeOK'
  BY FleetSame DEF IInv, TypeOK, vars, shared
<1>2. QED
  BY <1>1, QuietStep DEF vars, shared

\* IInv is an invariant: the goroutines, the lock and the locals stay in step.
THEOREM Invariance == Spec => []IInv
<1>1. IInv /\ [Next]_vars => IInv'
  <2>. SUFFICES ASSUME IInv, [Next]_vars PROVE IInv'
    OBVIOUS
  <2>1. ASSUME NEW p \in Procs, Work(p) \/ Acquire(p) \/ Call(p)
        PROVE  IInv'
    BY <2>1, WorkKeeps, CallKeeps
  <2>2. CASE ManualTerminate \/ Pause \/ Resume \/ Crash \/ AdminEdit \/ Environment
    BY <2>2, ManualTerminateKeeps, OutsideKeeps, CrashKeeps, EnvironmentKeeps
  <2>3. CASE UNCHANGED vars
    BY <2>3, StutterKeeps
  <2>4. QED
    BY <2>1, <2>2, <2>3 DEF Next
<1>2. QED
  BY InitIInv, <1>1, PTL DEF Spec

\* Type correctness: every variable, and every local of every goroutine, keeps
\* its type, and no busy or onDemand flag outlives its entry in the view.
THEOREM TypeCorrect == Spec => []TypeOK
<1>1. IInv => TypeOK
  BY DEF IInv
<1>2. QED
  BY <1>1, Invariance, PTL

\* IInv implies mutual exclusion when callers wait for Boot.
LEMMA IInvSingleWriter ==
  ASSUME IInv, BootFirst
  PROVE  SingleWriter
<1>. SUFFICES ASSUME NEW p1 \in Procs, NEW p2 \in Procs, p1 # p2,
                     Provisioning(p1), Provisioning(p2)
              PROVE  FALSE
  BY DEF SingleWriter
<1>1. CASE loc[p1].op = "boot" \/ loc[p2].op = "boot"
  BY <1>1 DEF IInv, BootInv, Provisioning, Outside
<1>2. CASE loc[p1].op # "boot" /\ loc[p2].op # "boot"
  BY <1>2 DEF IInv, LockInv, Locked, Provisioning
<1>3. QED
  BY <1>1, <1>2

\* provisionMu is a single-writer lock: when callers wait for Boot, no two
\* goroutines provision or remove runners at once.
THEOREM OneWriter == BootFirst => (Spec => []SingleWriter)
<1>. SUFFICES ASSUME BootFirst PROVE Spec => []SingleWriter
  OBVIOUS
<1>1. IInv => SingleWriter
  BY IInvSingleWriter
<1>2. QED
  BY <1>1, Invariance, PTL

----------------------------------------------------------------------------
(* What the step of one goroutine does to the others and to its operation. *)

\* While a goroutine boots and callers wait for it, nobody else can step.
LEMMA BootAlone ==
  ASSUME IInv, BootFirst, NEW p \in Procs, NEW q \in Procs, p # q, loc[p].op = "boot"
  PROVE  ~(Work(q) \/ Acquire(q) \/ Call(q))
<1>1. pc[q] = "idle" /\ "boot" \notin Roles[q]
  BY ControllerAssumption DEF IInv, BootInv
<1>2. \A op : ~Free(q, op)
  BY DEF Free
<1>3. ~Work(q) /\ ~Acquire(q)
  BY <1>1 DEF Work, Acquire, Boot, BootLoad, AuditList, AuditMerge, Reap,
     DrainQueue, DrainRequest, DrainStore, Spawn, SpawnFails, Track, PoolsDone,
     SkipPool, PlanPool, Cull, CullDone, Fill, RefreshSettings, LoadPools,
     DrainPool, FindHung, KillHung, HungDone, EventPool, MarkBusy, ShutdownIdle,
     ShutdownClean, ShutdownPoll, ShutdownCheck, ShutdownTimeout, EventLock,
     QueuedJobLocked
<1>4. ~Call(q)
  BY <1>1, <1>2 DEF Call, Reconcile, CheckHungRunners, ContainerEvent, QueuedJob,
     JobProgress, GracefulShutdown, ImmediateShutdown, StartCancelled
<1>5. QED
  BY <1>3, <1>4

\* A goroutine changes nobody's program counter and locals but its own.
LEMMA LocalsFrame ==
  ASSUME IInv, NEW p \in Procs, NEW q \in Procs, p # q,
         Work(q) \/ Acquire(q) \/ Call(q)
  PROVE  /\ pc'[p] = pc[p] /\ loc'[p] = loc[p] /\ plan'[p] = plan[p]
         /\ drain'[p] = drain[p] /\ snap'[p] = snap[p]
<1>. USE Typed DEF Goto, Return, locals
<1>1. CASE Boot(q) \/ BootLoad(q) \/ AuditList(q) \/ AuditMerge(q) \/ Reap(q)
           \/ DrainQueue(q) \/ DrainStore(q) \/ Spawn(q)
  BY <1>1 DEF Boot, BootLoad, AuditList, AuditMerge, Reap, DrainQueue,
     DrainStore, Spawn
<1>2. CASE DrainRequest(q)
  BY <1>2 DEF DrainRequest
<1>3. CASE SpawnFails(q) \/ Track(q)
  BY <1>3 DEF SpawnFails, Track, NextPool
<1>4. CASE PoolsDone(q) \/ SkipPool(q) \/ PlanPool(q) \/ Cull(q) \/ CullDone(q)
           \/ Fill(q)
  BY <1>4 DEF PoolsDone, SkipPool, PlanPool, Cull, CullDone, Fill, NextPool
<1>5. CASE RefreshSettings(q) \/ LoadPools(q) \/ DrainPool(q)
           \/ FindHung(q) \/ KillHung(q) \/ HungDone(q)
  BY <1>5 DEF RefreshSettings, LoadPools, DrainPool, FindHung, KillHung, HungDone
<1>6. CASE EventPool(q) \/ MarkBusy(q) \/ ShutdownIdle(q) \/ ShutdownClean(q)
           \/ ShutdownPoll(q) \/ ShutdownCheck(q) \/ ShutdownTimeout(q)
  BY <1>6 DEF EventPool, MarkBusy, ShutdownIdle, ShutdownClean, ShutdownPoll,
     ShutdownCheck, ShutdownTimeout
<1>7. CASE Acquire(q) \/ Call(q)
  BY <1>7 DEF Acquire, EventLock, QueuedJobLocked, Call,
     Reconcile, CheckHungRunners, ContainerEvent, QueuedJob, JobProgress,
     GracefulShutdown, ImmediateShutdown, StartCancelled
<1>8. QED
  BY <1>1, <1>2, <1>3, <1>4, <1>5, <1>6, <1>7 DEF Work

\* What reconcilePoolWithProvider decides for the pool it turns to.
LEMMA PlanPoolEffect ==
  ASSUME IInv, NEW p \in Procs, PlanPool(p)
  PROVE  \E q \in plan[p].pools : \E V \in SUBSET Idle(q) :
           /\ loc'[p].pool = q /\ loc'[p].kill = V /\ loc'[p].op = loc[p].op
           /\ plan'[p].pools = plan[p].pools /\ plan'[p].cfg = plan[p].cfg
           /\ plan'[p].active = PoolActiveCount(q) - Cardinality(V)
<1>1. PICK q \in plan[p].pools, polled \in 0..MaxPolled :
        LET c == plan[p].cfg[q]
            active == PoolActiveCount(q)
            target == EffectiveTarget(c, active, Cardinality(Idle(q)), polled)
        IN  \E V \in Victims(c, active, Idle(q), target) :
              /\ loc' = [loc EXCEPT ![p].pool = q, ![p].kill = V,
                           ![p].demand = (c.min = 0 \/ c.polling)]
              /\ plan' = [plan EXCEPT ![p].active = active - Cardinality(V),
                                      ![p].need = target]
  BY DEF PlanPool
<1>. DEFINE c == plan[p].cfg[q]
            active == PoolActiveCount(q)
            target == EffectiveTarget(c, active, Cardinality(Idle(q)), polled)
            d == c.min = 0 \/ c.polling
<1>2. PICK V \in Victims(c, active, Idle(q), target) :
        /\ loc' = [loc EXCEPT ![p].pool = q, ![p].kill = V, ![p].demand = d]
        /\ plan' = [plan EXCEPT ![p].active = active - Cardinality(V),
                                ![p].need = target]
  BY <1>1
<1>3. V \in SUBSET Idle(q)
  BY VictimsIdle
<1>. HIDE DEF active, target, d, c
<1>4. loc'[p].pool = q /\ loc'[p].kill = V /\ loc'[p].op = loc[p].op
  BY <1>2, Typed DEF LocalType
<1>5. /\ plan'[p].pools = plan[p].pools /\ plan'[p].cfg = plan[p].cfg
      /\ plan'[p].active = active - Cardinality(V)
  BY <1>2, Typed DEF PlanType
<1>6. QED
  BY <1>3, <1>4, <1>5 DEF active

\* A goroutine leaves its operation only by returning, and begins one of its
\* roles only when it is idle.
LEMMA OpStep ==
  ASSUME IInv, NEW p \in Procs, Work(p) \/ Acquire(p) \/ Call(p)
  PROVE  \/ loc'[p].op \in {loc[p].op, "none"}
         \/ loc'[p].op \in Roles[p] \ {"boot"}
<1>1. Blank.op = "none" /\ loc \in [Procs -> LocalType]
  BY Typed DEF Blank
<1>. USE <1>1 DEF LocalType, Return, locals
<1>2. CASE Boot(p) \/ BootLoad(p) \/ AuditList(p) \/ AuditMerge(p) \/ Reap(p)
           \/ DrainQueue(p) \/ DrainRequest(p) \/ DrainStore(p)
  BY <1>2 DEF Boot, BootLoad, AuditList, AuditMerge, Reap, DrainQueue,
     DrainRequest, DrainStore
<1>3. CASE Spawn(p) \/ SpawnFails(p) \/ Track(p)
  BY <1>3 DEF Spawn, SpawnFails, Track, NextPool
<1>4. CASE PoolsDone(p) \/ SkipPool(p) \/ Cull(p) \/ CullDone(p)
  BY <1>4 DEF PoolsDone, SkipPool, Cull, CullDone
<1>5. CASE PlanPool(p)
  BY <1>5, PlanPoolEffect
<1>6. CASE Fill(p)
  <2>1. NextPool(p) \/ loc' = loc
    BY <1>6 DEF Fill
  <2>2. QED
    BY <2>1 DEF NextPool
<1>7. CASE RefreshSettings(p) \/ LoadPools(p) \/ DrainPool(p) \/ FindHung(p)
           \/ KillHung(p) \/ HungDone(p)
  BY <1>7 DEF RefreshSettings, LoadPools, DrainPool, FindHung, KillHung, HungDone
<1>8. CASE EventPool(p) \/ MarkBusy(p) \/ ShutdownIdle(p) \/ ShutdownClean(p)
           \/ ShutdownPoll(p) \/ ShutdownCheck(p) \/ ShutdownTimeout(p)
  BY <1>8 DEF EventPool, MarkBusy, ShutdownIdle, ShutdownClean, ShutdownPoll,
     ShutdownCheck, ShutdownTimeout
<1>9. CASE Acquire(p)
  BY <1>9 DEF Acquire, EventLock, QueuedJobLocked
<1>10. CASE Reconcile(p) \/ CheckHungRunners(p) \/ GracefulShutdown(p)
            \/ ImmediateShutdown(p) \/ StartCancelled(p)
  BY <1>10 DEF Reconcile, CheckHungRunners, GracefulShutdown, ImmediateShutdown,
     StartCancelled, Free
<1>11. CASE ContainerEvent(p)
  <2>1. PICK r \in Runners : loc' = [loc EXCEPT ![p].op = "event", ![p].kill = {r},
                                                ![p].pool = PoolOf[r]]
    BY <1>11 DEF ContainerEvent
  <2>2. QED
    BY <1>11, <2>1 DEF ContainerEvent, Free
<1>12. CASE JobProgress(p)
  <2>1. PICK r \in Runners : loc' = [loc EXCEPT ![p].op = "webhook", ![p].r = r,
                                                ![p].demand = r \in working]
    BY <1>12 DEF JobProgress
  <2>2. QED
    BY <1>12, <2>1 DEF JobProgress, Free
<1>13. CASE QueuedJob(p)
  <2>1. PICK q \in Pools : loc' = loc \/ loc' = [loc EXCEPT ![p].op = "webhook",
                                            ![p].pool = q, ![p].demand = TRUE]
    BY <1>13 DEF QueuedJob
  <2>2. QED
    BY <1>13, <2>1 DEF QueuedJob, Free
<1>14. QED
  BY <1>2, <1>3, <1>4, <1>5, <1>6, <1>7, <1>8, <1>9, <1>10, <1>11, <1>12, <1>13
     DEF Work, Call

----------------------------------------------------------------------------
(* The states of a boot, and what leaves "stopped".                        *)

\* Boot finds the controller stopped, and it is booting until Boot is over.
BootState ==
  \A p \in Procs :
    loc[p].op = "boot" => state = IF pc[p] = "boot" THEN "stopped" ELSE "booting"

\* A step of the booting goroutine itself.
LEMMA BootStateOwn ==
  ASSUME IInv, BootState, NEW p \in Procs, Work(p) \/ Acquire(p) \/ Call(p),
         loc'[p].op = "boot"
  PROVE  state' = "booting" /\ pc'[p] # "boot"
<1>1. /\ loc[p].op = "boot"
      /\ pc[p] \in {"boot", "audit", "merge", "ping", "pools", "cull", "fill",
                    "spawn", "track"}
      /\ pc[p] # "boot" => state = "booting"
      /\ Blank.op # "boot"
  BY OpStep DEF IInv, ControlOK, BootState, Blank
<1>. USE <1>1, Typed DEF Goto, Return
<1>2. CASE Boot(p)
  BY <1>2 DEF Boot
<1>3. CASE BootLoad(p) \/ AuditList(p) \/ AuditMerge(p) \/ Spawn(p) \/ PoolsDone(p)
           \/ SkipPool(p) \/ PlanPool(p) \/ Cull(p) \/ CullDone(p)
  BY <1>3 DEF BootLoad, AuditList, AuditMerge, AfterAudit, Spawn, PoolsDone, SkipPool,
     PlanPool, Cull, CullDone, shared, ctlVars
<1>4. CASE SpawnFails(p) \/ Track(p) \/ Fill(p)
  BY <1>4 DEF SpawnFails, Track, Fill, NextPool
<1>5. ~(Acquire(p) \/ Call(p))
  BY DEF Acquire, EventLock, QueuedJobLocked, Call, Reconcile, CheckHungRunners,
     ContainerEvent, QueuedJob, JobProgress, GracefulShutdown, ImmediateShutdown,
     StartCancelled, Free
<1>6. QED
  BY <1>2, <1>3, <1>4, <1>5 DEF Work, Reap, DrainQueue, DrainRequest, DrainStore,
     RefreshSettings, LoadPools, DrainPool, FindHung, KillHung, HungDone, EventPool,
     MarkBusy, ShutdownIdle, ShutdownClean, ShutdownPoll, ShutdownCheck,
     ShutdownTimeout

\* No step, of the booting goroutine or of the world, breaks it.
LEMMA BootStateStep ==
  ASSUME IInv, BootFirst, BootState, [Next]_vars
  PROVE  BootState'
<1>. SUFFICES ASSUME NEW p \in Procs, loc'[p].op = "boot"
              PROVE  state' = IF pc'[p] = "boot" THEN "stopped" ELSE "booting"
  BY DEF BootState
<1>1. ASSUME NEW q \in Procs, Work(q) \/ Acquire(q) \/ Call(q)
      PROVE  state' = IF pc'[p] = "boot" THEN "stopped" ELSE "booting"
  <2>1. CASE q = p
    BY <1>1, <2>1, BootStateOwn
  <2>2. CASE q # p
    <3>1. loc[p].op = "boot"
      BY <1>1, <2>2, LocalsFrame
    <3>2. QED
      BY <1>1, <2>2, <3>1, BootAlone
  <2>3. QED
    BY <2>1, <2>2
<1>2. CASE ManualTerminate \/ Pause \/ Resume \/ AdminEdit \/ Environment
           \/ UNCHANGED vars
  BY <1>2 DEF BootState, ManualTerminate, Pause, Resume, AdminEdit, Environment,
     vars, shared, ctlVars, locals
<1>3. CASE Crash
  BY <1>3 DEF Crash, FirstLabel, FirstLocals, Blank
<1>4. QED
  BY <1>1, <1>2, <1>3 DEF Next

\* It holds of every reachable state when callers wait for Boot.
LEMMA BootStateInvariant == BootFirst => (Spec => []BootState)
<1>. SUFFICES ASSUME BootFirst PROVE Spec => []BootState
  OBVIOUS
<1>1. Init => BootState
  BY DEF Init, BootState, FirstLabel, FirstLocals, Blank
<1>2. IInv /\ BootState /\ [Next]_vars => BootState'
  BY BootStateStep
<1>3. QED
  BY <1>1, <1>2, Invariance, PTL DEF Spec

StoppedStep == state = "stopped" /\ state' # "stopped" => \E p \in Procs : pc[p] = "boot"

\* Only Boot leaves "stopped".
LEMMA StoppedStepHolds ==
  ASSUME IInv, BootState, [Next]_vars
  PROVE  StoppedStep
<1>. SUFFICES ASSUME state = "stopped", state' # "stopped"
              PROVE  \E p \in Procs : pc[p] = "boot"
  BY DEF StoppedStep
<1>1. ASSUME NEW p \in Procs, Work(p) \/ Acquire(p) \/ Call(p)
      PROVE  pc[p] = "boot"
  <2>1. CASE Boot(p)
    BY <2>1 DEF Boot
  <2>2. CASE PoolsDone(p)
    BY <2>2 DEF PoolsDone, BootState
  <2>3. CASE Work(p) /\ ~Boot(p) /\ ~PoolsDone(p)
    BY <2>3 DEF Work, BootLoad, AuditList, AuditMerge, Reap, DrainQueue,
       DrainRequest, DrainStore, Spawn, SpawnFails, Track, SkipPool, PlanPool,
       Cull, CullDone, Fill, RefreshSettings, LoadPools, DrainPool, FindHung,
       KillHung, HungDone, EventPool, MarkBusy, ShutdownIdle, ShutdownClean,
       ShutdownPoll, ShutdownCheck, ShutdownTimeout, shared, ctlVars
  <2>4. CASE Acquire(p) \/ Call(p)
    BY <2>4 DEF Acquire, EventLock, QueuedJobLocked, Call, Reconcile,
       CheckHungRunners, ContainerEvent, QueuedJob, JobProgress, GracefulShutdown,
       ImmediateShutdown, StartCancelled, Paused, shared, ctlVars
  <2>5. QED
    BY <1>1, <2>1, <2>2, <2>3, <2>4
<1>2. CASE ManualTerminate \/ Pause \/ Resume \/ Crash \/ AdminEdit \/ Environment
           \/ UNCHANGED vars
  BY <1>2 DEF ManualTerminate, Pause, Resume, Crash, AdminEdit, Environment,
     vars, shared, ctlVars
<1>3. QED
  BY <1>1, <1>2 DEF Next

\* A controller that was shut down, or whose loop was cancelled, stays
\* stopped: no Pause, Resume, late Boot or second shutdown revives it.
THEOREM StoppedIsFinal == BootFirst => (Spec => StoppedStays)
<1>. SUFFICES ASSUME BootFirst PROVE Spec => StoppedStays
  OBVIOUS
<1>1. IInv /\ BootState /\ [Next]_vars => [StoppedStep]_vars
  BY StoppedStepHolds
<1>2. QED
  BY <1>1, Invariance, BootStateInvariant, PTL DEF Spec, StoppedStays, StoppedStep

----------------------------------------------------------------------------
(* The quota check at the moment of the spawn.                             *)

AtSpawn(p) == pc[p] \in {"spawn", "track"}

\* A goroutine comes to spawn with the quota checked and the view untouched.
LEMMA SpawnIsChecked ==
  ASSUME IInv, NEW p \in Procs, Work(p) \/ Acquire(p) \/ Call(p), AtSpawn(p)'
  PROVE  /\ AtSpawn(p) \/ ~Saturated
         /\ UNCHANGED <<tracked, globalMax>>
<1>. USE Typed DEF AtSpawn, Goto
<1>1. CASE DrainRequest(p) \/ Fill(p) \/ QueuedJobLocked(p)
  BY <1>1 DEF DrainRequest, Fill, QueuedJobLocked, NextPool, Return, shared,
     fleetVars,
     viewVars, ctlVars
<1>2. CASE Spawn(p)
  BY <1>2 DEF Spawn, viewVars, ctlVars
<1>3. CASE SpawnFails(p) \/ Track(p)
  BY <1>3 DEF SpawnFails, Track, NextPool, Return
<1>4. CASE DrainQueue(p) \/ DrainStore(p)
  BY <1>4 DEF IInv, ControlOK, DrainQueue, DrainStore
<1>5. CASE AuditList(p) \/ AuditMerge(p) \/ Reap(p)
  BY <1>5 DEF AuditList, AuditMerge, Reap, AfterAudit
<1>6. CASE Boot(p) \/ BootLoad(p) \/ PoolsDone(p) \/ SkipPool(p) \/ PlanPool(p)
           \/ Cull(p) \/ CullDone(p) \/ RefreshSettings(p) \/ LoadPools(p)
  BY <1>6 DEF Boot, BootLoad, PoolsDone, SkipPool, PlanPool, Cull, CullDone,
     RefreshSettings, LoadPools, Return
<1>7. CASE DrainPool(p) \/ FindHung(p) \/ KillHung(p) \/ HungDone(p) \/ EventPool(p)
           \/ MarkBusy(p)
  BY <1>7 DEF DrainPool, FindHung, KillHung, HungDone, EventPool, MarkBusy, Return
<1>8. CASE ShutdownIdle(p) \/ ShutdownClean(p) \/ ShutdownPoll(p) \/ ShutdownCheck(p)
           \/ ShutdownTimeout(p)
  BY <1>8 DEF ShutdownIdle, ShutdownClean, ShutdownPoll, ShutdownCheck,
     ShutdownTimeout, Return
<1>9. CASE EventLock(p) \/ Call(p)
  BY <1>9 DEF EventLock, Call, Reconcile, CheckHungRunners, ContainerEvent,
     QueuedJob,
     JobProgress, GracefulShutdown, ImmediateShutdown, StartCancelled, Free, Return
<1>10. QED
  BY <1>1, <1>2, <1>3, <1>4, <1>5, <1>6, <1>7, <1>8, <1>9 DEF Work, Acquire

\* While one goroutine provisions, the others change neither the set of
\* tracked containers nor the quota.
LEMMA OthersWait ==
  ASSUME IInv, BootFirst, NEW p \in Procs, NEW q \in Procs, p # q, Provisioning(p),
         Work(q) \/ Acquire(q) \/ Call(q)
  PROVE  UNCHANGED <<tracked, globalMax>> /\ pc'[p] = pc[p]
<1>1. pc[q] \in Outside
  BY IInvSingleWriter DEF SingleWriter, Provisioning
<1>2. CASE loc[p].op = "boot"
  BY <1>2, BootAlone
<1>3. CASE loc[p].op # "boot"
  <2>1. lock = p /\ lock # None
    BY <1>3, ControllerAssumption DEF IInv, LockInv, Locked, Provisioning
  <2>2. pc[q] # "boot"
    BY <2>1 DEF IInv, ControlOK, BootInv
  <2>3. Work(q) => MarkBusy(q)
    BY <1>1, <2>2 DEF Outside, Work, Boot, BootLoad, AuditList, AuditMerge, Reap,
       DrainQueue,
       DrainRequest, DrainStore, Spawn, SpawnFails, Track, PoolsDone, SkipPool,
       PlanPool, Cull, CullDone, Fill, RefreshSettings, LoadPools, DrainPool, FindHung,
       KillHung, HungDone, EventPool, ShutdownIdle, ShutdownClean,
       ShutdownPoll, ShutdownCheck, ShutdownTimeout
  <2>4. ~Acquire(q)
    BY <2>1 DEF Acquire, EventLock, QueuedJobLocked, Lock
  <2>5. Call(q) => ContainerEvent(q) \/ QueuedJob(q) \/ JobProgress(q) \/ StartCancelled(q)
    BY <2>1 DEF Call, Reconcile, CheckHungRunners, GracefulShutdown,
       ImmediateShutdown,
       Lock
  <2>6. QED
    BY <2>3, <2>4, <2>5, Typed DEF MarkBusy, ContainerEvent, QueuedJob,
       JobProgress,
       StartCancelled, MarkRunnerBusy, Return, Goto, shared, fleetVars, viewVars, ctlVars
<1>4. QED
  BY <1>2, <1>3

\* Untracking runners lowers the count the quota check reads.
LEMMA FewerActive ==
  ASSUME Active' \subseteq Active
  PROVE  TotalActiveRunners' <= TotalActiveRunners
<1>1. IsFiniteSet(Active)
  BY ActiveFinite
<1>2. Cardinality(Active') <= Cardinality(Active)
  BY <1>1, FS_Subset
<1>3. QED
  BY <1>2 DEF TotalActiveRunners

\* No step invalidates a quota check made before a spawn.
LEMMA QuotaStep ==
  ASSUME IInv, BootFirst, QuotaCheckHolds, [Next]_vars
  PROVE  QuotaCheckHolds'
<1>. SUFFICES ASSUME NEW p \in Procs, AtSpawn(p)'
              PROVE  (TotalActiveRunners < globalMax)'
  BY DEF QuotaCheckHolds, AtSpawn
<1>1. /\ TotalActiveRunners \in Nat
      /\ TotalActiveRunners' \in Nat
      /\ globalMax \in Nat
  <2>1. TotalActiveRunners' \in Nat
    BY FleetAssumption, FS_Subset, FS_CardinalityType
       DEF TotalActiveRunners, Active
  <2>2. QED
    BY <2>1, ActiveFinite DEF IInv, TypeOK, CtlTypeOK
<1>2. ASSUME NEW q \in Procs, Work(q) \/ Acquire(q) \/ Call(q)
      PROVE  (TotalActiveRunners < globalMax)'
  <2>1. CASE q = p
    <3>1. (AtSpawn(p) \/ ~Saturated) /\ UNCHANGED <<tracked, globalMax>>
      BY <1>2, <2>1, SpawnIsChecked
    <3>2. TotalActiveRunners < globalMax
      BY <3>1, <1>1 DEF QuotaCheckHolds, AtSpawn, Saturated
    <3>3. QED
      BY <3>1, <3>2 DEF TotalActiveRunners, Active
  <2>2. CASE q # p /\ Provisioning(p)
    <3>1. UNCHANGED <<tracked, globalMax>> /\ AtSpawn(p)
      BY <1>2, <2>2, OthersWait DEF AtSpawn
    <3>2. QED
      BY <3>1 DEF QuotaCheckHolds, AtSpawn, TotalActiveRunners, Active
  <2>3. CASE q # p /\ ~Provisioning(p)
    <3>1. pc'[p] = pc[p]
      BY <1>2, <2>3, LocalsFrame
    <3>2. QED
      BY <3>1, <2>3 DEF Provisioning, Outside, AtSpawn
  <2>4. QED
    BY <2>1, <2>2, <2>3
<1>3. CASE ManualTerminate \/ Pause \/ Resume \/ AdminEdit \/ Environment \/ UNCHANGED vars
  <2>1. AtSpawn(p) /\ globalMax' = globalMax
    BY <1>3 DEF AtSpawn, ManualTerminate, Pause, Resume, AdminEdit, Environment,
       vars,
       shared, ctlVars
  <2>2. Active' \subseteq Active
    BY <1>3 DEF Active, ManualTerminate, Pause, Resume, AdminEdit, Environment,
       vars,
       shared, fleetVars, viewVars, UntrackRunners, StartJob, ContainerExit,
       ContainerVanish, GrowOlder
  <2>3. TotalActiveRunners' <= TotalActiveRunners
    BY <2>2, FewerActive
  <2>4. QED
    BY <2>1, <2>3, <1>1 DEF QuotaCheckHolds, AtSpawn
<1>4. CASE Crash
  BY <1>4 DEF Crash, AtSpawn, FirstLabel
<1>5. QED
  BY <1>2, <1>3, <1>4 DEF Next

\* The quota check of every spawn path still holds when the container is
\* created and when it is tracked, for any number of goroutines, pools and
\* containers, provided callers wait for Boot.
THEOREM QuotaRespected == BootFirst => (Spec => []QuotaCheckHolds)
<1>. SUFFICES ASSUME BootFirst PROVE Spec => []QuotaCheckHolds
  OBVIOUS
<1>1. Init => QuotaCheckHolds
  BY DEF Init, QuotaCheckHolds, FirstLabel
<1>2. IInv /\ QuotaCheckHolds /\ [Next]_vars => QuotaCheckHolds'
  BY QuotaStep
<1>3. QED
  BY <1>1, <1>2, Invariance, PTL DEF Spec

----------------------------------------------------------------------------
(* The max_concurrency check at the moment of the spawn.                   *)

\* In the refill of a pool, from the plan to the last spawn.
Refilling(p) ==
  \/ pc[p] \in {"cull", "fill"}
  \/ AtSpawn(p) /\ ~Draining(p) /\ loc[p].op # "webhook"

\* activeCount never understates the pool: it covers every tracked runner that
\* is not about to be drained.  The row checked against is there.
RefillOK(p) ==
  /\ Refilling(p) =>
       /\ loc[p].pool \in plan[p].pools
       /\ Cardinality(TrackedPoolRunners(loc[p].pool) \ loc[p].kill) <= plan[p].active
       /\ pc[p] # "cull" => loc[p].kill = {}
  /\ pc[p] = "hookLock" => plan[p].cfg[loc[p].pool] # None
  /\ pc[p] = "spawn" => SpawnRow(p) # None

CapOK(p) ==
  pc[p] = "spawn" /\ SpawnRow(p).max > 0
    => PoolActiveCount(SpawnPool(p)) < SpawnRow(p).max

CapInv == \A p \in Procs : RefillOK(p) /\ CapOK(p)

\* Where a goroutine is when RefillOK and CapOK say something of it.
Counted == {"cull", "fill", "spawn", "track", "hookLock"}

\* The steps that leave a goroutine elsewhere.
LEMMA NotCounted ==
  ASSUME IInv, NEW p \in Procs, Work(p) \/ Acquire(p) \/ Call(p),
         pc'[p] \in Counted
  PROVE  \/ PlanPool(p) \/ Cull(p) \/ CullDone(p) \/ Fill(p) \/ Track(p)
         \/ DrainRequest(p) \/ Spawn(p) \/ QueuedJob(p) \/ QueuedJobLocked(p)
<1>. USE Typed DEF Goto, Return, Counted
<1>1. CASE Boot(p) \/ BootLoad(p) \/ AuditList(p) \/ AuditMerge(p) \/ Reap(p)
  BY <1>1 DEF Boot, BootLoad, AuditList, AuditMerge, Reap, AfterAudit
<1>2. CASE DrainQueue(p) \/ DrainStore(p)
  BY <1>2 DEF IInv, ControlOK, DrainQueue, DrainStore
<1>3. CASE SpawnFails(p) \/ PoolsDone(p) \/ SkipPool(p) \/ RefreshSettings(p)
           \/ LoadPools(p) \/ DrainPool(p)
  BY <1>3 DEF SpawnFails, PoolsDone, SkipPool, RefreshSettings, LoadPools,
     DrainPool, NextPool
<1>4. CASE FindHung(p) \/ KillHung(p) \/ HungDone(p) \/ EventPool(p) \/ MarkBusy(p)
           \/ EventLock(p)
  BY <1>4 DEF FindHung, KillHung, HungDone, EventPool, MarkBusy, EventLock
<1>5. CASE ShutdownIdle(p) \/ ShutdownClean(p) \/ ShutdownPoll(p) \/ ShutdownCheck(p)
           \/ ShutdownTimeout(p)
  BY <1>5 DEF ShutdownIdle, ShutdownClean, ShutdownPoll, ShutdownCheck,
     ShutdownTimeout
<1>6. CASE Reconcile(p) \/ CheckHungRunners(p) \/ ContainerEvent(p)
           \/ JobProgress(p) \/ GracefulShutdown(p) \/ ImmediateShutdown(p)
           \/ StartCancelled(p)
  BY <1>6 DEF Reconcile, CheckHungRunners, ContainerEvent, JobProgress,
     GracefulShutdown, ImmediateShutdown, StartCancelled
<1>7. QED
  BY <1>1, <1>2, <1>3, <1>4, <1>5, <1>6 DEF Work, Acquire, Call

\* Parts of the set of tracked runners are finite, also after a step.
LEMMA PoolCounts ==
  ASSUME NEW q, NEW K
  PROVE  /\ IsFiniteSet(TrackedPoolRunners(q)) /\ IsFiniteSet(TrackedPoolRunners(q) \ K)
         /\ PoolActiveCount(q) \in Nat
         /\ Cardinality(TrackedPoolRunners(q) \ K) \in Nat
<1>1. TrackedPoolRunners(q) \in SUBSET Runners /\ TrackedPoolRunners(q) \ K \in SUBSET Runners
  BY DEF TrackedPoolRunners, Active
<1>2. IsFiniteSet(TrackedPoolRunners(q)) /\ IsFiniteSet(TrackedPoolRunners(q) \ K)
  BY <1>1, FleetAssumption, FS_Subset
<1>3. QED
  BY <1>2, FS_CardinalityType DEF PoolActiveCount

\* A pool whose tracked runners all were tracked before has no more of them.
LEMMA FewerInPool ==
  ASSUME Active' \subseteq Active, NEW q, NEW K
  PROVE  /\ PoolActiveCount(q)' <= PoolActiveCount(q)
         /\ Cardinality(TrackedPoolRunners(q)' \ K) <= Cardinality(TrackedPoolRunners(q) \ K)
<1>1. /\ TrackedPoolRunners(q)' \in SUBSET TrackedPoolRunners(q)
      /\ TrackedPoolRunners(q)' \ K \in SUBSET (TrackedPoolRunners(q) \ K)
  BY DEF TrackedPoolRunners
<1>2. QED
  BY <1>1, PoolCounts, FS_Subset DEF PoolActiveCount

\* A stored row has a natural max.
LEMMA RowMax ==
  ASSUME NEW rows \in Rows, NEW q \in Pools, rows[q] # None
  PROVE  rows[q].max \in Nat
BY ControllerAssumption DEF Rows, ConfigType

\* The row of a spawn, and the pool, when they are there.
LEMMA SpawnRowType ==
  ASSUME IInv, NEW p \in Procs, pc[p] = "spawn", SpawnRow(p) # None
  PROVE  SpawnRow(p).max \in Nat /\ SpawnPool(p) \in Pools
<1>1. CASE Draining(p)
  <2>1. drain[p].rows \in Rows /\ Head(drain[p].batch) \in Pools
    BY <1>1, Typed DEF Draining, DrainType
  <2>2. QED
    BY <1>1, <2>1, RowMax DEF SpawnRow, SpawnPool
<1>2. CASE ~Draining(p)
  <2>1. loc[p].pool \in Pools
    BY <1>2 DEF IInv, ControlOK
  <2>2. plan[p].cfg \in Rows
    BY Typed DEF PlanType
  <2>3. QED
    BY <1>2, <2>1, <2>2, RowMax DEF SpawnRow, SpawnPool
<1>3. QED
  BY <1>1, <1>2

\* Fewer tracked runners and the same locals: nothing is violated.
LEMMA CapFrame ==
  ASSUME IInv, NEW p \in Procs, RefillOK(p), CapOK(p), Active' \subseteq Active,
         pc'[p] = pc[p], loc'[p] = loc[p], plan'[p] = plan[p], drain'[p] = drain[p]
  PROVE  RefillOK(p)' /\ CapOK(p)'
<1>1. /\ Refilling(p)' <=> Refilling(p)
      /\ SpawnRow(p)' = SpawnRow(p) /\ SpawnPool(p)' = SpawnPool(p)
  BY DEF Refilling, AtSpawn, Draining, SpawnRow, SpawnPool
<1>2. RefillOK(p)'
  <2>1. ASSUME Refilling(p)
        PROVE  Cardinality(TrackedPoolRunners(loc[p].pool)' \ loc[p].kill) <= plan[p].active
    <3>1. Cardinality(TrackedPoolRunners(loc[p].pool) \ loc[p].kill) <= plan[p].active
      BY <2>1 DEF RefillOK
    <3>2. /\ Cardinality(TrackedPoolRunners(loc[p].pool) \ loc[p].kill) \in Nat
          /\ plan[p].active \in Int
      BY PoolCounts, Typed DEF PlanType
    <3>3. Cardinality(TrackedPoolRunners(loc[p].pool)' \ loc[p].kill) \in Nat
      <4>1. TrackedPoolRunners(loc[p].pool)' \ loc[p].kill \in SUBSET Runners
        BY DEF TrackedPoolRunners, Active
      <4>2. QED
        BY <4>1, FleetAssumption, FS_Subset, FS_CardinalityType
    <3>4. QED
      BY <3>1, <3>2, <3>3, FewerInPool
  <2>2. (TrackedPoolRunners(loc[p].pool) \ loc[p].kill)'
          = TrackedPoolRunners(loc[p].pool)' \ loc[p].kill
    BY DEF TrackedPoolRunners, Active
  <2>3. QED
    BY <1>1, <2>1, <2>2 DEF RefillOK
<1>3. CapOK(p)'
  <2>1. PICK q : q = SpawnPool(p)
    OBVIOUS
  <2>2. SUFFICES ASSUME pc[p] = "spawn", SpawnRow(p).max > 0
                 PROVE  PoolActiveCount(q)' < SpawnRow(p).max
    BY <1>1, <2>1 DEF CapOK, PoolActiveCount, TrackedPoolRunners
  <2>3. SpawnRow(p).max \in Nat
    BY <2>2, SpawnRowType DEF RefillOK
  <2>4. PoolActiveCount(q) \in Nat /\ PoolActiveCount(q) < SpawnRow(p).max
    BY <2>1, <2>2, PoolCounts DEF CapOK
  <2>5. PoolActiveCount(q)' <= PoolActiveCount(q) /\ PoolActiveCount(q)' \in Nat
    <3>1. TrackedPoolRunners(q)' \in SUBSET Runners
      BY DEF TrackedPoolRunners, Active
    <3>2. QED
      BY <3>1, FewerInPool, FleetAssumption, FS_Subset, FS_CardinalityType
         DEF PoolActiveCount
  <2>6. QED
    BY <2>3, <2>4, <2>5
<1>4. QED
  BY <1>2, <1>3

\* The same counts after a step are natural numbers too.
LEMMA PoolCountsNext ==
  ASSUME NEW q, NEW K
  PROVE  /\ PoolActiveCount(q)' \in Nat
         /\ Cardinality(TrackedPoolRunners(q)' \ K) \in Nat
<1>1. TrackedPoolRunners(q)' \in SUBSET Runners /\ TrackedPoolRunners(q)' \ K \in SUBSET Runners
  BY DEF TrackedPoolRunners, Active
<1>2. QED
  BY <1>1, FleetAssumption, FS_Subset, FS_CardinalityType DEF PoolActiveCount

\* The plan of a pool counts what its scale-down will leave.
LEMMA PlanPoolCap ==
  ASSUME IInv, NEW p \in Procs, PlanPool(p)
  PROVE  RefillOK(p)' /\ CapOK(p)'
<1>0. PICK q \in plan[p].pools : \E V \in SUBSET Idle(q) :
        /\ loc'[p].pool = q /\ loc'[p].kill = V
        /\ plan'[p].pools = plan[p].pools
        /\ plan'[p].active = PoolActiveCount(q) - Cardinality(V)
  BY PlanPoolEffect
<1>1. PICK V \in SUBSET Idle(q) :
        /\ loc'[p].pool = q /\ loc'[p].kill = V
        /\ plan'[p].pools = plan[p].pools
        /\ plan'[p].active = PoolActiveCount(q) - Cardinality(V)
  BY <1>0
<1>2. pc'[p] = "cull" /\ UNCHANGED tracked
  BY Typed DEF PlanPool, Goto, shared, fleetVars, viewVars
<1>3. Cardinality(TrackedPoolRunners(q) \ V) = PoolActiveCount(q) - Cardinality(V)
  <2>1. TrackedPoolRunners(q) \cap V = V
    BY DEF Idle
  <2>2. QED
    BY <2>1, PoolCounts, FS_Difference DEF PoolActiveCount
<1>4. Cardinality(TrackedPoolRunners(q) \ V) \in Nat
  BY PoolCounts
<1>5. (TrackedPoolRunners(loc[p].pool) \ loc[p].kill)' = TrackedPoolRunners(q) \ V
  BY <1>1, <1>2 DEF TrackedPoolRunners, Active
<1>6. (Cardinality(TrackedPoolRunners(loc[p].pool) \ loc[p].kill) <= plan[p].active)'
  BY <1>1, <1>3, <1>4, <1>5
<1>7. QED
  BY <1>1, <1>2, <1>6 DEF RefillOK, CapOK

\* Draining an idle runner takes it out of both sides.
LEMMA CullCap ==
  ASSUME IInv, NEW p \in Procs, RefillOK(p), Cull(p)
  PROVE  RefillOK(p)' /\ CapOK(p)'
<1>1. PICK r \in loc[p].kill :
        UntrackRunners({r}) /\ loc' = [loc EXCEPT ![p].kill = @ \ {r}]
  BY DEF Cull
<1>2. /\ loc'[p].kill = loc[p].kill \ {r} /\ loc'[p].pool = loc[p].pool
      /\ pc[p] = "cull" /\ UNCHANGED <<pc, plan>>
  BY <1>1, Typed DEF Cull, LocalType
<1>3. (TrackedPoolRunners(loc[p].pool) \ loc[p].kill)'
        = TrackedPoolRunners(loc[p].pool) \ loc[p].kill
  BY <1>1, <1>2 DEF TrackedPoolRunners, Active, UntrackRunners
<1>4. QED
  BY <1>2, <1>3 DEF RefillOK, Refilling, CapOK

\* When the draining is over activeCount covers the whole pool.
LEMMA CullDoneCap ==
  ASSUME IInv, NEW p \in Procs, RefillOK(p), CullDone(p)
  PROVE  RefillOK(p)' /\ CapOK(p)'
<1>1. /\ pc[p] = "cull" /\ loc[p].kill = {} /\ pc'[p] = "fill"
      /\ UNCHANGED <<loc, tracked>>
  BY Typed DEF CullDone, Goto, shared, fleetVars, viewVars
<1>2. plan'[p].pools = plan[p].pools /\ plan'[p].active = plan[p].active
  BY Typed DEF CullDone, PlanType
<1>3. (TrackedPoolRunners(loc[p].pool) \ loc[p].kill)'
        = TrackedPoolRunners(loc[p].pool) \ loc[p].kill
  BY <1>1 DEF TrackedPoolRunners, Active
<1>4. QED
  BY <1>1, <1>2, <1>3 DEF RefillOK, Refilling, CapOK

\* The refill loop compares activeCount and the queue with the cap.
LEMMA FillCap ==
  ASSUME IInv, NEW p \in Procs, RefillOK(p), Fill(p)
  PROVE  RefillOK(p)' /\ CapOK(p)'
<1>. DEFINE q == loc[p].pool
            c == plan[p].cfg[q]
            n == plan[p].active + QueueLengthForPool(q)
<1>1. pc[p] = "fill" /\ UNCHANGED <<tracked, drain>>
  BY DEF Fill, fleetVars, viewVars
<1>2. /\ q \in plan[p].pools /\ loc[p].kill = {} /\ ~Draining(p)
      /\ Cardinality(TrackedPoolRunners(q) \ {}) <= plan[p].active
  BY <1>1 DEF RefillOK, Refilling, IInv, ControlOK
<1>3. TrackedPoolRunners(q) \ {} = TrackedPoolRunners(q)
  OBVIOUS
<1>4. PoolActiveCount(q) <= plan[p].active /\ PoolActiveCount(q) \in Nat
  BY <1>2, <1>3, PoolCounts DEF PoolActiveCount
<1>5. CASE NextPool(p)
  BY <1>5, Typed DEF NextPool, Goto, RefillOK, Refilling, AtSpawn, CapOK
<1>6. CASE plan' = [plan EXCEPT ![p].need = @ - 1] /\ UNCHANGED <<pc, loc>>
  <2>1. plan'[p].pools = plan[p].pools /\ plan'[p].active = plan[p].active
    BY <1>6, Typed DEF PlanType
  <2>2. (TrackedPoolRunners(loc[p].pool) \ loc[p].kill)'
          = TrackedPoolRunners(q) \ {}
    BY <1>1, <1>2, <1>6 DEF TrackedPoolRunners, Active
  <2>3. QED
    BY <1>1, <1>2, <1>6, <2>1, <2>2 DEF RefillOK, CapOK
<1>7. CASE /\ ~PoolFull(c, n)
           /\ Goto(p, "spawn") /\ UNCHANGED <<loc, plan>>
  <2>1. pc'[p] = "spawn" /\ ~Draining(p)'
    BY <1>1, <1>2, <1>7, Typed DEF Goto, Draining
  <2>2. SpawnRow(p)' = c /\ SpawnPool(p)' = q
    BY <1>7, <2>1 DEF SpawnRow, SpawnPool
  <2>3. c # None
    BY <1>1, <1>2 DEF IInv, PlanOK
  <2>4. c.max \in Nat /\ plan[p].active \in Int /\ QueueLengthForPool(q) \in Nat
    BY <1>2, <2>3, Typed, RowMax, QueueLengthType DEF PlanType
  <2>5. c.max > 0 => PoolActiveCount(q) < c.max
    BY <1>4, <1>7, <2>4 DEF PoolFull
  <2>6. (PoolActiveCount(SpawnPool(p)))' = PoolActiveCount(q)
    BY <1>1, <2>2 DEF PoolActiveCount, TrackedPoolRunners, Active
  <2>7. CapOK(p)'
    BY <2>2, <2>5, <2>6 DEF CapOK
  <2>8. (TrackedPoolRunners(loc[p].pool) \ loc[p].kill)'
          = TrackedPoolRunners(q) \ {}
    BY <1>1, <1>2, <1>7 DEF TrackedPoolRunners, Active
  <2>9. RefillOK(p)'
    BY <1>2, <1>7, <2>1, <2>2, <2>3, <2>8 DEF RefillOK
  <2>10. QED
    BY <2>7, <2>9
<1>8. QED
  BY <1>5, <1>6, <1>7 DEF Fill

\* A set has at most one element more than one it exceeds by a single element.
LEMMA AtMostOneMore ==
  ASSUME NEW S, IsFiniteSet(S), NEW x, NEW T \in SUBSET (S \cup {x})
  PROVE  Cardinality(T) \in Nat /\ Cardinality(T) <= Cardinality(S) + 1
<1>1. IsFiniteSet(S \cup {x}) /\ Cardinality(S) \in Nat
  BY FS_AddElement, FS_CardinalityType
<1>2. Cardinality(S \cup {x}) <= Cardinality(S) + 1
  BY <1>1, FS_AddElement
<1>3. IsFiniteSet(T) /\ Cardinality(T) <= Cardinality(S \cup {x})
  BY <1>1, FS_Subset
<1>4. Cardinality(T) \in Nat /\ Cardinality(S \cup {x}) \in Nat
  BY <1>1, <1>3, FS_CardinalityType
<1>5. QED
  BY <1>1, <1>2, <1>3, <1>4

\* A runner that is tracked is counted.
LEMMA TrackCap ==
  ASSUME IInv, NEW p \in Procs, RefillOK(p), Track(p), pc'[p] \in Counted
  PROVE  RefillOK(p)' /\ CapOK(p)'
<1>1. /\ pc[p] = "track" /\ ~Draining(p) /\ loc[p].op # "webhook"
      /\ plan' = [plan EXCEPT ![p].active = @ + 1, ![p].need = @ - 1]
      /\ loc' = [loc EXCEPT ![p].r = None]
      /\ pc'[p] = "fill"
  BY Typed DEF Track, Goto, Return, Counted
<1>2. /\ loc'[p].pool = loc[p].pool /\ loc'[p].kill = loc[p].kill
      /\ plan'[p].pools = plan[p].pools /\ plan'[p].active = plan[p].active + 1
  BY <1>1, Typed DEF LocalType, PlanType
<1>3. /\ loc[p].pool \in plan[p].pools /\ loc[p].kill = {}
      /\ Cardinality(TrackedPoolRunners(loc[p].pool) \ {}) <= plan[p].active
  BY <1>1 DEF RefillOK, Refilling, AtSpawn
<1>4. PICK q : q = loc[p].pool
  OBVIOUS
<1>5. Cardinality(TrackedPoolRunners(q)' \ {}) <= plan[p].active + 1
  <2>. DEFINE S == TrackedPoolRunners(q)
              r == loc[p].r
  <2>a. tracked \in [Runners -> Phases] /\ tracked' = [tracked EXCEPT ![r] = "running"]
    BY DEF Track, TrackRunner, IInv, TypeOK, FleetTypeOK
  <2>1. TrackedPoolRunners(q)' \ {} \in SUBSET (S \cup {r})
    BY <2>a DEF TrackedPoolRunners, Active
  <2>2. IsFiniteSet(S) /\ Cardinality(S) \in Nat
    BY PoolCounts DEF PoolActiveCount
  <2>3. Cardinality(S) <= plan[p].active
    <3>1. S = S \ {}
      OBVIOUS
    <3>2. QED
      BY <1>3, <1>4, <3>1
  <2>4. plan[p].active \in Int
    BY Typed DEF PlanType
  <2>. HIDE DEF S, r
  <2>5. /\ Cardinality(TrackedPoolRunners(q)' \ {}) \in Nat
        /\ Cardinality(TrackedPoolRunners(q)' \ {}) <= Cardinality(S) + 1
    BY <2>1, <2>2, AtMostOneMore
  <2>6. QED
    BY <2>2, <2>3, <2>4, <2>5
<1>6. (TrackedPoolRunners(loc[p].pool) \ loc[p].kill)' = TrackedPoolRunners(q)' \ {}
  BY <1>2, <1>3, <1>4 DEF TrackedPoolRunners
<1>7. QED
  BY <1>1, <1>2, <1>3, <1>5, <1>6 DEF RefillOK, CapOK

\* drainQueue checks the pool's row and count before it spawns.
LEMMA DrainRequestCap ==
  ASSUME IInv, NEW p \in Procs, DrainRequest(p), pc'[p] \in Counted
  PROVE  RefillOK(p)' /\ CapOK(p)'
<1>. DEFINE q == Head(drain[p].batch)
            c == drain[p].rows[q]
<1>1. /\ c # None /\ ~PoolFull(c, PoolActiveCount(q))
      /\ Draining(p) /\ pc'[p] = "spawn"
      /\ UNCHANGED <<tracked, drain>>
  BY Typed DEF DrainRequest, Goto, Draining, Counted, shared, fleetVars, viewVars
<1>2. q \in Pools /\ drain[p].rows \in Rows
  BY <1>1, Typed DEF Draining, DrainType
<1>3. c.max \in Nat /\ PoolActiveCount(q) \in Nat
  BY <1>1, <1>2, RowMax, PoolCounts
<1>4. Draining(p)' /\ SpawnRow(p)' = c /\ SpawnPool(p)' = q
  BY <1>1 DEF Draining, SpawnRow, SpawnPool
<1>5. (PoolActiveCount(SpawnPool(p)))' = PoolActiveCount(q)
  BY <1>1, <1>4 DEF PoolActiveCount, TrackedPoolRunners, Active
<1>6. c.max > 0 => PoolActiveCount(q) < c.max
  BY <1>1, <1>3 DEF PoolFull
<1>7. CapOK(p)'
  BY <1>4, <1>5, <1>6 DEF CapOK
<1>8. RefillOK(p)'
  BY <1>1, <1>4 DEF RefillOK, Refilling
<1>9. QED
  BY <1>7, <1>8

\* The container is created: the refill goes on as planned.
LEMMA SpawnCap ==
  ASSUME IInv, NEW p \in Procs, RefillOK(p), Spawn(p)
  PROVE  RefillOK(p)' /\ CapOK(p)'
<1>1. PICK r : loc' = [loc EXCEPT ![p].r = r]
  BY DEF Spawn
<1>2. /\ pc[p] = "spawn" /\ pc'[p] = "track" /\ UNCHANGED <<tracked, plan, drain>>
      /\ loc'[p].pool = loc[p].pool /\ loc'[p].kill = loc[p].kill
      /\ loc'[p].op = loc[p].op
  BY <1>1, Typed DEF Spawn, Goto, viewVars, LocalType
<1>3. (TrackedPoolRunners(loc[p].pool) \ loc[p].kill)'
        = TrackedPoolRunners(loc[p].pool) \ loc[p].kill
  BY <1>2 DEF TrackedPoolRunners, Active
<1>4. Refilling(p)' <=> Refilling(p)
  BY <1>2 DEF Refilling, AtSpawn, Draining
<1>5. QED
  BY <1>2, <1>3, <1>4 DEF RefillOK, CapOK

\* A webhook takes the row of its pool to the lock, ...
LEMMA QueuedJobCap ==
  ASSUME IInv, NEW p \in Procs, QueuedJob(p), pc'[p] \in Counted
  PROVE  RefillOK(p)' /\ CapOK(p)'
<1>1. PICK q \in Pools :
        /\ db[q] # None
        /\ \/ pc' = pc
           \/ /\ loc' = [loc EXCEPT ![p].op = "webhook", ![p].pool = q,
                                    ![p].demand = TRUE]
              /\ plan' = [plan EXCEPT ![p].cfg = db]
              /\ Goto(p, "hookLock")
  BY DEF QueuedJob
<1>2. pc[p] = "idle"
  BY DEF QueuedJob, Free
<1>3. pc'[p] = "hookLock" /\ plan'[p].cfg = db /\ loc'[p].pool = q
  BY <1>1, <1>2, Typed DEF Goto, Counted, LocalType, PlanType
<1>4. QED
  BY <1>1, <1>3 DEF RefillOK, Refilling, AtSpawn, CapOK

\* ... and repeats the check on it there.
LEMMA QueuedJobLockedCap ==
  ASSUME IInv, NEW p \in Procs, RefillOK(p), QueuedJobLocked(p), pc'[p] \in Counted
  PROVE  RefillOK(p)' /\ CapOK(p)'
<1>. DEFINE q == loc[p].pool
            c == plan[p].cfg[q]
<1>1. /\ pc[p] = "hookLock" /\ ~PoolFull(c, PoolActiveCount(q))
      /\ pc'[p] = "spawn" /\ UNCHANGED <<loc, plan, tracked, drain>>
  BY Typed DEF QueuedJobLocked, Return, Goto, Counted, fleetVars, viewVars
<1>2. c # None /\ q \in Pools /\ loc[p].op = "webhook" /\ ~Draining(p)
  BY <1>1 DEF RefillOK, IInv, ControlOK
<1>3. c.max \in Nat /\ PoolActiveCount(q) \in Nat
  BY <1>2, Typed, RowMax, PoolCounts DEF PlanType
<1>4. ~Draining(p)' /\ SpawnRow(p)' = c /\ SpawnPool(p)' = q
  BY <1>1, <1>2 DEF Draining, SpawnRow, SpawnPool
<1>5. (PoolActiveCount(SpawnPool(p)))' = PoolActiveCount(q)
  BY <1>1, <1>4 DEF PoolActiveCount, TrackedPoolRunners, Active
<1>6. c.max > 0 => PoolActiveCount(q) < c.max
  BY <1>1, <1>3 DEF PoolFull
<1>7. CapOK(p)'
  BY <1>4, <1>5, <1>6 DEF CapOK
<1>8. RefillOK(p)'
  BY <1>1, <1>2, <1>4 DEF RefillOK, Refilling
<1>9. QED
  BY <1>7, <1>8

\* No step of a goroutine breaks what its own checks established.
LEMMA CapOwn ==
  ASSUME IInv, NEW p \in Procs, RefillOK(p), Work(p) \/ Acquire(p) \/ Call(p)
  PROVE  RefillOK(p)' /\ CapOK(p)'
<1>1. CASE pc'[p] \in Counted
  BY <1>1, NotCounted, PlanPoolCap, CullCap, CullDoneCap, FillCap, TrackCap,
     DrainRequestCap, SpawnCap, QueuedJobCap, QueuedJobLockedCap
<1>2. CASE pc'[p] \notin Counted
  BY <1>2 DEF RefillOK, Refilling, AtSpawn, CapOK, Counted
<1>3. QED
  BY <1>1, <1>2

\* Nor does a step of another goroutine, or of the world.
LEMMA CapStep ==
  ASSUME IInv, BootFirst, CapInv, [Next]_vars
  PROVE  CapInv'
<1>. SUFFICES ASSUME NEW p \in Procs PROVE RefillOK(p)' /\ CapOK(p)'
  BY DEF CapInv
<1>. USE DEF CapInv
<1>1. ASSUME NEW q \in Procs, Work(q) \/ Acquire(q) \/ Call(q)
      PROVE  RefillOK(p)' /\ CapOK(p)'
  <2>1. CASE q = p
    BY <1>1, <2>1, CapOwn
  <2>2. CASE q # p
    <3>1. /\ pc'[p] = pc[p] /\ loc'[p] = loc[p] /\ plan'[p] = plan[p]
          /\ drain'[p] = drain[p]
      BY <1>1, <2>2, LocalsFrame
    <3>2. CASE Provisioning(p)
      <4>1. Active' \subseteq Active
        BY <1>1, <2>2, <3>2, OthersWait DEF Active
      <4>2. QED
        BY <3>1, <4>1, CapFrame
    <3>3. CASE ~Provisioning(p)
      BY <3>1, <3>3 DEF Provisioning, Outside, RefillOK, Refilling, AtSpawn, CapOK
    <3>4. QED
      BY <3>2, <3>3
  <2>3. QED
    BY <2>1, <2>2
<1>2. CASE ManualTerminate \/ Pause \/ Resume \/ AdminEdit \/ Environment \/ UNCHANGED vars
  <2>1. UNCHANGED <<pc, loc, plan, drain>>
    BY <1>2 DEF ManualTerminate, Pause, Resume, AdminEdit, Environment, vars, locals
  <2>2. Active' \subseteq Active
    BY <1>2 DEF Active, ManualTerminate, Pause, Resume, AdminEdit, Environment,
       vars, shared, fleetVars, viewVars, UntrackRunners, StartJob, ContainerExit,
       ContainerVanish, GrowOlder
  <2>3. QED
    BY <2>1, <2>2, CapFrame
<1>3. CASE Crash
  BY <1>3 DEF Crash, FirstLabel, RefillOK, Refilling, AtSpawn, CapOK
<1>4. QED
  BY <1>1, <1>2, <1>3 DEF Next

\* The max_concurrency check of every spawn path holds when the container is
\* created, though the refill works with an activeCount taken before it drained
\* idle runners and other goroutines have run since, provided callers wait for
\* Boot.
THEOREM CapRespected == BootFirst => (Spec => []CapCheckHolds)
<1>. SUFFICES ASSUME BootFirst PROVE Spec => []CapCheckHolds
  OBVIOUS
<1>1. Init => CapInv
  BY DEF Init, FirstLabel, CapInv, RefillOK, Refilling, AtSpawn, CapOK
<1>2. IInv /\ CapInv /\ [Next]_vars => CapInv'
  BY CapStep
<1>3. CapInv => CapCheckHolds
  BY DEF CapInv, CapOK, CapCheckHolds
<1>4. QED
  BY <1>1, <1>2, <1>3, Invariance, PTL DEF Spec

----------------------------------------------------------------------------
(* What executes on the host and what the supervisor knows of it.          *)

\* A supervisor that is booted before anybody calls it, whose engine lists and
\* removes containers without error, and that no graceful shutdown drains.
Dependable ==
  /\ BootFirst
  /\ \E b \in Procs : "boot" \in Roles[b]
  /\ \A p \in Procs : "graceful" \notin Roles[p]
  /\ "auditFails" \notin World
  /\ "terminateFails" \notin World

\* In the view, or about to be recorded there.
Recorded(r) == tracked[r] = "running" \/ \E p \in Procs : pc[p] = "track" /\ loc[p].r = r

\* Boot has not rebuilt the view yet.
Rebuilding(p) == loc[p].op = "boot" /\ pc[p] \in {"boot", "audit", "merge"}

ViewInv ==
  /\ \/ \E p \in Procs : Rebuilding(p)
     \/ \A r \in Executing : Recorded(r)
  /\ \A p \in Procs : pc[p] = "merge" => \A r \in Executing : snap[p][r] = "running"
  /\ \A p \in Procs : loc[p].op # "graceful"

\* Nothing new executes, and the view keeps every runner that still does.
ViewKept ==
  \A r \in Executing' : r \in Executing /\ (tracked[r] = "running" => tracked'[r] = "running")

\* Terminating without failure what is untracked keeps the view.
LEMMA TerminateKeepsView ==
  ASSUME IInv, Dependable, NEW S \in SUBSET Runners, NEW stuck \in Stuck(S),
         Terminate(S, stuck), UntrackRunners(S)
  PROVE  ViewKept
<1>1. stuck = {}
  BY DEF Stuck, Dependable
<1>2. QED
  BY <1>1 DEF ViewKept, Executing, Terminate, UntrackRunners, IInv, TypeOK,
     FleetTypeOK

\* Leaving containers and entries alone does too.
LEMMA SameKeepsView ==
  ASSUME UNCHANGED <<ctr, tracked>>
  PROVE  ViewKept
BY DEF ViewKept, Executing

\* The steps inside an operation other than the audit and the spawn.
LEMMA WorkKeepsView ==
  ASSUME IInv, Dependable, ViewInv, NEW p \in Procs, Work(p),
         ~Boot(p), ~AuditList(p), ~AuditMerge(p), ~Spawn(p), ~Track(p)
  PROVE  ViewKept
<1>1. CASE Reap(p)
  <2>1. CASE UNCHANGED fleetVars
    BY <2>1, SameKeepsView DEF fleetVars, hostVars, viewVars
  <2>2. CASE \E r \in loc[p].kill : \E stuck \in Stuck({r}) :
               Terminate({r}, stuck) /\ UntrackRunners({r})
    <3>1. loc[p].kill \in SUBSET Runners
      BY Typed DEF LocalType
    <3>2. QED
      BY <2>2, <3>1, TerminateKeepsView
  <2>3. QED
    BY <1>1, <2>1, <2>2 DEF Reap
<1>2. CASE Cull(p) \/ KillHung(p)
  <2>1. loc[p].kill \in SUBSET Runners
    BY Typed DEF LocalType
  <2>2. PICK r \in loc[p].kill : \E stuck \in Stuck({r}) :
               Terminate({r}, stuck) /\ UntrackRunners({r})
    BY <1>2 DEF Cull, KillHung
  <2>3. QED
    BY <2>1, <2>2, TerminateKeepsView
<1>3. CASE DrainPool(p)
  <2>1. PICK q : \E stuck \in Stuck(TrackedPoolRunners(q)) :
          /\ Terminate(TrackedPoolRunners(q), stuck)
          /\ UntrackRunners(TrackedPoolRunners(q))
    BY <1>3 DEF DrainPool
  <2>2. TrackedPoolRunners(q) \in SUBSET Runners
    BY DEF TrackedPoolRunners, Active
  <2>3. QED
    BY <2>1, <2>2, TerminateKeepsView
<1>4. CASE ShutdownIdle(p) \/ ShutdownClean(p) \/ ShutdownPoll(p) \/ ShutdownCheck(p)
           \/ ShutdownTimeout(p)
  BY <1>4 DEF ShutdownIdle, ShutdownClean, ShutdownPoll, ShutdownCheck,
     ShutdownTimeout, IInv, ControlOK, ViewInv
<1>5. CASE MarkBusy(p)
  BY <1>5, SameKeepsView DEF MarkBusy, MarkRunnerBusy, hostVars
<1>6. CASE BootLoad(p) \/ DrainQueue(p) \/ DrainRequest(p) \/ DrainStore(p)
           \/ SpawnFails(p) \/ PoolsDone(p) \/ SkipPool(p) \/ PlanPool(p)
  BY <1>6, SameKeepsView DEF BootLoad, DrainQueue, DrainRequest, DrainStore,
     SpawnFails, PoolsDone, SkipPool, PlanPool, shared, fleetVars, hostVars, viewVars
<1>7. CASE CullDone(p) \/ Fill(p) \/ RefreshSettings(p) \/ LoadPools(p)
           \/ FindHung(p) \/ HungDone(p) \/ EventPool(p)
  BY <1>7, SameKeepsView DEF CullDone, Fill, RefreshSettings, LoadPools, FindHung,
     HungDone, EventPool, shared, fleetVars, hostVars, viewVars
<1>8. QED
  BY <1>1, <1>2, <1>3, <1>4, <1>5, <1>6, <1>7 DEF Work

\* And the calls, an immediate shutdown included.
LEMMA CallKeepsView ==
  ASSUME IInv, Dependable, NEW p \in Procs, Acquire(p) \/ Call(p)
  PROVE  ViewKept
<1>1. CASE ImmediateShutdown(p)
  <2>1. Active \in SUBSET Runners
    BY DEF Active
  <2>2. QED
    BY <1>1, <2>1, TerminateKeepsView DEF ImmediateShutdown, ForceTerminate
<1>2. CASE ~ImmediateShutdown(p)
  BY <1>2, SameKeepsView DEF Acquire, EventLock, QueuedJobLocked, Call, Reconcile,
     CheckHungRunners, ContainerEvent, QueuedJob, JobProgress, GracefulShutdown,
     StartCancelled, shared, fleetVars, hostVars, viewVars
<1>3. QED
  BY <1>1, <1>2

\* Where such a step of p starts and ends.
LEMMA QuietLabels ==
  ASSUME IInv, NEW p \in Procs, Work(p) \/ Acquire(p) \/ Call(p),
         ~Boot(p), ~AuditList(p), ~AuditMerge(p), ~Spawn(p), ~Track(p)
  PROVE  pc[p] \notin {"boot", "audit", "merge", "track"} /\ pc'[p] # "merge"
<1>. USE Typed DEF Goto, Return
<1>1. CASE BootLoad(p) \/ Reap(p) \/ SpawnFails(p) \/ PoolsDone(p) \/ SkipPool(p)
           \/ PlanPool(p) \/ Cull(p) \/ CullDone(p) \/ Fill(p)
  BY <1>1 DEF BootLoad, Reap, AfterAudit, SpawnFails, PoolsDone, SkipPool, PlanPool,
     Cull, CullDone, Fill, NextPool
<1>2. CASE DrainQueue(p) \/ DrainRequest(p) \/ DrainStore(p)
  BY <1>2 DEF IInv, ControlOK, DrainQueue, DrainRequest, DrainStore
<1>3. CASE RefreshSettings(p) \/ LoadPools(p) \/ DrainPool(p) \/ FindHung(p)
           \/ KillHung(p) \/ HungDone(p) \/ EventPool(p) \/ MarkBusy(p)
  BY <1>3 DEF RefreshSettings, LoadPools, DrainPool, FindHung, KillHung, HungDone,
     EventPool, MarkBusy
<1>4. CASE ShutdownIdle(p) \/ ShutdownClean(p) \/ ShutdownPoll(p) \/ ShutdownCheck(p)
           \/ ShutdownTimeout(p)
  BY <1>4 DEF ShutdownIdle, ShutdownClean, ShutdownPoll, ShutdownCheck,
     ShutdownTimeout
<1>5. CASE Acquire(p) \/ Call(p)
  BY <1>5 DEF Acquire, EventLock, QueuedJobLocked, Call, Reconcile,
     CheckHungRunners, ContainerEvent, QueuedJob, JobProgress, GracefulShutdown,
     ImmediateShutdown, StartCancelled, Free
<1>6. QED
  BY <1>1, <1>2, <1>3, <1>4, <1>5 DEF Work

\* Nobody is taken into a graceful shutdown.
LEMMA NeverGraceful ==
  ASSUME IInv, Dependable, ViewInv, NEW q \in Procs, Work(q) \/ Acquire(q) \/ Call(q),
         NEW p \in Procs
  PROVE  loc'[p].op # "graceful"
<1>1. CASE p = q
  BY <1>1, OpStep DEF Dependable, ViewInv
<1>2. CASE p # q
  BY <1>2, LocalsFrame DEF ViewInv
<1>3. QED
  BY <1>1, <1>2

\* A step that keeps the view, by a goroutine outside audit and spawn.
LEMMA QuietKeepsViewInv ==
  ASSUME IInv, Dependable, ViewInv, NEW p \in Procs, Work(p) \/ Acquire(p) \/ Call(p),
         ~Boot(p), ~AuditList(p), ~AuditMerge(p), ~Spawn(p), ~Track(p)
  PROVE  ViewInv'
<1>1. ViewKept
  BY WorkKeepsView, CallKeepsView
<1>2. pc[p] \notin {"boot", "audit", "merge", "track"} /\ pc'[p] # "merge"
  BY QuietLabels
<1>3. \A q \in Procs \ {p} : pc'[q] = pc[q] /\ loc'[q] = loc[q] /\ snap'[q] = snap[q]
  BY LocalsFrame
<1>4. CASE \E q \in Procs : Rebuilding(q)
  <2>1. PICK q \in Procs : Rebuilding(q)
    BY <1>4
  <2>2. Rebuilding(q)'
    BY <1>2, <1>3, <2>1 DEF Rebuilding
  <2>3. \A x \in Procs : pc'[x] = "merge" => \A r \in Executing' : snap'[x][r] = "running"
    BY <1>1, <1>2, <1>3 DEF ViewInv, ViewKept
  <2>4. QED
    BY <2>2, <2>3, NeverGraceful DEF ViewInv
<1>5. CASE \A r \in Executing : Recorded(r)
  <2>1. ASSUME NEW r \in Executing' PROVE Recorded(r)'
    <3>1. r \in Executing /\ (tracked[r] = "running" => tracked'[r] = "running")
      BY <1>1 DEF ViewKept
    <3>2. QED
      BY <1>2, <1>3, <1>5, <3>1 DEF Recorded
  <2>2. \A x \in Procs : pc'[x] = "merge" => \A r \in Executing' : snap'[x][r] = "running"
    BY <1>1, <1>2, <1>3 DEF ViewInv, ViewKept
  <2>3. QED
    BY <2>1, <2>2, NeverGraceful DEF ViewInv
<1>6. QED
  BY <1>4, <1>5 DEF ViewInv

\* Boot begins; the audit lists what executes.
LEMMA ListKeepsViewInv ==
  ASSUME IInv, Dependable, ViewInv, NEW p \in Procs, Boot(p) \/ AuditList(p)
  PROVE  ViewInv'
<1>1. UNCHANGED <<ctr, tracked, loc>>
  BY DEF Boot, AuditList, shared, fleetVars, hostVars, viewVars, locals
<1>2. \A q \in Procs \ {p} : pc'[q] = pc[q] /\ snap'[q] = snap[q]
  BY LocalsFrame DEF Work
<1>3. /\ pc[p] \in {"boot", "audit"} /\ pc'[p] \in {"audit", "merge"}
      /\ pc'[p] = "merge" => snap'[p] = ctr
  BY Typed DEF Boot, AuditList, Goto, Dependable
<1>4. \A x \in Procs : pc'[x] = "merge" => \A r \in Executing' : snap'[x][r] = "running"
  BY <1>1, <1>2, <1>3 DEF ViewInv, Executing
<1>5. \A x \in Procs : Rebuilding(x) => Rebuilding(x)'
  BY <1>1, <1>2, <1>3 DEF Rebuilding
<1>6. \A r \in Executing' : r \in Executing /\ (Recorded(r) => Recorded(r)')
  BY <1>1, <1>2, <1>3 DEF Executing, Recorded
<1>7. QED
  BY <1>1, <1>4, <1>5, <1>6 DEF ViewInv

\* The merge records everything that executes.
LEMMA MergeKeepsViewInv ==
  ASSUME IInv, Dependable, ViewInv, NEW p \in Procs, AuditMerge(p)
  PROVE  ViewInv'
<1>1. pc[p] = "merge" /\ pc'[p] # "merge" /\ tracked' = snap[p] /\ ctr' = ctr
  BY Typed DEF AuditMerge, MergeAudit, Goto, hostVars
<1>2. \A q \in Procs \ {p} : pc'[q] = pc[q] /\ snap'[q] = snap[q]
  BY LocalsFrame DEF Work
<1>3. \A r \in Executing' : Recorded(r)'
  BY <1>1 DEF ViewInv, Executing, Recorded
<1>4. \A x \in Procs : pc'[x] = "merge" => \A r \in Executing' : snap'[x][r] = "running"
  BY <1>1, <1>2 DEF ViewInv, Executing
<1>5. QED
  BY <1>3, <1>4, NeverGraceful DEF ViewInv, Work

\* Nobody rebuilds the view, merges or records while another one spawns.
LEMMA SpawnsAlone ==
  ASSUME IInv, BootFirst, NEW p \in Procs, AtSpawn(p), NEW q \in Procs
  PROVE  /\ ~Rebuilding(q) /\ pc[q] # "merge"
         /\ q # p => pc[q] # "track"
<1>1. CASE q = p
  BY <1>1 DEF AtSpawn, Rebuilding
<1>2. CASE q # p
  <2>1. pc[q] \notin {"audit", "merge", "track"}
    BY <1>2, IInvSingleWriter DEF SingleWriter, Provisioning, Outside, AtSpawn
  <2>2. loc[q].op # "boot"
    BY <1>2 DEF IInv, BootInv, AtSpawn
  <2>3. QED
    BY <2>1, <2>2 DEF Rebuilding
<1>3. QED
  BY <1>1, <1>2

\* The new container is in the hands of its goroutine, ...
LEMMA SpawnKeepsViewInv ==
  ASSUME IInv, Dependable, ViewInv, NEW p \in Procs, Spawn(p)
  PROVE  ViewInv'
<1>1. PICK r \in Runners : SpawnRunner(r) /\ loc' = [loc EXCEPT ![p].r = r]
  BY DEF Spawn, FreshIDs
<1>2. /\ pc[p] = "spawn" /\ pc'[p] = "track" /\ loc'[p].r = r /\ tracked' = tracked
      /\ AtSpawn(p)
  BY <1>1, Typed DEF Spawn, Goto, viewVars, LocalType, AtSpawn
<1>3. Executing' = Executing \cup {r}
  BY <1>1 DEF SpawnRunner, Executing, IInv, TypeOK, FleetTypeOK
<1>4. \A x \in Procs : ~Rebuilding(x) /\ pc[x] \notin {"merge", "track"}
  BY <1>2, SpawnsAlone DEF Dependable
<1>5. \A x \in Procs : pc'[x] # "merge"
  <2>1. ASSUME NEW x \in Procs, x # p PROVE pc'[x] = pc[x]
    BY <2>1, LocalsFrame DEF Work
  <2>2. QED
    BY <1>2, <1>4, <2>1
<1>6. \A x \in Executing' : Recorded(x)'
  BY <1>2, <1>3, <1>4 DEF ViewInv, Recorded
<1>7. QED
  BY <1>5, <1>6, NeverGraceful DEF ViewInv, Work

\* ... who records it.
LEMMA TrackKeepsViewInv ==
  ASSUME IInv, Dependable, ViewInv, NEW p \in Procs, Track(p)
  PROVE  ViewInv'
<1>1. /\ pc[p] = "track" /\ AtSpawn(p) /\ ctr' = ctr
      /\ tracked \in [Runners -> Phases]
      /\ tracked' = [tracked EXCEPT ![loc[p].r] = "running"]
      /\ pc'[p] \in {"drainNext", "idle", "fill"}
  BY Typed DEF Track, TrackRunner, AtSpawn, hostVars, IInv, TypeOK, FleetTypeOK, Goto,
     Return
<1>2. \A x \in Procs : ~Rebuilding(x) /\ pc[x] # "merge" /\ (x # p => pc[x] # "track")
  BY <1>1, SpawnsAlone DEF Dependable
<1>3. \A x \in Procs : pc'[x] # "merge"
  <2>1. ASSUME NEW x \in Procs, x # p PROVE pc'[x] = pc[x]
    BY <2>1, LocalsFrame DEF Work
  <2>2. QED
    BY <1>1, <1>2, <2>1
<1>4. \A r \in Executing' : Recorded(r)'
  <2>. SUFFICES ASSUME NEW r \in Executing' PROVE tracked'[r] = "running"
    BY DEF Recorded
  <2>1. r \in Runners /\ Recorded(r)
    BY <1>1, <1>2 DEF ViewInv, Executing
  <2>2. QED
    BY <1>1, <1>2, <2>1 DEF Recorded
<1>5. QED
  BY <1>3, <1>4, NeverGraceful DEF ViewInv, Work

\* Every step keeps the view complete.
LEMMA ViewStep ==
  ASSUME IInv, Dependable, ViewInv, [Next]_vars
  PROVE  ViewInv'
<1>1. ASSUME NEW p \in Procs, Work(p) \/ Acquire(p) \/ Call(p)
      PROVE  ViewInv'
  BY <1>1, QuietKeepsViewInv, ListKeepsViewInv, MergeKeepsViewInv, SpawnKeepsViewInv,
     TrackKeepsViewInv
<1>2. CASE ManualTerminate \/ Pause \/ Resume \/ AdminEdit \/ Environment
           \/ UNCHANGED vars
  <2>1. UNCHANGED <<pc, loc, snap>>
    BY <1>2 DEF ManualTerminate, Pause, Resume, AdminEdit, Environment, vars, locals
  <2>2. ViewKept
    <3>1. CASE ManualTerminate
      BY <3>1 DEF ManualTerminate, Terminate, UntrackRunners, viewVars, ViewKept,
         Executing, IInv, TypeOK, FleetTypeOK
    <3>2. CASE Environment
      BY <3>2 DEF Environment, StartJob, ContainerExit, ContainerVanish, GrowOlder,
         viewVars, ViewKept, Executing, IInv, TypeOK, FleetTypeOK
    <3>3. CASE Pause \/ Resume \/ AdminEdit \/ UNCHANGED vars
      BY <3>3, SameKeepsView DEF Pause, Resume, AdminEdit, vars, shared, fleetVars,
         hostVars, viewVars
    <3>4. QED
      BY <1>2, <3>1, <3>2, <3>3
  <2>3. QED
    BY <2>1, <2>2 DEF ViewInv, ViewKept, Recorded, Rebuilding
<1>3. CASE Crash
  <2>1. PICK b \in Procs : "boot" \in Roles[b]
    BY DEF Dependable
  <2>2. Rebuilding(b)'
    BY <1>3, <2>1 DEF Crash, Rebuilding, FirstLabel, FirstLocals, Blank
  <2>3. \A x \in Procs : pc'[x] # "merge" /\ loc'[x].op # "graceful"
    BY <1>3 DEF Crash, FirstLabel, FirstLocals, Blank
  <2>4. QED
    BY <2>2, <2>3 DEF ViewInv
<1>4. QED
  BY <1>1, <1>2, <1>3 DEF Next

\* The view is complete in every reachable state, Boot apart.
LEMMA ViewInvariance == Dependable => (Spec => []ViewInv)
<1>. SUFFICES ASSUME Dependable PROVE Spec => []ViewInv
  OBVIOUS
<1>1. Init => ViewInv
  <2>. SUFFICES ASSUME Init PROVE ViewInv
    OBVIOUS
  <2>1. Executing = {}
    BY DEF Init, Executing, NoSnap
  <2>2. \A p \in Procs : loc[p].op # "graceful"
    BY DEF Init, FirstLocals, Blank
  <2>3. QED
    BY <2>1, <2>2 DEF ViewInv
<1>2. IInv /\ ViewInv /\ [Next]_vars => ViewInv'
  BY ViewStep
<1>3. QED
  BY <1>1, <1>2, Invariance, PTL DEF Spec

\* Once Boot has rebuilt the view, every executing runner container is in it,
\* or about to be recorded there by the goroutine that started it: across
\* crashes and restarts, containers that exit or vanish, removed pools,
\* immediate shutdowns and failing spawns and database calls.
THEOREM NothingOrphaned == Dependable => (Spec => []NoOrphans)
<1>. SUFFICES ASSUME Dependable PROVE Spec => []NoOrphans
  OBVIOUS
<1>1. BootFirst
  BY DEF Dependable
<1>2. ViewInv /\ BootState => NoOrphans
  BY DEF ViewInv, BootState, NoOrphans, Recorded, Rebuilding
<1>3. QED
  BY <1>1, <1>2, ViewInvariance, BootStateInvariant, PTL

----------------------------------------------------------------------------
(* Total Allowed Runners and the host.                                     *)

QuotaInv == globalMax = InitialMax /\ AbsoluteMaximum

\* A host where nothing new executes stays within the quota.
LEMMA FewerExecuting ==
  ASSUME QuotaInv, Executing' \subseteq Executing, globalMax' = globalMax
  PROVE  QuotaInv'
<1>1. Executing \in SUBSET Runners /\ Executing' \in SUBSET Executing
  BY DEF Executing
<1>2. IsFiniteSet(Executing)
  BY <1>1, FleetAssumption, FS_Subset
<1>3. IsFiniteSet(Executing') /\ Cardinality(Executing') <= Cardinality(Executing)
  BY <1>1, <1>2, FS_Subset
<1>4. Cardinality(Executing) \in Nat /\ Cardinality(Executing') \in Nat
  BY <1>2, <1>3, FS_CardinalityType
<1>5. QED
  BY <1>3, <1>4, ControllerAssumption DEF QuotaInv, AbsoluteMaximum

\* The quota a Reconcile loads is the one the supervisor started with.
LEMMA QuotaConstant ==
  ASSUME IInv, QuotaInv, Settings \subseteq {InitialMax}, NEW p \in Procs,
         Work(p) \/ Acquire(p) \/ Call(p)
  PROVE  globalMax' = globalMax
<1>1. CASE RefreshSettings(p)
  BY <1>1 DEF RefreshSettings, QuotaInv, IInv, TypeOK, CtlTypeOK
<1>2. CASE Work(p) /\ ~RefreshSettings(p)
  BY <1>2 DEF Work, Boot, BootLoad, AuditList, AuditMerge, Reap, DrainQueue,
     DrainRequest, DrainStore, Spawn, SpawnFails, Track, PoolsDone, SkipPool,
     PlanPool, Cull, CullDone, Fill, LoadPools, DrainPool, FindHung, KillHung,
     HungDone, EventPool, MarkBusy, ShutdownIdle, ShutdownClean, ShutdownPoll,
     ShutdownCheck, ShutdownTimeout, shared, ctlVars
<1>3. CASE Acquire(p) \/ Call(p)
  BY <1>3 DEF Acquire, EventLock, QueuedJobLocked, Call, Reconcile,
     CheckHungRunners, ContainerEvent, QueuedJob, JobProgress, GracefulShutdown,
     ImmediateShutdown, StartCancelled, shared, ctlVars
<1>4. QED
  BY <1>1, <1>2, <1>3

\* The container that is started is one the quota check made room for.
LEMMA SpawnWithinQuota ==
  ASSUME IInv, Dependable, ViewInv, QuotaCheckHolds, QuotaInv, NEW p \in Procs,
         Spawn(p)
  PROVE  QuotaInv'
<1>1. PICK r \in Runners : SpawnRunner(r)
  BY DEF Spawn, FreshIDs
<1>2. pc[p] = "spawn" /\ globalMax' = globalMax /\ AtSpawn(p)
  BY DEF Spawn, ctlVars, AtSpawn
<1>3. \A x \in Procs : ~Rebuilding(x) /\ pc[x] # "track"
  BY <1>2, SpawnsAlone DEF Dependable
<1>4. Executing \subseteq Active
  BY <1>3 DEF ViewInv, Recorded, Active, Executing
<1>5. Executing' \in SUBSET (Active \cup {r})
  BY <1>1, <1>4 DEF SpawnRunner, Executing, IInv, TypeOK, FleetTypeOK
<1>6. IsFiniteSet(Active) /\ TotalActiveRunners \in Nat
  BY ActiveFinite
<1>7. TotalActiveRunners < globalMax
  BY <1>2 DEF QuotaCheckHolds
<1>8. Cardinality(Executing') \in Nat /\ Cardinality(Executing') <= TotalActiveRunners + 1
  BY <1>5, <1>6, AtMostOneMore DEF TotalActiveRunners
<1>9. QED
  BY <1>2, <1>6, <1>7, <1>8, ControllerAssumption DEF QuotaInv, AbsoluteMaximum

\* No step exceeds the quota.
LEMMA QuotaInvStep ==
  ASSUME IInv, Dependable, Settings \subseteq {InitialMax}, ViewInv, QuotaCheckHolds,
         QuotaInv, [Next]_vars
  PROVE  QuotaInv'
<1>1. ASSUME NEW p \in Procs, Work(p) \/ Acquire(p) \/ Call(p)
      PROVE  QuotaInv'
  <2>1. CASE Spawn(p)
    BY <2>1, SpawnWithinQuota
  <2>2. CASE ~Spawn(p)
    <3>1. Executing' \subseteq Executing
      <4>1. CASE Boot(p) \/ AuditList(p) \/ AuditMerge(p) \/ Track(p)
        BY <4>1 DEF Boot, AuditList, AuditMerge, Track, shared, fleetVars, hostVars,
           Executing
      <4>2. CASE ~(Boot(p) \/ AuditList(p) \/ AuditMerge(p) \/ Track(p))
        BY <1>1, <2>2, <4>2, WorkKeepsView, CallKeepsView DEF ViewKept
      <4>3. QED
        BY <4>1, <4>2
    <3>2. QED
      BY <1>1, <3>1, QuotaConstant, FewerExecuting
  <2>3. QED
    BY <2>1, <2>2
<1>2. CASE ManualTerminate \/ Pause \/ Resume \/ Crash \/ AdminEdit \/ Environment
           \/ UNCHANGED vars
  <2>1. globalMax' = globalMax
    BY <1>2 DEF ManualTerminate, Pause, Resume, Crash, AdminEdit, Environment, vars,
       shared, ctlVars, QuotaInv
  <2>2. Executing' \subseteq Executing
    BY <1>2 DEF ManualTerminate, Pause, Resume, Crash, AdminEdit, Environment, vars,
       shared, fleetVars, hostVars, Terminate, StartJob, ContainerExit,
       ContainerVanish, GrowOlder, Executing, IInv, TypeOK, FleetTypeOK
  <2>3. QED
    BY <2>1, <2>2, FewerExecuting
<1>3. QED
  BY <1>1, <1>2 DEF Next

\* Total Allowed Runners bounds what executes on the host, not only what the
\* supervisor tracks, across crashes and restarts, as long as the setting is the
\* limit the process starts with (the restart_quota run shows the other case).
THEOREM MaximumRespected ==
  Dependable /\ Settings \subseteq {InitialMax} => (Spec => []AbsoluteMaximum)
<1>. SUFFICES ASSUME Dependable, Settings \subseteq {InitialMax}
              PROVE  Spec => []AbsoluteMaximum
  OBVIOUS
<1>1. BootFirst
  BY DEF Dependable
<1>2. Init => QuotaInv
  <2>. SUFFICES ASSUME Init PROVE QuotaInv
    OBVIOUS
  <2>1. Executing = {}
    BY DEF Init, Executing, NoSnap
  <2>2. QED
    BY <2>1, FS_EmptySet, ControllerAssumption DEF Init, QuotaInv, AbsoluteMaximum
<1>3. IInv /\ ViewInv /\ QuotaCheckHolds /\ QuotaInv /\ [Next]_vars => QuotaInv'
  BY QuotaInvStep
<1>4. QuotaInv => AbsoluteMaximum
  BY DEF QuotaInv
<1>5. QED
  BY <1>1, <1>2, <1>3, <1>4, Invariance, ViewInvariance, QuotaRespected, PTL DEF Spec

=============================================================================
